----------------------------- MODULE RouteProofs -----------------------------
(***************************************************************************)
(* Proofs about the operations on routes.                                  *)
(***************************************************************************)
EXTENDS RouteProperties, TLAPS

\* A call has a place, and something it has read; faults are counted down.
CallShape ==
  /\ DOMAIN call = Callers
  /\ \A c \in Callers : {"pc", "seen"} \subseteq DOMAIN call[c]
  /\ faultsLeft \in Nat

\* What a call is about to update or to delete bore our label when it was read.
SeenIsOurs ==
  \A c \in Callers :
    call[c].pc \in {"policyUpdate", "policyDelete"} => Managed(call[c].seen)

RouteInv == CallShape /\ SeenIsOurs

\* Calls other than c stay where they are, and c is not at work on a policy it has read.
Leaves(c) ==
  /\ faultsLeft' \in Nat
  /\ DOMAIN call' = Callers
  /\ {"pc", "seen"} \subseteq DOMAIN call'[c]
  /\ call'[c].pc \notin {"policyUpdate", "policyDelete"}
  /\ \A d \in Callers \ {c} : call'[d] = call[d]

LEMMA LeavesKeeps ==
  ASSUME RouteInv, NEW c \in Callers, Leaves(c)
  PROVE  RouteInv'
BY DEF RouteInv, CallShape, SeenIsOurs, Leaves, Managed

LEMMA InitEstablishes ==
  ASSUME Init  PROVE  RouteInv
BY RouteOpsAssumption DEF Init, RouteInv, CallShape, SeenIsOurs, Idle, Absent

\* The ends of the halves.
LEMMA HTTPDoneLeaves ==
  ASSUME RouteInv, NEW c \in Callers, NEW outcome, HTTPDone(c, outcome), faultsLeft' \in Nat
  PROVE  Leaves(c)
BY DEF RouteInv, CallShape, HTTPDone, FirstIngress, Leaves

LEMMA IngressDoneLeaves ==
  ASSUME RouteInv, NEW c \in Callers, NEW outcome, IngressDone(c, outcome), faultsLeft' \in Nat
  PROVE  Leaves(c)
BY DEF RouteInv, CallShape, IngressDone, Leaves

LEMMA ReadLeaves ==
  ASSUME RouteInv, NEW c \in Callers, NEW outcome, NEW route, Read(c, outcome, route),
         faultsLeft' \in Nat
  PROVE  Leaves(c)
BY DEF RouteInv, CallShape, Read, Leaves

LEMMA GotoLeaves ==
  ASSUME RouteInv, NEW c \in Callers, NEW pc, pc \notin {"policyUpdate", "policyDelete"},
         NEW object, Goto(c, pc) \/ GotoSeen(c, pc, object), faultsLeft' \in Nat
  PROVE  Leaves(c)
BY DEF RouteInv, CallShape, Goto, GotoSeen, Leaves

LEMMA PolicyEndsLeave ==
  ASSUME RouteInv, NEW c \in Callers, PolicyDone(c) \/ PolicyFailed(c), faultsLeft' \in Nat
  PROVE  Leaves(c)
<1>1. CASE \E outcome : HTTPDone(c, outcome)
  BY <1>1, HTTPDoneLeaves
<1>2. CASE call' = [call EXCEPT ![c].pc = "httpCache", ![c].seen = Absent]
  BY <1>2 DEF RouteInv, CallShape, Leaves
<1> QED  BY <1>1, <1>2 DEF PolicyDone, PolicyFailed

(***************************************************************************)
(* The steps of a call.                                                    *)
(***************************************************************************)
LEMMA ReturnKeeps ==
  ASSUME RouteInv, NEW c \in Callers, Return(c)  PROVE  RouteInv'
<1>1. Leaves(c)
  BY DEF RouteInv, CallShape, Leaves, Return, boundVars, Idle
<1> QED  BY <1>1, LeavesKeeps

LEMMA StartKeeps ==
  ASSUME RouteInv, NEW c \in Callers, NEW op, NEW route, Start(c, op, route)  PROVE  RouteInv'
<1>1. Entry(op) \notin {"policyUpdate", "policyDelete"}
  BY DEF Entry, FirstHTTP, FirstIngress
<1>2. CallShape'
  BY DEF RouteInv, CallShape, Start, Idle
<1>3. \A d \in Callers :
        \/ call'[d].pc \notin {"policyUpdate", "policyDelete"}
        \/ call'[d].pc = call[d].pc /\ call'[d].seen = call[d].seen
  BY <1>1 DEF RouteInv, CallShape, Start, Idle, At
<1>4. SeenIsOurs'
  BY <1>3 DEF RouteInv, SeenIsOurs, Managed
<1> QED  BY <1>2, <1>4 DEF RouteInv

LEMMA HTTPStepKeeps ==
  ASSUME RouteInv, NEW c \in Callers,
         HTTPGet(c) \/ HTTPCreate(c) \/ HTTPUpdate(c) \/ HTTPDelete(c) \/ HTTPCache(c)
  PROVE  RouteInv'
<1> USE DEF RouteInv, CallShape
<1>1. faultsLeft' \in Nat
  BY DEF HTTPGet, HTTPCreate, HTTPUpdate, HTTPDelete, HTTPCache, boundVars
<1>2. CASE \E outcome : HTTPDone(c, outcome)
  BY <1>1, <1>2, HTTPDoneLeaves, LeavesKeeps
<1>3. CASE PutHTTP(c)
  <2>1. Leaves(c)  BY <1>1, <1>3 DEF PutHTTP, Leaves
  <2> QED  BY <2>1, LeavesKeeps
<1>4. CASE Goto(c, "httpCreate") \/ GotoSeen(c, "httpUpdate", http)
  BY <1>1, <1>4, GotoLeaves, LeavesKeeps
<1>5. CASE HTTPDelete(c)
  <2>1. Leaves(c)  BY <1>1, <1>5 DEF HTTPDelete, Leaves
  <2> QED  BY <2>1, LeavesKeeps
<1> QED  BY <1>2, <1>3, <1>4, <1>5 DEF HTTPGet, HTTPCreate, HTTPUpdate, HTTPCache

LEMMA PolicyGetKeeps ==
  ASSUME RouteInv, NEW c \in Callers, PolicyGet(c)  PROVE  RouteInv'
<1>1. CASE PolicyDone(c)
  BY <1>1, PolicyEndsLeave, LeavesKeeps DEF RouteInv, CallShape, PolicyGet, boundVars
<1>2. CASE GotoSeen(c, PolicyStep(c), policy) /\ PolicyStep(c) # "none"
  <2>1. PolicyStep(c) \in {"policyUpdate", "policyDelete"} => Managed(policy)
    BY <1>2 DEF PolicyStep
  <2>2. CallShape'
    BY <1>2 DEF RouteInv, CallShape, GotoSeen, PolicyGet, boundVars
  <2>3. \A d \in Callers :
          \/ call'[d] = call[d]
          \/ call'[d].pc = PolicyStep(c) /\ call'[d].seen = policy
    BY <1>2 DEF RouteInv, CallShape, GotoSeen
  <2>4. SeenIsOurs'
    BY <2>1, <2>3 DEF RouteInv, SeenIsOurs, Managed
  <2> QED  BY <2>2, <2>4 DEF RouteInv
<1> QED  BY <1>1, <1>2 DEF PolicyGet

LEMMA PolicyWriteKeeps ==
  ASSUME RouteInv, NEW c \in Callers, PolicyCreate(c) \/ PolicyUpdate(c) \/ PolicyDelete(c)
  PROVE  RouteInv'
<1>1. PolicyDone(c) \/ PolicyFailed(c)
  BY DEF PolicyCreate, PolicyUpdate, PolicyDelete
<1>2. faultsLeft' \in Nat
  BY DEF RouteInv, CallShape, PolicyCreate, PolicyUpdate, PolicyDelete, boundVars
<1> QED  BY <1>1, <1>2, PolicyEndsLeave, LeavesKeeps

LEMMA IngressStepKeeps ==
  ASSUME RouteInv, NEW c \in Callers,
         \/ IngressGet(c) \/ IngressCreate(c) \/ IngressUpdate(c)
         \/ IngressDelete(c) \/ IngressCache(c)
  PROVE  RouteInv'
<1>1. faultsLeft' \in Nat
  BY DEF RouteInv, CallShape, IngressGet, IngressCreate, IngressUpdate, IngressDelete, IngressCache,
         boundVars
<1>2. CASE \E outcome : IngressDone(c, outcome)
  BY <1>1, <1>2, IngressDoneLeaves, LeavesKeeps
<1>3. CASE Goto(c, "ingressCreate") \/ GotoSeen(c, "ingressUpdate", ingress)
  BY <1>1, <1>3, GotoLeaves, LeavesKeeps
<1>4. CASE call' = [call EXCEPT ![c].pc = "ingressCache", ![c].made = ingress', ![c].seen = Absent]
  <2>1. Leaves(c)  BY <1>1, <1>4 DEF RouteInv, CallShape, Leaves
  <2> QED  BY <2>1, LeavesKeeps
<1> QED  BY <1>2, <1>3, <1>4 DEF IngressGet, IngressCreate, IngressUpdate, IngressDelete,
              IngressCache, PutIngress

LEMMA ReadStepKeeps ==
  ASSUME RouteInv, NEW c \in Callers,
         GetHTTP(c) \/ GetPolicy(c) \/ ListPolicies(c) \/ ListHTTP(c) \/ GetIngress(c)
  PROVE  RouteInv'
<1>1. faultsLeft' \in Nat
  BY DEF RouteInv, CallShape, GetHTTP, GetPolicy, ListPolicies, ListHTTP, GetIngress, boundVars
<1>2. CASE \E outcome, route : Read(c, outcome, route)
  BY <1>1, <1>2, ReadLeaves, LeavesKeeps
<1>3. CASE GotoSeen(c, "getPolicy", http) \/ GotoSeen(c, "listHTTP", policy)
  BY <1>1, <1>3, GotoLeaves, LeavesKeeps
<1> QED  BY <1>2, <1>3 DEF GetHTTP, GetPolicy, ListPolicies, ListHTTP, GetIngress

LEMMA RequestFailsKeeps ==
  ASSUME RouteInv, NEW c \in Callers, RequestFails(c)  PROVE  RouteInv'
<1>1. faultsLeft' \in Nat
  BY DEF RouteInv, CallShape, RequestFails
<1>2. \/ \E outcome : HTTPDone(c, outcome) \/ IngressDone(c, outcome)
      \/ PolicyFailed(c)
      \/ GotoSeen(c, "getPolicy", cachedHTTP)
      \/ \E outcome, route : Read(c, outcome, route)
  BY DEF RequestFails
<1>3. Leaves(c)
  BY <1>1, <1>2, HTTPDoneLeaves, IngressDoneLeaves, PolicyEndsLeave, GotoLeaves, ReadLeaves
<1> QED  BY <1>3, LeavesKeeps

(***************************************************************************)
(* The steps of others.                                                    *)
(***************************************************************************)
LEMMA ForeignKeeps ==
  ASSUME RouteInv, NEW object, ForeignStep(object)  PROVE  RouteInv'
<1>1. CallShape'
  BY DEF RouteInv, CallShape, ForeignStep
<1>2. \A d \in Callers : call'[d].pc = call[d].pc /\ call'[d].seen = call[d].seen
  BY DEF RouteInv, CallShape, ForeignStep
<1> QED  BY <1>1, <1>2 DEF RouteInv, SeenIsOurs, Managed

LEMMA NextKeeps ==
  ASSUME RouteInv, [Next]_vars  PROVE  RouteInv'
<1>1. CASE UNCHANGED vars \/ Watch
  BY <1>1 DEF vars, boundVars, Watch, RouteInv, CallShape, SeenIsOurs, Managed
<1>2. CASE ForeignPut \/ ForeignDelete
  BY <1>2, ForeignKeeps DEF ForeignPut, ForeignDelete
<1>3. ASSUME NEW c \in Callers, NEW op \in Operations, NEW route, Start(c, op, route)
      PROVE  RouteInv'
  BY <1>3, StartKeeps
<1>4. ASSUME NEW c \in Callers,
             \/ Return(c)
             \/ HTTPGet(c) \/ HTTPCreate(c) \/ HTTPUpdate(c) \/ HTTPDelete(c) \/ HTTPCache(c)
             \/ PolicyGet(c) \/ PolicyCreate(c) \/ PolicyUpdate(c) \/ PolicyDelete(c)
             \/ IngressGet(c) \/ IngressCreate(c) \/ IngressUpdate(c) \/ IngressDelete(c)
             \/ IngressCache(c)
             \/ GetHTTP(c) \/ GetPolicy(c) \/ ListPolicies(c) \/ ListHTTP(c) \/ GetIngress(c)
             \/ RequestFails(c)
      PROVE  RouteInv'
  BY <1>4, ReturnKeeps, HTTPStepKeeps, PolicyGetKeeps, PolicyWriteKeeps, IngressStepKeeps,
     ReadStepKeeps, RequestFailsKeeps
<1> QED  BY <1>1, <1>2, <1>3, <1>4 DEF Next

\* Of every call that is about to update or delete a policy: it read one of ours.
THEOREM OnlyOursAreTouched == Spec => []RouteInv
<1>1. Init => RouteInv  BY InitEstablishes
<1>2. RouteInv /\ [Next]_vars => RouteInv'  BY NextKeeps
<1> QED  BY <1>1, <1>2, PTL DEF Spec

(***************************************************************************)
(* What becomes of the policy of somebody else.                            *)
(***************************************************************************)
KeepsForeign ==
  policy # Absent /\ ~Managed(policy) /\ policy' # policy
    => \/ faultsLeft' # faultsLeft
       \/ policy' = Absent /\ \E c \in Callers : At(c, "policyDelete") /\ call[c].seen # policy

LEMMA StepKeepsForeign ==
  ASSUME RouteInv, [Next]_vars  PROVE  KeepsForeign
<1> SUFFICES ASSUME policy # Absent, ~Managed(policy), policy' # policy,
                    faultsLeft' = faultsLeft
             PROVE  policy' = Absent
                    /\ \E c \in Callers : At(c, "policyDelete") /\ call[c].seen # policy
  BY DEF KeepsForeign
<1>0. faultsLeft \in Nat
  BY DEF RouteInv, CallShape
<1>1. ~(UNCHANGED vars \/ Watch \/ ForeignPut \/ ForeignDelete)
  BY <1>0 DEF vars, serverVars, Watch, ForeignPut, ForeignDelete, ForeignStep
<1>2. \A c \in Callers :
        ~(\/ \E op \in Operations :
                \E route \in IF op \in {"create", "upsert"} THEN Routes ELSE {NoRoute} :
                  Start(c, op, route)
          \/ Return(c)
          \/ HTTPGet(c) \/ HTTPCreate(c) \/ HTTPUpdate(c) \/ HTTPDelete(c) \/ HTTPCache(c)
          \/ PolicyGet(c) \/ PolicyCreate(c)
          \/ IngressGet(c) \/ IngressCreate(c) \/ IngressUpdate(c) \/ IngressDelete(c)
          \/ IngressCache(c)
          \/ GetHTTP(c) \/ GetPolicy(c) \/ ListPolicies(c) \/ ListHTTP(c) \/ GetIngress(c)
          \/ RequestFails(c))
  BY ZenonT(30) DEF serverVars, Start, Return, HTTPGet, HTTPCreate, HTTPUpdate, PutHTTP, HTTPDelete,
         HTTPCache, PolicyGet, PolicyCreate, IngressGet, IngressCreate, IngressUpdate,
         IngressDelete, IngressCache, GetHTTP, GetPolicy, ListPolicies, ListHTTP, GetIngress,
         RequestFails
<1>3. PICK c \in Callers : PolicyUpdate(c) \/ PolicyDelete(c)
  BY <1>1, <1>2 DEF Next
<1>4. Managed(call[c].seen)
  BY <1>3 DEF RouteInv, SeenIsOurs, PolicyUpdate, PolicyDelete, At
<1>5. call[c].seen # policy
  BY <1>4
<1>6. ~PolicyUpdate(c)
  BY <1>5 DEF PolicyUpdate, Current
<1>7. At(c, "policyDelete") /\ policy' = Absent
  BY <1>3, <1>6 DEF PolicyDelete
<1> QED  BY <1>5, <1>7

\* A policy that somebody else owns is never overwritten, whatever routes, callers
\* and faults there are; it is deleted only in place of ours.
THEOREM ForeignIsKept == Spec => ForeignPolicyKept
<1>1. RouteInv /\ [Next]_vars => [KeepsForeign]_vars
  BY StepKeepsForeign
<1> QED  BY <1>1, OnlyOursAreTouched, PTL DEF Spec, ForeignPolicyKept, KeepsForeign

(***************************************************************************)
(* What the API server has: objects that this library makes, and policies  *)
(* of one other owner.                                                     *)
(***************************************************************************)
HTTPStored(spec) == \E route \in Routes : spec = ToHTTPRoute(route)

PolicyStored(spec) ==
  \/ spec = Foreign
  \/ \E route \in Routes :
       ~Refused(route) /\ spec = ToBackendTrafficPolicy(route, system.idle) /\ spec # NoPolicy

\* The Ingress of a route with a class that may be that of an earlier one.
StoredPathType(route) ==
  IF system.networkingV1 THEN OrElse(route.pathType, "", "Prefix") ELSE ""
StoredPath(route) == IF system.networkingV1 THEN RoutePathValue(route.path) ELSE route.path
IngressWith(route, class, ignore) ==
  [id |-> route.id, pathType |-> StoredPathType(route), path |-> StoredPath(route),
   port |-> RouteBackendPort(route.port), class |-> class, nginx |-> route.nginx, ignore |-> ignore]
ConfiguredClass(class) == IF system.bg2 /\ class = NoClass THEN "bg.mesh.netcracker.com" ELSE class
Marked == system.gateway /\ system.ingress
Unmarked == FALSE

IngressStored(spec) ==
  \E route \in Routes :
    spec = IngressWith(route, spec.class, Marked) /\ ConfiguredClass(spec.class) = spec.class

ServerOK ==
  /\ system \in Systems /\ clock \in Nat /\ faultsLeft \in Nat
  /\ http # Absent => HTTPStored(http.spec)
  /\ policy # Absent => PolicyStored(policy.spec) /\ system.policies
  /\ ingress # Absent => IngressStored(ingress.spec)

(***************************************************************************)
(* Where a call may be, and what it has decided on the way.                *)
(***************************************************************************)
Fields == {"op", "route", "pc", "seen", "made", "http", "ingress", "alone", "faults"}
PolicyPcs == {"policy", "policyCreate", "policyUpdate", "policyDelete"}
HTTPPcs == PolicyPcs \cup {"httpGet", "httpCreate", "httpUpdate", "httpDelete", "httpCache"}
IngressPcs == {"ingressCreate", "ingressGet", "ingressUpdate", "ingressDelete", "ingressCache"}
GatewayReads == {"getHTTP", "getPolicy", "listPolicies", "listHTTP"}

PcsOf(op) ==
  CASE op = "none" -> {"idle"}
    [] op = "create" ->
         PolicyPcs \cup {"httpCreate", "httpCache", "ingressCreate", "ingressCache", "done"}
    [] op = "upsert" ->
         PolicyPcs \cup {"httpGet", "httpCreate", "httpUpdate", "httpCache",
                         "ingressGet", "ingressCreate", "ingressUpdate", "ingressCache", "done"}
    [] op = "delete" -> {"httpDelete", "policy", "policyDelete", "ingressDelete", "done"}
    [] op = "get" -> {"getHTTP", "getPolicy", "getIngress", "done"}
    [] op = "list" -> {"listPolicies", "listHTTP", "getIngress", "done"}

Keeping(c) == call[c].op \in {"create", "upsert"}

CallOK(c) ==
  /\ DOMAIN call[c] = Fields
  /\ call[c].op \in {"none", "create", "upsert", "delete", "get", "list"} /\ call[c].pc \in PcsOf(call[c].op)
  /\ call[c].faults \in Nat /\ (call[c].op # "none" => faultsLeft <= call[c].faults)
  /\ call[c].alone \in BOOLEAN
  /\ Keeping(c) => call[c].route \in Routes
  /\ Keeping(c) /\ call[c].pc \in PolicyPcs \cup {"httpUpdate"} => ~Refused(call[c].route)
  /\ call[c].pc \in {"policyCreate", "policyUpdate"} => Wanted(c) # NoPolicy
  /\ call[c].pc \in {"policyCreate", "policyUpdate", "policyDelete"} => system.policies
  /\ call[c].pc \in HTTPPcs \cup GatewayReads => system.gateway
  /\ call[c].pc \in IngressPcs => system.ingress
  /\ call[c].pc = "getIngress" => ~system.gateway

\* Who is alone has all others idle.
Solo == \A c \in Callers : call[c].alone /\ ~At(c, "idle") => \A d \in Callers \ {c} : At(d, "idle")

(***************************************************************************)
(* What a call that is alone has reached.                                  *)
(***************************************************************************)
PolicyKept(route) ==
  \/ SpecOr(policy, NoPolicy) = ToBackendTrafficPolicy(route, system.idle)
  \/ policy # Absent /\ ~Managed(policy)
  \/ ~system.policies
HTTPKept(route) ==
  http # Absent /\ http.spec = ToHTTPRoute(route) /\ cachedHTTP \in {Absent, http} /\ PolicyKept(route)
IngressKept(route) ==
  /\ ingress # Absent /\ cachedIngress \in {Absent, ingress}
  /\ SameButClass(ingress.spec, Configured(IngressOf(route)))

Writing(c) ==
  /\ Keeping(c) /\ call[c].pc \in PolicyPcs \cup {"httpCache"} =>
       call[c].made = http /\ http # Absent /\ http.spec = ToHTTPRoute(call[c].route)
  /\ call[c].pc \in {"policyCreate", "policyUpdate", "policyDelete"} =>
       call[c].seen = policy /\ call[c].pc = PolicyStep(c)
  /\ At(c, "httpCache") => PolicyKept(call[c].route)
  /\ Keeping(c) /\ call[c].pc \in IngressPcs \cup {"done"} /\ call[c].http = "ok" => HTTPKept(call[c].route)
  /\ At(c, "ingressUpdate") => call[c].seen = ingress
  /\ At(c, "ingressCache") =>
       /\ call[c].made = ingress /\ ingress # Absent
       /\ SameButClass(ingress.spec, Configured(IngressOf(call[c].route)))
  /\ Keeping(c) /\ call[c].ingress = "ok" => At(c, "done") /\ IngressKept(call[c].route)

Accepted(route) ==
  (system.gateway => ~Refused(route)) /\ (system.ingress => Acceptable(IngressOf(route)))

Repairing(c) ==
  call[c].op = "upsert" /\ NoFault(c) /\ Accepted(call[c].route) =>
    /\ At(c, "httpCreate") => http = Absent
    /\ At(c, "httpUpdate") => call[c].seen = http
    /\ At(c, "ingressCreate") => ingress = Absent
    /\ call[c].pc \in IngressPcs \cup {"done"} /\ system.gateway => call[c].http = "ok"
    /\ At(c, "done") /\ system.ingress => call[c].ingress = "ok"

Deleting(c) ==
  call[c].op = "delete" /\ NoFault(c) =>
    /\ call[c].pc \in PolicyPcs => http = Absent
    /\ call[c].pc \in {"ingressDelete", "done"} /\ system.gateway => http = Absent /\ ~Managed(policy)
    /\ At(c, "done") /\ system.ingress => ingress = Absent

\* What there is to read.
Stands(route) ==
  IF system.gateway
  THEN http # Absent /\ route = RouteFromHTTPRouteWithPolicy(http.spec, SpecOr(policy, NoPolicy))
  ELSE ingress # Absent /\ route = RouteFromIngress(ingress.spec)

Reading(c) ==
  call[c].op \in {"get", "list"} /\ NoFault(c) =>
    /\ At(c, "getPolicy") => call[c].seen = http /\ http # Absent
    /\ At(c, "listHTTP") => call[c].seen = policy
    /\ At(c, "done") /\ call[c].made # NoRoute => Stands(call[c].made)

Progress(c) == Writing(c) /\ Repairing(c) /\ Deleting(c) /\ Reading(c)

ProgressInv ==
  /\ DOMAIN call = Callers /\ ServerOK /\ Solo
  /\ \A c \in Callers : CallOK(c) /\ (call[c].alone => Progress(c))

(***************************************************************************)
(* What the conversions return.                                            *)
(***************************************************************************)
LEMMA SystemTypes ==
  ASSUME ServerOK
  PROVE  /\ system.gateway \in BOOLEAN /\ system.ingress \in BOOLEAN /\ system.networkingV1 \in BOOLEAN
         /\ system.bg2 \in BOOLEAN /\ system.policies \in BOOLEAN /\ system.idle \in Nat
BY RouteOpsAssumption DEF ServerOK

LEMMA StoredShape ==
  ASSUME ServerOK, NEW spec
  PROVE  Stored(spec) # Absent /\ Stored(spec).spec = spec
BY DEF ServerOK, Stored, Absent

LEMMA IngressShape ==
  ASSUME NEW route  PROVE IngressOf(route) = IngressWith(route, route.class, Unmarked)
BY DEF IngressOf, ToIngressNetworkingV1, ToIngress, IngressWith, StoredPathType, StoredPath,
       Unmarked

LEMMA ReclassedShape ==
  ASSUME NEW route, NEW class, NEW other, NEW ignore, NEW spec, spec = IngressWith(route, class, ignore)
  PROVE  [spec EXCEPT !.class = other] = IngressWith(route, other, ignore)
BY DEF IngressWith

LEMMA ConfiguredShape ==
  ASSUME NEW route, NEW class
  PROVE  Configured(IngressWith(route, class, Unmarked)) =
           IngressWith(route, ConfiguredClass(class), Marked)
<1> DEFINE spec == IngressWith(route, class, Unmarked)
<1>1. spec.class = class
  BY DEF IngressWith
<1>2. \A other, ignore :
        [spec EXCEPT !.class = other, !.ignore = ignore] =
          [[spec EXCEPT !.class = other] EXCEPT !.ignore = ignore]
  BY DEF IngressWith
<1>3. \A other, ignore :
        [IngressWith(route, other, Unmarked) EXCEPT !.ignore = ignore] = IngressWith(route, other, ignore)
  BY DEF IngressWith
<1>4. Configured(spec) = [spec EXCEPT !.class = ConfiguredClass(spec.class), !.ignore = Marked]
  BY DEF Configured, ConfiguredClass, Marked
<1> HIDE DEF spec
<1>5. Configured(spec) = [[spec EXCEPT !.class = ConfiguredClass(class)] EXCEPT !.ignore = Marked]
  BY <1>1, <1>2, <1>4
<1>6. [spec EXCEPT !.class = ConfiguredClass(class)] = IngressWith(route, ConfiguredClass(class), Unmarked)
  <2>1. PICK other : other = ConfiguredClass(class)
    OBVIOUS
  <2>2. [spec EXCEPT !.class = other] = IngressWith(route, other, Unmarked)
    BY ReclassedShape DEF spec
  <2> QED  BY <2>1, <2>2
<1> QED  BY <1>3, <1>5, <1>6 DEF spec

\* An Ingress that differs from the one that is asked for in its class at most.
LEMMA WrittenShape ==
  ASSUME NEW route \in Routes, NEW class, NEW spec,
         spec = Configured(IngressWith(route, class, Unmarked))
  PROVE  /\ IngressStored(spec)
         /\ SameButClass(spec, Configured(IngressOf(route)))
         /\ Acceptable(spec) <=> Acceptable(IngressOf(route))
<1>1. spec = IngressWith(route, ConfiguredClass(class), Marked)
  BY ConfiguredShape
<1>2. Configured(IngressOf(route)) = IngressWith(route, ConfiguredClass(route.class), Marked)
  BY IngressShape, ConfiguredShape
<1>3. spec.class = ConfiguredClass(class)
  BY <1>1 DEF IngressWith
<1>4. ConfiguredClass(ConfiguredClass(class)) = ConfiguredClass(class)
  BY DEF ConfiguredClass, NoClass
<1>5. IngressStored(spec)
  BY <1>1, <1>3, <1>4 DEF IngressStored
<1>6. SameButClass(spec, Configured(IngressOf(route)))
  <2>1. PICK a, b, ignore : a = ConfiguredClass(class) /\ b = ConfiguredClass(route.class)
                              /\ ignore = Marked
    OBVIOUS
  <2>2. spec = IngressWith(route, a, ignore) /\ Configured(IngressOf(route)) = IngressWith(route, b, ignore)
    BY <1>1, <1>2, <2>1
  <2>3. PICK asked : asked = Configured(IngressOf(route))
    OBVIOUS
  <2>4. [spec EXCEPT !.class = NoClass] = IngressWith(route, NoClass, ignore)
    BY <2>2, ReclassedShape
  <2>5. [asked EXCEPT !.class = NoClass] = IngressWith(route, NoClass, ignore)
    BY <2>2, <2>3, ReclassedShape
  <2> QED  BY <2>3, <2>4, <2>5 DEF SameButClass
<1>7. spec.pathType = StoredPathType(route) /\ IngressOf(route).pathType = StoredPathType(route)
  BY <1>1, IngressShape DEF IngressWith
<1> QED  BY <1>5, <1>6, <1>7 DEF Acceptable

LEMMA AskedShape ==
  ASSUME NEW route \in Routes
  PROVE  /\ IngressStored(Configured(IngressOf(route)))
         /\ SameButClass(Configured(IngressOf(route)), Configured(IngressOf(route)))
         /\ Acceptable(Configured(IngressOf(route))) <=> Acceptable(IngressOf(route))
BY IngressShape, WrittenShape

LEMMA ReplacementShape ==
  ASSUME NEW c, call[c].route \in Routes
  PROVE  /\ IngressStored(Configured(Replacement(c)))
         /\ SameButClass(Configured(Replacement(c)), Configured(IngressOf(call[c].route)))
         /\ Acceptable(Configured(Replacement(c))) <=> Acceptable(IngressOf(call[c].route))
<1>1. PICK class : Replacement(c) = IngressWith(call[c].route, class, Unmarked)
  <2>1. PICK route, spec, other :
          /\ route = call[c].route /\ spec = IngressOf(route) /\ other = call[c].seen.spec.class
    OBVIOUS
  <2>2. spec = IngressWith(route, route.class, Unmarked)
    BY <2>1, IngressShape
  <2>3. [spec EXCEPT !.class = other] = IngressWith(route, other, Unmarked)
    BY <2>2, ReclassedShape
  <2>4. Replacement(c) = spec \/ Replacement(c) = [spec EXCEPT !.class = other]
    BY <2>1 DEF Replacement
  <2> QED  BY <2>1, <2>2, <2>3, <2>4
<1> QED  BY <1>1, WrittenShape

(***************************************************************************)
(* A step of caller c: it takes the call to another place.                 *)
(***************************************************************************)
Becomes(c, pc, seen, made, outcome, ingressOutcome) ==
  /\ DOMAIN call' = Callers /\ DOMAIN call'[c] = Fields
  /\ call'[c].pc = pc /\ call'[c].seen = seen /\ call'[c].made = made
  /\ call'[c].http = outcome /\ call'[c].ingress = ingressOutcome
  /\ call'[c].op = call[c].op /\ call'[c].route = call[c].route
  /\ call'[c].alone = call[c].alone /\ call'[c].faults = call[c].faults
  /\ \A d \in Callers \ {c} : call'[d] = call[d]

LEMMA CallTypes ==
  ASSUME ProgressInv, NEW c \in Callers
  PROVE  /\ DOMAIN call = Callers /\ DOMAIN call[c] = Fields /\ CallOK(c)
         /\ call[c].alone => Progress(c)
BY DEF ProgressInv, CallOK

LEMMA HTTPDoneBecomes ==
  ASSUME ProgressInv, NEW c \in Callers, NEW outcome, HTTPDone(c, outcome)
  PROVE  Becomes(c, IF system.ingress THEN FirstIngress(call[c].op) ELSE "done", Absent, Absent,
                 outcome, call[c].ingress)
BY CallTypes DEF HTTPDone, Becomes, Fields

LEMMA IngressDoneBecomes ==
  ASSUME ProgressInv, NEW c \in Callers, NEW outcome, IngressDone(c, outcome)
  PROVE  Becomes(c, "done", Absent, Absent, call[c].http, outcome)
BY CallTypes DEF IngressDone, Becomes, Fields

LEMMA ReadBecomes ==
  ASSUME ProgressInv, NEW c \in Callers, NEW outcome, NEW route, Read(c, outcome, route)
  PROVE  Becomes(c, "done", Absent, route, outcome, call[c].ingress)
BY CallTypes DEF Read, Becomes, Fields

LEMMA GotoBecomes ==
  ASSUME ProgressInv, NEW c \in Callers, NEW pc, Goto(c, pc)
  PROVE  Becomes(c, pc, call[c].seen, call[c].made, call[c].http, call[c].ingress)
BY CallTypes DEF Goto, Becomes, Fields

LEMMA GotoSeenBecomes ==
  ASSUME ProgressInv, NEW c \in Callers, NEW pc, NEW object, GotoSeen(c, pc, object)
  PROVE  Becomes(c, pc, object, call[c].made, call[c].http, call[c].ingress)
BY CallTypes DEF GotoSeen, Becomes, Fields

\* The other calls are idle or not alone: they keep what they have.
LEMMA CallerSteps ==
  ASSUME ProgressInv, NEW c \in Callers, call[c].pc # "idle",
         NEW pc, NEW seen, NEW made, NEW outcome, NEW ingressOutcome,
         Becomes(c, pc, seen, made, outcome, ingressOutcome),
         system' = system, faultsLeft' <= faultsLeft, ServerOK',
         pc \in PcsOf(call[c].op),
         Keeping(c) /\ pc \in PolicyPcs \cup {"httpUpdate"} => ~Refused(call[c].route),
         pc \in {"policyCreate", "policyUpdate"} => Wanted(c) # NoPolicy,
         pc \in {"policyCreate", "policyUpdate", "policyDelete"} => system.policies,
         pc \in HTTPPcs \cup GatewayReads => system.gateway,
         pc \in IngressPcs => system.ingress,
         pc = "getIngress" => ~system.gateway,
         call[c].alone => Progress(c)'
  PROVE  ProgressInv'
<1>1. CallOK(c) /\ faultsLeft \in Nat /\ faultsLeft' \in Nat
  BY DEF ProgressInv, ServerOK
<1>2. CallOK(c)'
  <2>1. /\ call'[c].pc = pc /\ call'[c].op = call[c].op /\ call'[c].route = call[c].route
        /\ call'[c].alone = call[c].alone /\ call'[c].faults = call[c].faults /\ DOMAIN call'[c] = Fields
    BY DEF Becomes
  <2>2. Wanted(c)' = Wanted(c) /\ Refused(call[c].route)' = Refused(call[c].route)
    BY <2>1 DEF Wanted, Refused
  <2>3. Keeping(c)' = Keeping(c)
    BY <2>1 DEF Keeping
  <2>4. call'[c].op # "none" => faultsLeft' <= call'[c].faults
    BY <1>1, <2>1 DEF CallOK
  <2> QED  BY <1>1, <2>1, <2>2, <2>3, <2>4 DEF CallOK
<1>3. ASSUME NEW d \in Callers, d # c
      PROVE  CallOK(d)' /\ (call'[d].alone => Progress(d)')
  <2>1. call'[d] = call[d] /\ CallOK(d)
    BY <1>3 DEF Becomes, ProgressInv
  <2>2. CallOK(d)'
    <3>1. Wanted(d)' = Wanted(d) /\ Refused(call[d].route)' = Refused(call[d].route)
          /\ Keeping(d)' = Keeping(d)
      BY <2>1 DEF Wanted, Refused, Keeping
    <3>2. call'[d].op # "none" => faultsLeft' <= call'[d].faults
      BY <1>1, <2>1 DEF CallOK
    <3> QED  BY <2>1, <3>1, <3>2 DEF CallOK
  <2>3. ASSUME call'[d].alone  PROVE Progress(d)'
    <3>1. call[d].pc = "idle"
      BY <1>3, <2>1, <2>3 DEF ProgressInv, Solo, At
    <3>2. call[d].op = "none"
      BY <2>1, <3>1 DEF CallOK, PcsOf, PolicyPcs
    <3>3. call'[d].op = "none" /\ call'[d].pc = "idle"
      BY <2>1, <3>1, <3>2
    <3> QED  BY <3>3 DEF Progress, Writing, Repairing, Deleting, Reading, Keeping, At, PolicyPcs, IngressPcs
  <2> QED  BY <2>2, <2>3
<1>4. Solo'
  BY DEF ProgressInv, Solo, At, Becomes
<1>5. DOMAIN call' = Callers /\ call'[c].alone = call[c].alone
  BY DEF Becomes
<1> QED  BY <1>2, <1>3, <1>4, <1>5 DEF ProgressInv

\* A step that succeeds where none has failed: then none had failed before.
LEMMA FaultsOnlyFall ==
  ASSUME ProgressInv, NEW c \in Callers, call[c].pc # "idle", call'[c].faults = call[c].faults,
         ServerOK', faultsLeft' <= faultsLeft, NoFault(c)'
  PROVE  NoFault(c) /\ faultsLeft' = faultsLeft
<1>1. call[c].op # "none"
  BY CallTypes DEF CallOK, PcsOf, PolicyPcs
<1>2. faultsLeft <= call[c].faults /\ call[c].faults \in Nat /\ faultsLeft \in Nat
  BY <1>1, CallTypes DEF CallOK, ProgressInv, ServerOK
<1>3. faultsLeft' \in Nat
  BY DEF ServerOK
<1> QED  BY <1>2, <1>3 DEF NoFault

\* A half ends: the HTTPRoute and its policy are stored, or deleted, or it failed.
LEMMA HTTPEnds ==
  ASSUME ProgressInv, NEW c \in Callers, call[c].pc \in HTTPPcs, NEW outcome, HTTPDone(c, outcome),
         system' = system, faultsLeft' <= faultsLeft, ServerOK', NEW route, route = call[c].route,
         call[c].alone /\ Keeping(c) /\ outcome = "ok" => HTTPKept(route)',
         call[c].alone /\ call[c].op = "upsert" /\ NoFault(c)' /\ Accepted(route) => outcome = "ok",
         call[c].alone /\ call[c].op = "delete" /\ NoFault(c)' => http' = Absent /\ ~Managed(policy)'
  PROVE  ProgressInv'
<1> DEFINE pc == IF system.ingress THEN FirstIngress(call[c].op) ELSE "done"
<1>1. CallOK(c) /\ (call[c].alone => Progress(c))
  BY CallTypes
<1>2. call[c].op \in {"create", "upsert", "delete"}
  BY <1>1 DEF CallOK, PcsOf, HTTPPcs, PolicyPcs
<1>3. Becomes(c, pc, Absent, Absent, outcome, call[c].ingress)
  BY HTTPDoneBecomes
<1>4. /\ pc \in {"done", "ingressCreate", "ingressGet", "ingressDelete"}
      /\ pc = "ingressCreate" => call[c].op = "create"
      /\ pc \in IngressPcs => system.ingress
      /\ pc \in PcsOf(call[c].op)
      /\ system.ingress => pc # "done"
  BY <1>2 DEF FirstIngress, PcsOf, IngressPcs, PolicyPcs
<1> HIDE DEF pc
<1>5. ASSUME call[c].alone  PROVE Progress(c)'
  <2>1. /\ call'[c].pc = pc /\ call'[c].op = call[c].op /\ call'[c].http = outcome
        /\ call'[c].ingress = call[c].ingress /\ call'[c].route = route
    BY <1>3 DEF Becomes
  <2>2. Keeping(c)' = Keeping(c) /\ Accepted(route)' = Accepted(route)
    BY <2>1 DEF Keeping, Accepted, Refused, IngressOf, Acceptable, ToIngress, ToIngressNetworkingV1
  <2>3. Keeping(c) => call[c].ingress # "ok"
    BY <1>1, <1>5 DEF Progress, Writing, At, HTTPPcs, PolicyPcs
  <2>4. Writing(c)'
    BY <1>4, <1>5, <2>1, <2>2, <2>3 DEF Writing, At, PolicyPcs
  <2>5. Repairing(c)'
    BY <1>2, <1>4, <1>5, <2>1, <2>2 DEF Repairing, At
  <2>6. Deleting(c)'
    BY <1>2, <1>4, <1>5, <2>1 DEF Deleting, At, PolicyPcs
  <2>7. Reading(c)'
    BY <1>2, <2>1 DEF Reading
  <2> QED  BY <2>4, <2>5, <2>6, <2>7 DEF Progress
<1> QED
  BY <1>3, <1>4, <1>5, CallerSteps DEF HTTPPcs, PolicyPcs, GatewayReads

LEMMA IngressEnds ==
  ASSUME ProgressInv, NEW c \in Callers, call[c].pc \in IngressPcs, NEW outcome, IngressDone(c, outcome),
         system' = system, faultsLeft' <= faultsLeft, ServerOK', NEW route, route = call[c].route,
         http' = http, policy' = policy, cachedHTTP' = cachedHTTP,
         call[c].alone /\ Keeping(c) /\ outcome = "ok" => IngressKept(route)',
         call[c].alone /\ call[c].op = "upsert" /\ NoFault(c)' /\ Accepted(route) => outcome = "ok",
         call[c].alone /\ call[c].op = "delete" /\ NoFault(c)' => ingress' = Absent
  PROVE  ProgressInv'
<1>1. CallOK(c) /\ (call[c].alone => Progress(c))
  BY CallTypes
<1>2. call[c].op \in {"create", "upsert", "delete"}
  BY <1>1 DEF CallOK, PcsOf, IngressPcs, PolicyPcs
<1>3. Becomes(c, "done", Absent, Absent, call[c].http, outcome)
  BY IngressDoneBecomes
<1>4. "done" \in PcsOf(call[c].op)
  BY <1>2 DEF PcsOf
<1>5. ASSUME call[c].alone  PROVE Progress(c)'
  <2>1. /\ call'[c].pc = "done" /\ call'[c].op = call[c].op /\ call'[c].http = call[c].http
        /\ call'[c].ingress = outcome /\ call'[c].route = route /\ call'[c].faults = call[c].faults
    BY <1>3 DEF Becomes
  <2>2. Keeping(c)' = Keeping(c) /\ Accepted(route)' = Accepted(route)
    BY <2>1 DEF Keeping, Accepted, Refused, IngressOf, Acceptable, ToIngress, ToIngressNetworkingV1
  <2>3. HTTPKept(route)' = HTTPKept(route)
    BY DEF HTTPKept, PolicyKept, SpecOr, Managed
  <2>4. Writing(c)'
    BY <1>1, <1>5, <2>1, <2>2, <2>3 DEF Progress, Writing, At, PolicyPcs, IngressPcs
  <2>5. NoFault(c)' => NoFault(c)
    BY <2>1, FaultsOnlyFall DEF IngressPcs
  <2>6. Repairing(c)'
    BY <1>1, <1>5, <2>1, <2>2, <2>5 DEF Progress, Repairing, At, IngressPcs
  <2>7. Deleting(c)'
    <3>1. call[c].op = "delete" => call[c].pc = "ingressDelete"
      BY <1>1 DEF CallOK, PcsOf, IngressPcs, PolicyPcs
    <3> QED
      BY <1>1, <1>5, <2>1, <2>5, <3>1 DEF Progress, Deleting, At, PolicyPcs, Managed
  <2>8. Reading(c)'
    BY <1>2, <2>1 DEF Reading
  <2> QED  BY <2>4, <2>6, <2>7, <2>8 DEF Progress
<1> QED
  BY <1>3, <1>4, <1>5, CallerSteps DEF HTTPPcs, PolicyPcs, IngressPcs, GatewayReads

LEMMA PolicyEnds ==
  ASSUME ProgressInv, NEW c \in Callers, call[c].pc \in PolicyPcs, PolicyDone(c),
         system' = system, faultsLeft' = faultsLeft, ServerOK', NEW route, route = call[c].route,
         http' = http, cachedHTTP' = cachedHTTP,
         call[c].alone /\ Keeping(c) => PolicyKept(route)',
         call[c].alone /\ call[c].op = "delete" => ~Managed(policy)'
  PROVE  ProgressInv'
<1>1. CallOK(c) /\ (call[c].alone => Progress(c))
  BY CallTypes
<1>2. call[c].op \in {"create", "upsert", "delete"}
  BY <1>1 DEF CallOK, PcsOf, PolicyPcs
<1>3. faultsLeft' <= faultsLeft
  BY DEF ProgressInv, ServerOK
<1>4. CASE call[c].op = "delete"
  <2>1. HTTPDone(c, call[c].http) /\ ~Keeping(c)
    BY <1>4 DEF PolicyDone, Keeping
  <2>2. NoFault(c)' => NoFault(c)
    <3>1. call'[c].faults = call[c].faults
      BY <2>1, HTTPDoneBecomes DEF Becomes
    <3> QED  BY <1>3, <3>1, FaultsOnlyFall DEF PolicyPcs
  <2>3. call[c].alone /\ NoFault(c)' => http' = Absent
    BY <1>1, <1>4, <2>2 DEF Progress, Deleting
  <2> QED  BY <1>3, <1>4, <2>1, <2>3, HTTPEnds DEF HTTPPcs
<1>5. CASE call[c].op # "delete"
  <2>1. Keeping(c)
    BY <1>2, <1>5 DEF Keeping
  <2>2. Becomes(c, "httpCache", Absent, call[c].made, call[c].http, call[c].ingress)
    BY <1>5, CallTypes DEF PolicyDone, Becomes, Fields
  <2>3. "httpCache" \in PcsOf(call[c].op)
    BY <1>2, <1>5 DEF PcsOf
  <2>4. ASSUME call[c].alone  PROVE Progress(c)'
    <3>1. /\ call'[c].pc = "httpCache" /\ call'[c].op = call[c].op /\ call'[c].made = call[c].made
          /\ call'[c].ingress = call[c].ingress /\ call'[c].route = route
      BY <2>2 DEF Becomes
    <3>2. Keeping(c)' = Keeping(c) /\ ToHTTPRoute(call[c].route)' = ToHTTPRoute(call[c].route)
      BY <3>1 DEF Keeping
    <3>3. Writing(c)'
      BY <1>1, <2>1, <2>4, <3>1, <3>2 DEF Progress, Writing, At, PolicyPcs, IngressPcs
    <3>4. Repairing(c)' /\ Deleting(c)' /\ Reading(c)'
      BY <1>2, <1>5, <3>1 DEF Repairing, Deleting, Reading, At, IngressPcs
    <3> QED  BY <3>3, <3>4 DEF Progress
  <2>5. system.gateway
    BY <1>1 DEF CallOK, HTTPPcs
  <2> QED
    BY <1>3, <2>2, <2>3, <2>4, <2>5, CallerSteps DEF HTTPPcs, PolicyPcs, IngressPcs, GatewayReads
<1> QED  BY <1>4, <1>5

\* A policy that another call has changed is met only by a call that is not alone.
LEMMA PolicyFails ==
  ASSUME ProgressInv, NEW c \in Callers, call[c].pc \in PolicyPcs, PolicyFailed(c),
         system' = system, faultsLeft' <= faultsLeft, ServerOK',
         call[c].alone => faultsLeft' # faultsLeft
  PROVE  ProgressInv'
<1>1. PICK route : route = call[c].route
  OBVIOUS
<1>2. PICK outcome : outcome = IF call[c].op = "delete" THEN call[c].http ELSE "failed"
  OBVIOUS
<1>3. HTTPDone(c, outcome) /\ call'[c].faults = call[c].faults
  BY <1>2, HTTPDoneBecomes DEF PolicyFailed, Becomes
<1>4. call[c].alone => ~NoFault(c)'
  BY <1>3, FaultsOnlyFall DEF PolicyPcs
<1>5. Keeping(c) => outcome # "ok"
  BY <1>2 DEF Keeping
<1>6. call[c].pc \in HTTPPcs
  BY DEF HTTPPcs
<1> QED  BY <1>1, <1>3, <1>4, <1>5, <1>6, HTTPEnds

\* The HTTPRoute is written.
LEMMA HTTPIsPut ==
  ASSUME ProgressInv, NEW c \in Callers, call[c].pc \in {"httpCreate", "httpUpdate"}, PutHTTP(c),
         ~Refused(call[c].route), system' = system, faultsLeft' = faultsLeft
  PROVE  ProgressInv'
<1>1. CallOK(c) /\ (call[c].alone => Progress(c)) /\ ServerOK
  BY CallTypes DEF ProgressInv
<1>2. call[c].op \in {"create", "upsert"} /\ Keeping(c)
  BY <1>1 DEF CallOK, PcsOf, PolicyPcs, Keeping
<1>3. Becomes(c, "policy", Absent, http', call[c].http, call[c].ingress)
  BY CallTypes DEF PutHTTP, Becomes, Fields
<1>4. PICK route \in Routes : route = call[c].route
  BY <1>1, <1>2 DEF CallOK
<1>5. http' # Absent /\ http'.spec = ToHTTPRoute(route)
  BY <1>1, <1>4, StoredShape DEF PutHTTP
<1>6. ServerOK'
  <2>1. HTTPStored(http.spec)'
    BY <1>4, <1>5 DEF HTTPStored
  <2>2. clock' \in Nat /\ policy' = policy /\ ingress' = ingress
    BY <1>1 DEF ServerOK, PutHTTP, Tick
  <2>3. policy # Absent => PolicyStored(policy.spec)'
    BY <1>1, <2>2 DEF ServerOK, PolicyStored, Refused
  <2>4. ingress # Absent => IngressStored(ingress.spec)'
    BY <1>1, <2>2 DEF ServerOK, IngressStored, IngressWith, StoredPathType, StoredPath,
                      ConfiguredClass, Marked
  <2> QED  BY <1>1, <2>1, <2>2, <2>3, <2>4 DEF ServerOK
<1>7. ASSUME call[c].alone  PROVE Progress(c)'
  <2>1. /\ call'[c].pc = "policy" /\ call'[c].op = call[c].op /\ call'[c].made = http'
        /\ call'[c].ingress = call[c].ingress /\ call'[c].route = route
    BY <1>3, <1>4 DEF Becomes
  <2>2. Keeping(c)' = Keeping(c) /\ ToHTTPRoute(call[c].route)' = ToHTTPRoute(route)
    BY <2>1 DEF Keeping
  <2>3. Writing(c)'
    BY <1>1, <1>2, <1>5, <1>7, <2>1, <2>2 DEF Progress, Writing, At, PolicyPcs, IngressPcs
  <2>4. Repairing(c)' /\ Deleting(c)' /\ Reading(c)'
    BY <1>2, <2>1 DEF Repairing, Deleting, Reading, At, IngressPcs
  <2> QED  BY <2>3, <2>4 DEF Progress
<1>8. "policy" \in PcsOf(call[c].op) /\ system.gateway /\ faultsLeft' <= faultsLeft
  BY <1>1, <1>2 DEF PcsOf, PolicyPcs, CallOK, HTTPPcs, ServerOK
<1> QED
  BY <1>3, <1>6, <1>7, <1>8, CallerSteps DEF HTTPPcs, PolicyPcs, IngressPcs, GatewayReads

LEMMA ServerKeeps ==
  ASSUME ServerOK, system' = system, clock' \in Nat, faultsLeft' \in Nat,
         http' \in {http, Absent}, policy' \in {policy, Absent}, ingress' \in {ingress, Absent}
  PROVE  ServerOK'
<1>1. ASSUME NEW spec, HTTPStored(spec)  PROVE HTTPStored(spec)'
  BY <1>1 DEF HTTPStored
<1>2. ASSUME NEW spec, PolicyStored(spec)  PROVE PolicyStored(spec)'
  BY <1>2 DEF PolicyStored, Refused
<1>3. ASSUME NEW spec, IngressStored(spec)  PROVE IngressStored(spec)'
  BY <1>3 DEF IngressStored, IngressWith, StoredPathType, StoredPath, ConfiguredClass, Marked
<1>4. http' # Absent => HTTPStored(http.spec)' /\ http' = http
  BY <1>1 DEF ServerOK
<1>5. policy' # Absent => PolicyStored(policy.spec)' /\ policy' = policy /\ system.policies
  BY <1>2 DEF ServerOK
<1>6. ingress' # Absent => IngressStored(ingress.spec)' /\ ingress' = ingress
  BY <1>3 DEF ServerOK
<1> QED  BY <1>4, <1>5, <1>6 DEF ServerOK

\* Nothing that the properties speak of changes but a call.
LEMMA ServerStays ==
  ASSUME ServerOK, UNCHANGED <<system, serverVars, faultsLeft>>
  PROVE  /\ ServerOK' /\ system' = system /\ faultsLeft' = faultsLeft /\ faultsLeft' <= faultsLeft
         /\ http' = http /\ policy' = policy /\ ingress' = ingress
<1>1. /\ system' = system /\ faultsLeft' = faultsLeft /\ clock' = clock
      /\ http' = http /\ policy' = policy /\ ingress' = ingress
  BY DEF serverVars
<1> QED  BY <1>1, ServerKeeps DEF ServerOK

(***************************************************************************)
(* The steps of the half of the HTTPRoute.                                 *)
(***************************************************************************)
\* The half fails for a reason that is no fault.
LEMMA HTTPRefuses ==
  ASSUME ProgressInv, NEW c \in Callers, call[c].pc \in HTTPPcs, HTTPDone(c, "failed"),
         UNCHANGED <<system, serverVars, faultsLeft>>, call[c].op # "delete",
         call[c].alone /\ call[c].op = "upsert" /\ NoFault(c) => ~Accepted(call[c].route)
  PROVE  ProgressInv'
<1>1. PICK route : route = call[c].route
  OBVIOUS
<1>2. ServerOK' /\ system' = system /\ faultsLeft' <= faultsLeft
  BY ServerStays DEF ProgressInv
<1>3. call'[c].faults = call[c].faults
  BY HTTPDoneBecomes DEF Becomes
<1>4. NoFault(c)' => NoFault(c)
  BY <1>2, <1>3, FaultsOnlyFall DEF HTTPPcs, PolicyPcs
<1> QED  BY <1>1, <1>2, <1>4, HTTPEnds

LEMMA HTTPGetProgresses ==
  ASSUME ProgressInv, NEW c \in Callers, HTTPGet(c)  PROVE ProgressInv'
<1>1. CallOK(c) /\ (call[c].alone => Progress(c)) /\ call[c].pc = "httpGet" /\ call[c].pc \in HTTPPcs
  BY CallTypes DEF HTTPGet, At, HTTPPcs
<1>2. call[c].op = "upsert" /\ system.gateway /\ Keeping(c)
  BY <1>1 DEF CallOK, PcsOf, HTTPPcs, PolicyPcs, Keeping
<1>3. UNCHANGED <<system, serverVars, faultsLeft>>
  BY DEF HTTPGet, boundVars
<1>4. ServerOK' /\ system' = system /\ faultsLeft' <= faultsLeft /\ http' = http
  BY <1>3, ServerStays DEF ProgressInv
<1>5. ASSUME NEW pc \in {"httpCreate", "httpUpdate"}, NEW seen,
             Becomes(c, pc, seen, call[c].made, call[c].http, call[c].ingress),
             pc = "httpCreate" => http = Absent,
             pc = "httpUpdate" => seen = http /\ ~Refused(call[c].route)
      PROVE  ProgressInv'
  <2>1. ASSUME call[c].alone  PROVE Progress(c)'
    <3>1. /\ call'[c].pc = pc /\ call'[c].op = "upsert" /\ call'[c].seen = seen
          /\ call'[c].ingress = call[c].ingress
      BY <1>2, <1>5 DEF Becomes
    <3>2. call[c].ingress # "ok"
      BY <1>1, <1>2, <2>1 DEF Progress, Writing, At
    <3>3. Writing(c)'
      BY <3>1, <3>2 DEF Writing, At, PolicyPcs, IngressPcs
    <3>4. Repairing(c)' /\ Deleting(c)' /\ Reading(c)'
      BY <1>4, <1>5, <3>1 DEF Repairing, Deleting, Reading, At, IngressPcs
    <3> QED  BY <3>3, <3>4 DEF Progress
  <2>2. pc \in PcsOf(call[c].op)
    BY <1>2 DEF PcsOf
  <2> QED
    BY <1>1, <1>2, <1>4, <1>5, <2>1, <2>2, CallerSteps DEF PolicyPcs, IngressPcs, GatewayReads
<1>6. CASE http = Absent
  <2>1. Becomes(c, "httpCreate", call[c].seen, call[c].made, call[c].http, call[c].ingress)
    BY <1>6, GotoBecomes DEF HTTPGet
  <2> QED  BY <1>5, <1>6, <2>1
<1>7. CASE http # Absent /\ Refused(call[c].route)
  <2>1. HTTPDone(c, "failed") /\ ~Accepted(call[c].route)
    BY <1>2, <1>7 DEF HTTPGet, Accepted
  <2> QED  BY <1>1, <1>2, <1>3, <2>1, HTTPRefuses
<1>8. CASE http # Absent /\ ~Refused(call[c].route)
  <2>1. Becomes(c, "httpUpdate", http, call[c].made, call[c].http, call[c].ingress)
    BY <1>8, GotoSeenBecomes DEF HTTPGet
  <2> QED  BY <1>5, <1>8, <2>1
<1> QED  BY <1>6, <1>7, <1>8

LEMMA HTTPWriteProgresses ==
  ASSUME ProgressInv, NEW c \in Callers, HTTPCreate(c) \/ HTTPUpdate(c)  PROVE ProgressInv'
<1>1. /\ CallOK(c) /\ (call[c].alone => Progress(c))
      /\ call[c].pc \in {"httpCreate", "httpUpdate"} /\ call[c].pc \in HTTPPcs
  BY CallTypes DEF HTTPCreate, HTTPUpdate, At, HTTPPcs
<1>2. call[c].op \in {"create", "upsert"} /\ system.gateway /\ Keeping(c)
  BY <1>1 DEF CallOK, PcsOf, HTTPPcs, PolicyPcs, Keeping
<1>3. system' = system /\ faultsLeft' = faultsLeft
  BY DEF HTTPCreate, HTTPUpdate, boundVars
<1>4. CASE PutHTTP(c) /\ ~Refused(call[c].route)
  BY <1>1, <1>3, <1>4, HTTPIsPut
<1>5. CASE /\ HTTPDone(c, "failed") /\ UNCHANGED serverVars
           /\ At(c, "httpCreate") => Refused(call[c].route) \/ http # Absent
           /\ At(c, "httpUpdate") => http # call[c].seen
  <2>1. ASSUME call[c].alone, call[c].op = "upsert", NoFault(c), Accepted(call[c].route)  PROVE FALSE
    <3>1. /\ At(c, "httpCreate") => http = Absent
          /\ At(c, "httpUpdate") => call[c].seen = http
      BY <1>1, <2>1 DEF Progress, Repairing
    <3> QED  BY <1>1, <1>2, <1>5, <2>1, <3>1 DEF Accepted, At
  <2> QED  BY <1>1, <1>2, <1>3, <1>5, <2>1, HTTPRefuses
<1>6. At(c, "httpUpdate") => ~Refused(call[c].route)
  BY <1>1, <1>2 DEF CallOK, At
<1>7. HTTPCreate(c) => At(c, "httpCreate") /\ ~At(c, "httpUpdate")
  BY DEF HTTPCreate, At
<1>8. HTTPUpdate(c) => At(c, "httpUpdate") /\ ~At(c, "httpCreate")
  BY DEF HTTPUpdate, At
<1> QED  BY <1>4, <1>5, <1>6, <1>7, <1>8 DEF HTTPCreate, HTTPUpdate

LEMMA HTTPDeleteProgresses ==
  ASSUME ProgressInv, NEW c \in Callers, HTTPDelete(c)  PROVE ProgressInv'
<1>1. CallOK(c) /\ (call[c].alone => Progress(c)) /\ call[c].pc = "httpDelete" /\ ServerOK
  BY CallTypes DEF HTTPDelete, At, ProgressInv
<1>2. call[c].op = "delete" /\ system.gateway
  BY <1>1 DEF CallOK, PcsOf, HTTPPcs, PolicyPcs
<1>3. /\ system' = system /\ faultsLeft' = faultsLeft /\ policy' = policy /\ ingress' = ingress
      /\ http' = Absent /\ clock' \in Nat
  BY <1>1 DEF HTTPDelete, boundVars, serverVars, Tick, ServerOK
<1>4. ServerOK' /\ faultsLeft' <= faultsLeft
  BY <1>1, <1>3, ServerKeeps DEF ServerOK
<1>5. PICK outcome : Becomes(c, "policy", call[c].seen, call[c].made, outcome, call[c].ingress)
  BY CallTypes DEF HTTPDelete, Becomes, Fields
<1>6. ASSUME call[c].alone  PROVE Progress(c)'
  <2>1. call'[c].pc = "policy" /\ call'[c].op = "delete"
    BY <1>2, <1>5 DEF Becomes
  <2>2. Writing(c)' /\ Repairing(c)' /\ Reading(c)'
    BY <2>1 DEF Writing, Repairing, Reading, Keeping, At, PolicyPcs, IngressPcs
  <2>3. Deleting(c)'
    BY <1>3, <2>1 DEF Deleting, At
  <2> QED  BY <2>2, <2>3 DEF Progress
<1>7. "policy" \in PcsOf(call[c].op) /\ ~Keeping(c)
  BY <1>2 DEF PcsOf, Keeping
<1> QED
  BY <1>1, <1>2, <1>3, <1>4, <1>5, <1>6, <1>7, CallerSteps
  DEF HTTPPcs, PolicyPcs, IngressPcs, GatewayReads

LEMMA HTTPCacheProgresses ==
  ASSUME ProgressInv, NEW c \in Callers, HTTPCache(c)  PROVE ProgressInv'
<1>1. /\ CallOK(c) /\ (call[c].alone => Progress(c)) /\ call[c].pc = "httpCache" /\ ServerOK
      /\ call[c].pc \in HTTPPcs
  BY CallTypes DEF HTTPCache, At, ProgressInv, HTTPPcs
<1>2. call[c].op # "delete" /\ Keeping(c)
  BY <1>1 DEF CallOK, PcsOf, PolicyPcs, Keeping
<1>3. PICK route : route = call[c].route
  OBVIOUS
<1>4. /\ system' = system /\ clock' = clock /\ http' = http /\ policy' = policy /\ ingress' = ingress
      /\ faultsLeft' \in Nat /\ faultsLeft' <= faultsLeft
  BY <1>1 DEF HTTPCache, serverVars, ServerOK
<1>5. ServerOK'
  BY <1>1, <1>4, ServerKeeps DEF ServerOK
<1>6. ASSUME call[c].alone, cachedHTTP' \in {Absent, call[c].made}  PROVE HTTPKept(route)'
  <2>1. call[c].made = http /\ http # Absent /\ http.spec = ToHTTPRoute(route) /\ PolicyKept(route)
    BY <1>1, <1>2, <1>3, <1>6 DEF Progress, Writing, At
  <2>2. PolicyKept(route)'
    BY <1>4, <2>1 DEF PolicyKept, SpecOr, Managed
  <2> QED  BY <1>4, <1>6, <2>1, <2>2 DEF HTTPKept
<1>7. CASE cachedHTTP' = call[c].made /\ HTTPDone(c, "ok")
  BY <1>1, <1>2, <1>3, <1>4, <1>5, <1>6, <1>7, HTTPEnds
<1>8. CASE /\ faultsLeft' # faultsLeft /\ cachedHTTP' = cachedHTTP
           /\ HTTPDone(c, "failed") \/ (cachedHTTP = Absent /\ HTTPDone(c, "ok"))
  <2>1. PICK outcome : HTTPDone(c, outcome) /\ (outcome = "ok" => cachedHTTP = Absent)
    BY <1>8
  <2>2. call'[c].faults = call[c].faults
    BY <2>1, HTTPDoneBecomes DEF Becomes
  <2>3. ~NoFault(c)'
    BY <1>1, <1>4, <1>5, <1>8, <2>2, FaultsOnlyFall
  <2> QED  BY <1>1, <1>2, <1>3, <1>4, <1>5, <1>6, <1>8, <2>1, <2>3, HTTPEnds
<1>9. faultsLeft' = faultsLeft - 1 => faultsLeft' # faultsLeft
  BY <1>1 DEF ServerOK
<1> QED  BY <1>7, <1>8, <1>9 DEF HTTPCache

(***************************************************************************)
(* The steps with its policy.                                              *)
(***************************************************************************)
\* What PolicyStep decides on depends on the policy and what is asked for.
LEMMA PolicyStepStays ==
  ASSUME NEW c, policy' = policy, system' = system,
         call'[c].op = call[c].op, call'[c].route = call[c].route
  PROVE  PolicyStep(c)' = PolicyStep(c) /\ Wanted(c)' = Wanted(c)
BY DEF PolicyStep, Wanted, Managed

LEMMA PolicyGetProgresses ==
  ASSUME ProgressInv, NEW c \in Callers, PolicyGet(c)  PROVE ProgressInv'
<1>1. /\ CallOK(c) /\ (call[c].alone => Progress(c)) /\ call[c].pc = "policy" /\ ServerOK
      /\ call[c].pc \in PolicyPcs /\ call[c].pc \in HTTPPcs
  BY CallTypes DEF PolicyGet, At, ProgressInv, PolicyPcs, HTTPPcs
<1>2. call[c].op \in {"create", "upsert", "delete"} /\ system.gateway
  BY <1>1 DEF CallOK, PcsOf, PolicyPcs
<1>3. PICK route : route = call[c].route
  OBVIOUS
<1>4. UNCHANGED <<system, serverVars, faultsLeft>> /\ cachedHTTP' = cachedHTTP
  BY DEF PolicyGet, boundVars, cacheVars
<1>5. /\ ServerOK' /\ system' = system /\ faultsLeft' = faultsLeft /\ faultsLeft' <= faultsLeft
      /\ http' = http /\ policy' = policy
  BY <1>1, <1>4, ServerStays
<1>6. CASE (~system.policies \/ PolicyStep(c) = "none") /\ PolicyDone(c)
  <2>1. Keeping(c) => Wanted(c) = ToBackendTrafficPolicy(route, system.idle)
    BY <1>3 DEF Keeping, Wanted
  <2>2. Keeping(c) => PolicyKept(route)'
    BY <1>5, <1>6, <2>1 DEF PolicyStep, PolicyKept, SpecOr, Managed
  <2>3. call[c].op = "delete" => ~Managed(policy)'
    <3>1. call[c].op = "delete" => Wanted(c) = NoPolicy
      BY DEF Wanted
    <3>2. ~system.policies => policy = Absent
      BY <1>1 DEF ServerOK
    <3> QED  BY <1>5, <1>6, <3>1, <3>2 DEF PolicyStep, Managed
  <2> QED  BY <1>1, <1>3, <1>4, <1>5, <1>6, <2>2, <2>3, PolicyEnds
<1>7. CASE system.policies /\ PolicyStep(c) # "none" /\ GotoSeen(c, PolicyStep(c), policy)
  <2>1. PICK pc : pc = PolicyStep(c)
    OBVIOUS
  <2>2. Becomes(c, pc, policy, call[c].made, call[c].http, call[c].ingress)
    BY <1>7, <2>1, GotoSeenBecomes
  <2>3. /\ pc \in {"policyCreate", "policyUpdate", "policyDelete"} /\ pc \in PolicyPcs
        /\ pc \in {"policyCreate", "policyUpdate"} => Wanted(c) # NoPolicy
    BY <1>7, <2>1 DEF PolicyStep, PolicyPcs
  <2>4. pc \in PcsOf(call[c].op)
    <3>1. call[c].op = "delete" => pc = "policyDelete"
      BY <2>3 DEF Wanted
    <3> QED  BY <1>2, <2>3, <3>1 DEF PcsOf
  <2>5. Keeping(c) => ~Refused(call[c].route)
    BY <1>1 DEF CallOK
  <2>6. ASSUME call[c].alone  PROVE Progress(c)'
    <3>1. /\ call'[c].pc = pc /\ call'[c].op = call[c].op /\ call'[c].made = call[c].made
          /\ call'[c].ingress = call[c].ingress /\ call'[c].route = call[c].route
          /\ call'[c].seen = policy /\ call'[c].faults = call[c].faults
      BY <2>2 DEF Becomes
    <3>2. /\ Keeping(c)' = Keeping(c) /\ ToHTTPRoute(call[c].route)' = ToHTTPRoute(call[c].route)
          /\ PolicyStep(c)' = pc
      BY <1>5, <2>1, <3>1, PolicyStepStays DEF Keeping
    <3>3. Writing(c)'
      BY <1>1, <1>5, <2>3, <2>6, <3>1, <3>2 DEF Progress, Writing, At, PolicyPcs, IngressPcs
    <3>4. NoFault(c)' => NoFault(c)
      BY <1>1, <1>5, <3>1, FaultsOnlyFall
    <3>5. Deleting(c)'
      BY <1>1, <1>5, <2>3, <2>6, <3>1, <3>4 DEF Progress, Deleting, At
    <3>6. Repairing(c)' /\ Reading(c)'
      BY <1>2, <2>3, <3>1 DEF Repairing, Reading, At, IngressPcs
    <3> QED  BY <3>3, <3>5, <3>6 DEF Progress
  <2> QED
    BY <1>1, <1>2, <1>5, <1>7, <2>2, <2>3, <2>4, <2>5, <2>6, CallerSteps DEF HTTPPcs, IngressPcs
<1> QED  BY <1>6, <1>7 DEF PolicyGet

\* A write of the policy leaves the rest of the API server as it is.
LEMMA PolicyWritten ==
  ASSUME ProgressInv, NEW c \in Callers, Keeping(c), Wanted(c) # NoPolicy, ~Refused(call[c].route),
         system.policies, policy' = Stored(Wanted(c)), Tick, UNCHANGED <<system, http, ingress>>,
         faultsLeft' = faultsLeft, NEW route, route = call[c].route
  PROVE  ServerOK' /\ PolicyKept(route)'
<1>1. ServerOK /\ route \in Routes
  BY CallTypes DEF ProgressInv, CallOK
<1>2. Wanted(c) = ToBackendTrafficPolicy(route, system.idle)
  BY DEF Keeping, Wanted
<1>3. policy' # Absent /\ policy'.spec = Wanted(c)
  BY <1>1, StoredShape
<1>4. clock' \in Nat
  BY <1>1 DEF ServerOK, Tick
<1>5. /\ http # Absent => HTTPStored(http.spec)'
      /\ ingress # Absent => IngressStored(ingress.spec)'
  BY <1>1 DEF ServerOK, HTTPStored, IngressStored, IngressWith, StoredPathType, StoredPath,
              ConfiguredClass, Marked
<1>6. PolicyStored(policy.spec)'
  BY <1>1, <1>2, <1>3 DEF PolicyStored, Refused
<1>7. ServerOK'
  BY <1>1, <1>4, <1>5, <1>6 DEF ServerOK
<1>8. PolicyKept(route)'
  BY <1>2, <1>3 DEF PolicyKept, SpecOr
<1> QED  BY <1>7, <1>8

LEMMA PolicyWriteProgresses ==
  ASSUME ProgressInv, NEW c \in Callers, PolicyCreate(c) \/ PolicyUpdate(c)  PROVE ProgressInv'
<1>1. /\ CallOK(c) /\ (call[c].alone => Progress(c)) /\ ServerOK
      /\ call[c].pc \in {"policyCreate", "policyUpdate"} /\ call[c].pc \in PolicyPcs
  BY CallTypes DEF PolicyCreate, PolicyUpdate, At, ProgressInv, PolicyPcs
<1>2. Keeping(c) /\ Wanted(c) # NoPolicy /\ ~Refused(call[c].route) /\ system.policies
      /\ call[c].op # "delete"
  BY <1>1 DEF CallOK, PcsOf, PolicyPcs, Keeping
<1>3. PICK route : route = call[c].route
  OBVIOUS
<1>4. /\ system' = system /\ faultsLeft' = faultsLeft /\ http' = http /\ ingress' = ingress
      /\ cachedHTTP' = cachedHTTP /\ faultsLeft' <= faultsLeft
  BY <1>1 DEF PolicyCreate, PolicyUpdate, boundVars, cacheVars, ServerOK
<1>5. call[c].alone => call[c].seen = policy /\ call[c].pc = PolicyStep(c)
  BY <1>1 DEF Progress, Writing
<1>6. CASE policy' = Stored(Wanted(c)) /\ Tick /\ PolicyDone(c)
  <2>1. ServerOK' /\ PolicyKept(route)'
    BY <1>2, <1>3, <1>4, <1>6, PolicyWritten
  <2> QED  BY <1>1, <1>2, <1>3, <1>4, <1>6, <2>1, PolicyEnds
<1>7. CASE UNCHANGED <<policy, clock>> /\ ~call[c].alone /\ (PolicyDone(c) \/ PolicyFailed(c))
  <2>1. ServerOK'
    BY <1>1, <1>4, <1>7, ServerKeeps DEF ServerOK
  <2> QED  BY <1>1, <1>3, <1>4, <1>7, <2>1, PolicyEnds, PolicyFails
<1>8. CASE PolicyCreate(c)
  <2>1. policy # Absent => ~call[c].alone
    BY <1>2, <1>5, <1>8 DEF PolicyCreate, At, PolicyStep
  <2> QED  BY <1>6, <1>7, <1>8, <2>1 DEF PolicyCreate
<1>9. CASE PolicyUpdate(c)
  <2>1. policy = Absent \/ ~Current(c) => ~call[c].alone
    BY <1>2, <1>5, <1>9 DEF PolicyUpdate, At, PolicyStep, Current
  <2> QED  BY <1>6, <1>7, <1>9, <2>1 DEF PolicyUpdate
<1> QED  BY <1>8, <1>9

LEMMA PolicyDeleteProgresses ==
  ASSUME ProgressInv, NEW c \in Callers, PolicyDelete(c)  PROVE ProgressInv'
<1>1. /\ CallOK(c) /\ (call[c].alone => Progress(c)) /\ ServerOK
      /\ call[c].pc = "policyDelete" /\ call[c].pc \in PolicyPcs
  BY CallTypes DEF PolicyDelete, At, ProgressInv, PolicyPcs
<1>2. PICK route : route = call[c].route
  OBVIOUS
<1>3. /\ system' = system /\ faultsLeft' = faultsLeft /\ http' = http /\ ingress' = ingress
      /\ cachedHTTP' = cachedHTTP /\ policy' = Absent /\ clock' \in Nat
  BY <1>1 DEF PolicyDelete, boundVars, cacheVars, Tick, ServerOK
<1>4. ServerOK'
  BY <1>1, <1>3, ServerKeeps DEF ServerOK
<1>5. ASSUME call[c].alone, Keeping(c)  PROVE PolicyKept(route)'
  <2>1. PolicyStep(c) = "policyDelete"
    BY <1>1, <1>5 DEF Progress, Writing
  <2>2. Wanted(c) = NoPolicy
    BY <2>1 DEF PolicyStep
  <2>3. ToBackendTrafficPolicy(route, system.idle) = NoPolicy
    BY <1>2, <1>5, <2>2 DEF Wanted, Keeping
  <2> QED  BY <1>3, <2>3 DEF PolicyKept, SpecOr
<1>6. ~Managed(policy)' /\ PolicyDone(c)
  BY <1>3 DEF Managed, PolicyDelete
<1> QED  BY <1>1, <1>2, <1>3, <1>4, <1>5, <1>6, PolicyEnds

(***************************************************************************)
(* The steps of the half of the Ingress.                                   *)
(***************************************************************************)
\* The rest of what a half that was stored before has left is still there.
LEMMA OtherHalfStays ==
  ASSUME NEW route, UNCHANGED <<system, http, policy, cachedHTTP>>
  PROVE  HTTPKept(route)' = HTTPKept(route)
BY DEF HTTPKept, PolicyKept, SpecOr, Managed

LEMMA IngressGetProgresses ==
  ASSUME ProgressInv, NEW c \in Callers, IngressGet(c)  PROVE ProgressInv'
<1>1. /\ CallOK(c) /\ (call[c].alone => Progress(c)) /\ ServerOK
      /\ call[c].pc = "ingressGet" /\ call[c].pc \in IngressPcs
  BY CallTypes DEF IngressGet, At, ProgressInv, IngressPcs
<1>2. call[c].op = "upsert" /\ Keeping(c) /\ system.ingress
  BY <1>1 DEF CallOK, PcsOf, PolicyPcs, Keeping
<1>3. UNCHANGED <<system, serverVars, faultsLeft>> /\ cachedHTTP' = cachedHTTP
  BY DEF IngressGet, boundVars, cacheVars
<1>4. /\ ServerOK' /\ system' = system /\ faultsLeft' = faultsLeft /\ faultsLeft' <= faultsLeft
      /\ http' = http /\ policy' = policy /\ ingress' = ingress
  BY <1>1, <1>3, ServerStays
<1>5. ASSUME NEW pc \in {"ingressCreate", "ingressUpdate"}, NEW seen,
             Becomes(c, pc, seen, call[c].made, call[c].http, call[c].ingress),
             pc = "ingressCreate" => ingress = Absent,
             pc = "ingressUpdate" => seen = ingress
      PROVE  ProgressInv'
  <2>1. ASSUME call[c].alone  PROVE Progress(c)'
    <3>1. PICK route : route = call[c].route
      OBVIOUS
    <3>2. /\ call'[c].pc = pc /\ call'[c].op = "upsert" /\ call'[c].seen = seen /\ call'[c].http = call[c].http
          /\ call'[c].ingress = call[c].ingress /\ call'[c].route = route /\ call'[c].faults = call[c].faults
      BY <1>2, <1>5, <3>1 DEF Becomes
    <3>3. HTTPKept(route)' = HTTPKept(route) /\ Accepted(route)' = Accepted(route)
      BY <1>3, <1>4, OtherHalfStays
      DEF Accepted, Refused, IngressOf, Acceptable, ToIngress, ToIngressNetworkingV1
    <3>4. Writing(c)'
      BY <1>1, <1>2, <1>4, <1>5, <2>1, <3>1, <3>2, <3>3
      DEF Progress, Writing, At, Keeping, PolicyPcs, IngressPcs
    <3>5. NoFault(c)' => NoFault(c)
      BY <1>1, <1>4, <3>2, FaultsOnlyFall
    <3>6. Repairing(c)'
      BY <1>1, <1>2, <1>4, <1>5, <2>1, <3>1, <3>2, <3>3, <3>5 DEF Progress, Repairing, At, IngressPcs
    <3>7. Deleting(c)' /\ Reading(c)'
      BY <3>2 DEF Deleting, Reading
    <3> QED  BY <3>4, <3>6, <3>7 DEF Progress
  <2>2. pc \in PcsOf(call[c].op)
    BY <1>2 DEF PcsOf
  <2> QED
    BY <1>1, <1>2, <1>4, <1>5, <2>1, <2>2, CallerSteps DEF PolicyPcs, HTTPPcs, IngressPcs, GatewayReads
<1>6. CASE ingress = Absent
  <2>1. Becomes(c, "ingressCreate", call[c].seen, call[c].made, call[c].http, call[c].ingress)
    BY <1>6, GotoBecomes DEF IngressGet
  <2> QED  BY <1>5, <1>6, <2>1
<1>7. CASE ingress # Absent
  <2>1. Becomes(c, "ingressUpdate", ingress, call[c].made, call[c].http, call[c].ingress)
    BY <1>7, GotoSeenBecomes DEF IngressGet
  <2> QED  BY <1>5, <1>7, <2>1
<1> QED  BY <1>6, <1>7

\* The Ingress is written, or the API server does not accept it.
LEMMA IngressIsPut ==
  ASSUME ProgressInv, NEW c \in Callers, call[c].pc \in {"ingressCreate", "ingressUpdate"}, NEW spec,
         PutIngress(c, spec), IngressStored(spec), NEW route, route = call[c].route,
         SameButClass(spec, Configured(IngressOf(route))),
         Acceptable(spec) <=> Acceptable(IngressOf(route)),
         UNCHANGED <<system, http, policy, cachedHTTP, faultsLeft>>
  PROVE  ProgressInv'
<1>1. CallOK(c) /\ (call[c].alone => Progress(c)) /\ ServerOK /\ call[c].pc \in IngressPcs
  BY CallTypes DEF ProgressInv, IngressPcs
<1>2. call[c].op \in {"create", "upsert"} /\ Keeping(c) /\ system.ingress
  BY <1>1 DEF CallOK, PcsOf, PolicyPcs, Keeping
<1>3. faultsLeft' <= faultsLeft /\ system' = system
  BY <1>1 DEF ServerOK
<1>4. CASE ~Acceptable(spec)
  <2>1. IngressDone(c, "failed") /\ UNCHANGED <<ingress, clock>>
    BY <1>4 DEF PutIngress
  <2>2. ServerOK'
    BY <1>1, <2>1, ServerKeeps DEF ServerOK
  <2>3. ~Accepted(route)
    BY <1>2, <1>4 DEF Accepted
  <2> QED  BY <1>1, <1>2, <1>3, <2>1, <2>2, <2>3, IngressEnds
<1>5. CASE Acceptable(spec)
  <2>1. /\ ingress' = Stored(spec) /\ Tick
        /\ call' = [call EXCEPT ![c].pc = "ingressCache", ![c].made = ingress', ![c].seen = Absent]
    BY <1>5 DEF PutIngress
  <2>2. Becomes(c, "ingressCache", Absent, ingress', call[c].http, call[c].ingress)
    BY <2>1, CallTypes DEF Becomes, Fields
  <2>3. ingress' # Absent /\ ingress'.spec = spec
    BY <1>1, <2>1, StoredShape
  <2>4. ServerOK'
    <3>1. clock' \in Nat
      BY <1>1, <2>1 DEF ServerOK, Tick
    <3>2. IngressStored(ingress.spec)'
      BY <2>3 DEF IngressStored, IngressWith, StoredPathType, StoredPath, ConfiguredClass, Marked
    <3>3. /\ http # Absent => HTTPStored(http.spec)'
          /\ policy # Absent => PolicyStored(policy.spec)'
      BY <1>1 DEF ServerOK, HTTPStored, PolicyStored, Refused
    <3> QED  BY <1>1, <3>1, <3>2, <3>3 DEF ServerOK
  <2>5. ASSUME call[c].alone  PROVE Progress(c)'
    <3>1. /\ call'[c].pc = "ingressCache" /\ call'[c].op = call[c].op /\ call'[c].http = call[c].http
          /\ call'[c].made = ingress' /\ call'[c].route = route /\ call'[c].faults = call[c].faults
          /\ call'[c].ingress = call[c].ingress
      BY <2>2 DEF Becomes
    <3>2. PICK asked : asked = Configured(IngressOf(route))
      OBVIOUS
    <3>3. /\ Configured(IngressOf(call[c].route))' = asked
          /\ SameButClass(spec, asked)' /\ SameButClass(ingress.spec, asked)'
      <4>1. Configured(IngressOf(call[c].route))' = asked
        <5>1. call'[c].route = route /\ system' = system
          BY <1>3, <3>1
        <5>2. IngressOf(call[c].route)' = IngressOf(route)
          BY ONLY <5>1 DEF IngressOf, ToIngress, ToIngressNetworkingV1
        <5>3. Configured(IngressOf(call[c].route))' = Configured(IngressOf(route))
          BY ONLY <5>1, <5>2 DEF Configured
        <5> QED  BY ONLY <3>2, <5>3
      <4>2. SameButClass(spec, asked)
        BY <3>2
      <4> QED  BY <2>3, <4>1, <4>2 DEF SameButClass
    <3>4. /\ HTTPKept(route)' = HTTPKept(route) /\ Accepted(route)' = Accepted(route)
          /\ Keeping(c)' /\ call[c].ingress # "ok"
      <4>1. call[c].ingress # "ok"
        BY <1>1, <1>2, <2>5 DEF Progress, Writing, At
      <4> QED
        BY <1>2, <3>1, <4>1, OtherHalfStays
        DEF Accepted, Refused, IngressOf, Acceptable, ToIngress, ToIngressNetworkingV1, Keeping
    <3>5. Writing(c)'
      BY <1>1, <1>2, <2>3, <2>5, <3>1, <3>3, <3>4 DEF Progress, Writing, At, PolicyPcs, IngressPcs
    <3>6. NoFault(c)' => NoFault(c)
      BY <1>1, <1>3, <2>4, <3>1, FaultsOnlyFall
    <3>7. Repairing(c)'
      BY <1>1, <1>3, <2>5, <3>1, <3>4, <3>6 DEF Progress, Repairing, At, IngressPcs
    <3>8. Deleting(c)' /\ Reading(c)'
      BY <1>2, <3>1 DEF Deleting, Reading
    <3> QED  BY <3>5, <3>7, <3>8 DEF Progress
  <2>6. "ingressCache" \in PcsOf(call[c].op)
    BY <1>2 DEF PcsOf
  <2> QED
    BY <1>1, <1>2, <1>3, <2>2, <2>4, <2>5, <2>6, CallerSteps DEF PolicyPcs, HTTPPcs, IngressPcs, GatewayReads
<1> QED  BY <1>4, <1>5

LEMMA IngressWriteProgresses ==
  ASSUME ProgressInv, NEW c \in Callers, IngressCreate(c) \/ IngressUpdate(c)  PROVE ProgressInv'
<1>1. /\ CallOK(c) /\ (call[c].alone => Progress(c)) /\ ServerOK
      /\ call[c].pc \in {"ingressCreate", "ingressUpdate"} /\ call[c].pc \in IngressPcs
  BY CallTypes DEF IngressCreate, IngressUpdate, At, ProgressInv, IngressPcs
<1>2. call[c].op \in {"create", "upsert"} /\ Keeping(c) /\ system.ingress /\ call[c].route \in Routes
  BY <1>1 DEF CallOK, PcsOf, PolicyPcs, Keeping
<1>3. PICK route \in Routes : route = call[c].route
  BY <1>2
<1>4. UNCHANGED <<system, http, policy, cachedHTTP, faultsLeft>>
  BY DEF IngressCreate, IngressUpdate, boundVars, cacheVars
<1>5. CASE At(c, "ingressCreate") /\ PutIngress(c, Configured(IngressOf(route)))
  <2>1. PICK spec : spec = Configured(IngressOf(route))
    OBVIOUS
  <2>2. IngressStored(spec) /\ SameButClass(spec, Configured(IngressOf(route)))
        /\ (Acceptable(spec) <=> Acceptable(IngressOf(route)))
    BY <2>1, AskedShape
  <2> QED  BY <1>1, <1>3, <1>4, <1>5, <2>1, <2>2, IngressIsPut
<1>6. CASE At(c, "ingressUpdate") /\ PutIngress(c, Configured(Replacement(c)))
  <2>1. PICK spec : spec = Configured(Replacement(c))
    OBVIOUS
  <2>2. IngressStored(spec) /\ SameButClass(spec, Configured(IngressOf(route)))
        /\ (Acceptable(spec) <=> Acceptable(IngressOf(route)))
    BY <1>3, <2>1, ReplacementShape
  <2> QED  BY <1>1, <1>3, <1>4, <1>6, <2>1, <2>2, IngressIsPut
<1>7. CASE /\ IngressDone(c, "failed") /\ UNCHANGED <<ingress, clock>>
           /\ At(c, "ingressCreate") => ingress # Absent
           /\ At(c, "ingressUpdate") => ingress # call[c].seen
  <2>1. ServerOK' /\ faultsLeft' <= faultsLeft
    BY <1>1, <1>4, <1>7, ServerKeeps DEF ServerOK
  <2>2. call'[c].faults = call[c].faults
    BY <1>7, IngressDoneBecomes DEF Becomes
  <2>3. NoFault(c)' => NoFault(c)
    BY <1>1, <2>1, <2>2, FaultsOnlyFall
  <2>4. call[c].alone /\ At(c, "ingressUpdate") => call[c].seen = ingress
    BY <1>1 DEF Progress, Writing
  <2>5. call[c].alone /\ call[c].op = "upsert" /\ NoFault(c) /\ Accepted(call[c].route)
          => (At(c, "ingressCreate") => ingress = Absent)
    BY <1>1 DEF Progress, Repairing
  <2>6. ~(call[c].alone /\ call[c].op = "upsert" /\ NoFault(c)' /\ Accepted(route))
    BY <1>1, <1>3, <1>7, <2>3, <2>4, <2>5 DEF At
  <2> QED  BY <1>1, <1>2, <1>3, <1>4, <1>7, <2>1, <2>6, IngressEnds
<1>8. CASE IngressCreate(c)
  BY <1>3, <1>5, <1>7, <1>8 DEF IngressCreate, At
<1>9. CASE IngressUpdate(c)
  BY <1>3, <1>6, <1>7, <1>9 DEF IngressUpdate, At
<1> QED  BY <1>8, <1>9

LEMMA IngressCacheProgresses ==
  ASSUME ProgressInv, NEW c \in Callers, IngressCache(c)  PROVE ProgressInv'
<1>1. /\ CallOK(c) /\ (call[c].alone => Progress(c)) /\ call[c].pc = "ingressCache" /\ ServerOK
      /\ call[c].pc \in IngressPcs
  BY CallTypes DEF IngressCache, At, ProgressInv, IngressPcs
<1>2. call[c].op # "delete"
  BY <1>1 DEF CallOK, PcsOf, PolicyPcs
<1>3. PICK route : route = call[c].route
  OBVIOUS
<1>4. /\ system' = system /\ clock' = clock /\ http' = http /\ policy' = policy /\ ingress' = ingress
      /\ cachedHTTP' = cachedHTTP /\ faultsLeft' \in Nat /\ faultsLeft' <= faultsLeft
  BY <1>1 DEF IngressCache, serverVars, ServerOK
<1>5. ServerOK'
  BY <1>1, <1>4, ServerKeeps DEF ServerOK
<1>6. ASSUME call[c].alone, cachedIngress' \in {Absent, call[c].made}  PROVE IngressKept(route)'
  <2>1. PICK asked : asked = Configured(IngressOf(route))
    OBVIOUS
  <2>2. call[c].made = ingress /\ ingress # Absent /\ SameButClass(ingress.spec, asked)
    BY <1>1, <1>3, <1>6, <2>1 DEF Progress, Writing, At
  <2>3. Configured(IngressOf(route))' = asked /\ SameButClass(ingress.spec, asked)'
    BY <1>4, <2>1, <2>2 DEF Configured, IngressOf, SameButClass
  <2> QED  BY <1>4, <1>6, <2>2, <2>3 DEF IngressKept
<1>7. CASE cachedIngress' = call[c].made /\ IngressDone(c, "ok")
  BY <1>1, <1>2, <1>3, <1>4, <1>5, <1>6, <1>7, IngressEnds
<1>8. CASE /\ faultsLeft' # faultsLeft /\ cachedIngress' = cachedIngress
           /\ IngressDone(c, "failed") \/ (cachedIngress = Absent /\ IngressDone(c, "ok"))
  <2>1. PICK outcome : IngressDone(c, outcome) /\ (outcome = "ok" => cachedIngress = Absent)
    BY <1>8
  <2>2. call'[c].faults = call[c].faults
    BY <2>1, IngressDoneBecomes DEF Becomes
  <2>3. ~NoFault(c)'
    BY <1>1, <1>4, <1>5, <1>8, <2>2, FaultsOnlyFall
  <2> QED  BY <1>1, <1>2, <1>3, <1>4, <1>5, <1>6, <1>8, <2>1, <2>3, IngressEnds
<1>9. faultsLeft' = faultsLeft - 1 => faultsLeft' # faultsLeft
  BY <1>1 DEF ServerOK
<1> QED  BY <1>7, <1>8, <1>9 DEF IngressCache

LEMMA IngressDeleteProgresses ==
  ASSUME ProgressInv, NEW c \in Callers, IngressDelete(c)  PROVE ProgressInv'
<1>1. /\ CallOK(c) /\ call[c].pc = "ingressDelete" /\ ServerOK /\ call[c].pc \in IngressPcs
  BY CallTypes DEF IngressDelete, At, ProgressInv, IngressPcs
<1>2. call[c].op = "delete" /\ ~Keeping(c)
  BY <1>1 DEF CallOK, PcsOf, PolicyPcs, Keeping
<1>3. PICK route : route = call[c].route
  OBVIOUS
<1>4. /\ system' = system /\ faultsLeft' = faultsLeft /\ http' = http /\ policy' = policy
      /\ cachedHTTP' = cachedHTTP /\ ingress' = Absent /\ clock' \in Nat
  BY <1>1 DEF IngressDelete, boundVars, Tick, ServerOK
<1>5. ServerOK' /\ faultsLeft' <= faultsLeft
  BY <1>1, <1>4, ServerKeeps DEF ServerOK
<1>6. PICK outcome : IngressDone(c, outcome)
  BY DEF IngressDelete
<1> QED  BY <1>1, <1>2, <1>3, <1>4, <1>5, <1>6, IngressEnds

(***************************************************************************)
(* The steps of the reads.                                                 *)
(***************************************************************************)
ReadPcs == GatewayReads \cup {"getIngress"}

LEMMA Reads ==
  ASSUME ProgressInv, NEW c \in Callers, call[c].pc \in ReadPcs
  PROVE  /\ CallOK(c) /\ (call[c].alone => Progress(c)) /\ ServerOK
         /\ call[c].op \in {"get", "list"} /\ ~Keeping(c)
         /\ call[c].pc \in GatewayReads => system.gateway
         /\ call[c].pc = "getIngress" => ~system.gateway
         /\ call[c].pc # "idle"
<1>1. CallOK(c) /\ (call[c].alone => Progress(c)) /\ ServerOK
  BY CallTypes DEF ProgressInv
<1>2. call[c].op \in {"get", "list"}
  BY <1>1 DEF CallOK, PcsOf, PolicyPcs, ReadPcs, GatewayReads
<1>3. /\ call[c].pc \in GatewayReads => system.gateway
      /\ call[c].pc = "getIngress" => ~system.gateway
  BY <1>1 DEF CallOK
<1> QED  BY <1>1, <1>2, <1>3 DEF Keeping, ReadPcs, GatewayReads

LEMMA ReadEnds ==
  ASSUME ProgressInv, NEW c \in Callers, call[c].pc \in ReadPcs, NEW outcome, NEW route,
         Read(c, outcome, route), UNCHANGED <<system, serverVars>>, faultsLeft' \in Nat,
         faultsLeft' <= faultsLeft,
         call[c].alone /\ NoFault(c) /\ faultsLeft' = faultsLeft /\ route # NoRoute => Stands(route)
  PROVE  ProgressInv'
<1>1. call[c].op \in {"get", "list"} /\ ~Keeping(c) /\ ServerOK /\ call[c].pc # "idle"
  BY Reads
<1>2. Becomes(c, "done", Absent, route, outcome, call[c].ingress)
  BY ReadBecomes
<1>3. system' = system /\ clock' = clock /\ http' = http /\ policy' = policy /\ ingress' = ingress
  BY DEF serverVars
<1>4. ServerOK'
  BY <1>1, <1>3, ServerKeeps DEF ServerOK
<1>5. ASSUME call[c].alone  PROVE Progress(c)'
  <2>1. /\ call'[c].pc = "done" /\ call'[c].op = call[c].op /\ call'[c].made = route
        /\ call'[c].faults = call[c].faults
    BY <1>2 DEF Becomes
  <2>2. NoFault(c)' => NoFault(c) /\ faultsLeft' = faultsLeft
    BY <1>1, <1>4, <2>1, FaultsOnlyFall
  <2>3. Stands(route) => Stands(route)'
    BY <1>3 DEF Stands, SpecOr
  <2>4. Reading(c)'
    BY <1>5, <2>1, <2>2, <2>3 DEF Reading, At
  <2>5. Writing(c)' /\ Repairing(c)' /\ Deleting(c)'
    BY <1>1, <2>1 DEF Writing, Repairing, Deleting, Keeping, At, PolicyPcs
  <2> QED  BY <2>4, <2>5 DEF Progress
<1>6. "done" \in PcsOf(call[c].op)
  BY <1>1 DEF PcsOf
<1> QED
  BY <1>1, <1>2, <1>3, <1>4, <1>5, <1>6, CallerSteps DEF PolicyPcs, HTTPPcs, IngressPcs, GatewayReads

\* Between its two requests.
LEMMA ReadGoesOn ==
  ASSUME ProgressInv, NEW c \in Callers, call[c].pc \in GatewayReads, NEW pc, NEW object,
         \/ call[c].op = "get" /\ pc = "getPolicy"
         \/ call[c].op = "list" /\ pc = "listHTTP",
         GotoSeen(c, pc, object), UNCHANGED <<system, serverVars>>, faultsLeft' \in Nat,
         faultsLeft' <= faultsLeft,
         faultsLeft' = faultsLeft =>
           /\ pc = "getPolicy" => object = http /\ http # Absent
           /\ pc = "listHTTP" => object = policy
  PROVE  ProgressInv'
<1>1. ~Keeping(c) /\ ServerOK /\ call[c].pc # "idle" /\ system.gateway
  BY Reads DEF ReadPcs
<1>2. Becomes(c, pc, object, call[c].made, call[c].http, call[c].ingress)
  BY GotoSeenBecomes
<1>3. system' = system /\ clock' = clock /\ http' = http /\ policy' = policy /\ ingress' = ingress
  BY DEF serverVars
<1>4. ServerOK'
  BY <1>1, <1>3, ServerKeeps DEF ServerOK
<1>5. ASSUME call[c].alone  PROVE Progress(c)'
  <2>1. /\ call'[c].pc = pc /\ call'[c].op = call[c].op /\ call'[c].seen = object
        /\ call'[c].faults = call[c].faults
    BY <1>2 DEF Becomes
  <2>2. NoFault(c)' => faultsLeft' = faultsLeft
    BY <1>1, <1>4, <2>1, FaultsOnlyFall
  <2>3. Reading(c)'
    BY <1>3, <2>1, <2>2 DEF Reading, At
  <2>4. Writing(c)' /\ Repairing(c)' /\ Deleting(c)'
    BY <1>1, <2>1 DEF Writing, Repairing, Deleting, Keeping, At, PolicyPcs
  <2> QED  BY <2>3, <2>4 DEF Progress
<1>6. pc \in PcsOf(call[c].op)
  BY DEF PcsOf
<1> QED
  BY <1>1, <1>2, <1>3, <1>4, <1>5, <1>6, CallerSteps DEF PolicyPcs, HTTPPcs, IngressPcs, GatewayReads

LEMMA ReadsProgress ==
  ASSUME ProgressInv, NEW c \in Callers,
         GetHTTP(c) \/ GetPolicy(c) \/ ListPolicies(c) \/ ListHTTP(c) \/ GetIngress(c)
  PROVE  ProgressInv'
<1>1. call[c].pc \in ReadPcs /\ CallOK(c) /\ (call[c].alone => Progress(c)) /\ ServerOK
  BY CallTypes DEF GetHTTP, GetPolicy, ListPolicies, ListHTTP, GetIngress, At, ReadPcs, GatewayReads,
     ProgressInv
<1>2. /\ call[c].op \in {"get", "list"} /\ call[c].pc \in PcsOf(call[c].op)
      /\ call[c].pc \in GatewayReads => system.gateway
      /\ call[c].pc = "getIngress" => ~system.gateway
  BY <1>1, Reads DEF CallOK
<1>3. /\ UNCHANGED <<system, serverVars>> /\ faultsLeft' = faultsLeft /\ faultsLeft' \in Nat
      /\ faultsLeft' <= faultsLeft
  BY <1>1 DEF GetHTTP, GetPolicy, ListPolicies, ListHTTP, GetIngress, boundVars, ServerOK
<1>4. CASE GetHTTP(c)
  <2>1. call[c].op = "get" /\ call[c].pc \in GatewayReads
    BY <1>2, <1>4 DEF GetHTTP, At, PcsOf, GatewayReads
  <2>2. CASE http = Absent
    BY <1>1, <1>3, <1>4, <2>2, ReadEnds DEF GetHTTP
  <2>3. CASE http # Absent
    BY <1>3, <1>4, <2>1, <2>3, ReadGoesOn DEF GetHTTP
  <2> QED  BY <2>2, <2>3
<1>5. CASE GetPolicy(c)
  <2>1. PICK route : route = RouteFromHTTPRouteWithPolicy(call[c].seen.spec, SpecOr(policy, NoPolicy))
    OBVIOUS
  <2>2. call[c].alone /\ NoFault(c) => Stands(route)
    BY <1>1, <1>2, <1>5, <2>1 DEF GetPolicy, At, GatewayReads, Progress, Reading, Stands
  <2> QED  BY <1>1, <1>3, <1>5, <2>1, <2>2, ReadEnds DEF GetPolicy
<1>6. CASE ListPolicies(c)
  <2>1. call[c].op = "list" /\ call[c].pc \in GatewayReads
    BY <1>2, <1>6 DEF ListPolicies, At, PcsOf, GatewayReads
  <2> QED  BY <1>3, <1>6, <2>1, ReadGoesOn DEF ListPolicies
<1>7. CASE ListHTTP(c)
  <2>1. PICK route : route = IF http = Absent THEN NoRoute
                             ELSE RouteFromHTTPRouteWithPolicy(http.spec, SpecOr(call[c].seen, NoPolicy))
    OBVIOUS
  <2>2. call[c].alone /\ NoFault(c) /\ route # NoRoute => Stands(route)
    BY <1>1, <1>2, <1>7, <2>1 DEF ListHTTP, At, GatewayReads, Progress, Reading, Stands
  <2>3. Read(c, "ok", route)
    BY <1>7, <2>1 DEF ListHTTP
  <2> QED  BY <1>1, <1>3, <2>2, <2>3, ReadEnds
<1>8. CASE GetIngress(c)
  <2>1. PICK route : route = IF ingress = Absent THEN NoRoute ELSE RouteFromIngress(ingress.spec)
    OBVIOUS
  <2>2. route # NoRoute => Stands(route)
    BY <1>2, <1>8, <2>1 DEF GetIngress, At, Stands
  <2> QED  BY <1>1, <1>3, <1>8, <2>1, <2>2, ReadEnds DEF GetIngress
<1> QED  BY <1>4, <1>5, <1>6, <1>7, <1>8

(***************************************************************************)
(* Faults, and the beginning and end of calls.                             *)
(***************************************************************************)
LEMMA FaultProgresses ==
  ASSUME ProgressInv, NEW c \in Callers, Requesting(c), RequestFails(c)  PROVE ProgressInv'
<1>1. CallOK(c) /\ ServerOK
  BY CallTypes DEF ProgressInv
<1>2. /\ faultsLeft' \in Nat /\ faultsLeft' <= faultsLeft /\ faultsLeft' # faultsLeft
      /\ UNCHANGED <<system, serverVars>> /\ cachedHTTP' = cachedHTTP
  BY <1>1 DEF RequestFails, cacheVars, ServerOK
<1>3. /\ system' = system /\ clock' = clock /\ http' = http /\ policy' = policy /\ ingress' = ingress
  BY <1>2 DEF serverVars
<1>4. ServerOK'
  BY <1>1, <1>2, <1>3, ServerKeeps DEF ServerOK
<1>5. call[c].pc # "idle"
  BY DEF Requesting
<1>6. PICK route : route = call[c].route
  OBVIOUS
<1>7. CASE call[c].pc \in {"httpGet", "httpCreate", "httpUpdate", "httpDelete"} /\ HTTPDone(c, "failed")
  <2>1. call'[c].faults = call[c].faults /\ call[c].pc \in HTTPPcs
    BY <1>7, HTTPDoneBecomes DEF Becomes, HTTPPcs
  <2>2. ~NoFault(c)'
    BY <1>2, <1>4, <1>5, <2>1, FaultsOnlyFall
  <2> QED  BY <1>2, <1>3, <1>4, <1>6, <1>7, <2>1, <2>2, HTTPEnds
<1>8. CASE call[c].pc \in PolicyPcs /\ PolicyFailed(c)
  BY <1>2, <1>3, <1>4, <1>8, PolicyFails
<1>9. CASE /\ call[c].pc \in {"ingressGet", "ingressCreate", "ingressUpdate", "ingressDelete"}
           /\ IngressDone(c, "failed")
  <2>1. call'[c].faults = call[c].faults /\ call[c].pc \in IngressPcs
    BY <1>9, IngressDoneBecomes DEF Becomes, IngressPcs
  <2>2. ~NoFault(c)'
    BY <1>2, <1>4, <1>5, <2>1, FaultsOnlyFall
  <2> QED  BY <1>2, <1>3, <1>4, <1>6, <1>9, <2>1, <2>2, IngressEnds
<1>10. CASE At(c, "getHTTP") /\ GotoSeen(c, "getPolicy", cachedHTTP)
  <2>1. call[c].op = "get" /\ call[c].pc \in GatewayReads
    BY <1>1, <1>10 DEF CallOK, PcsOf, PolicyPcs, At, GatewayReads
  <2> QED  BY <1>2, <1>10, <2>1, ReadGoesOn
<1>11. CASE call[c].pc \in ReadPcs /\ \E outcome, read : Read(c, outcome, read)
  <2>1. PICK outcome, read : Read(c, outcome, read)
    BY <1>11
  <2> QED  BY <1>2, <1>11, <2>1, ReadEnds
<1>12. \/ call[c].pc \in {"httpGet", "httpCreate", "httpUpdate", "httpDelete"}
       \/ call[c].pc \in PolicyPcs
       \/ call[c].pc \in {"ingressGet", "ingressCreate", "ingressUpdate", "ingressDelete"}
       \/ call[c].pc \in ReadPcs
  BY <1>1 DEF CallOK, PcsOf, PolicyPcs, ReadPcs, GatewayReads, Requesting
<1>13. /\ call[c].pc \in {"httpGet", "httpCreate", "httpUpdate", "httpDelete"} => HTTPDone(c, "failed")
       /\ call[c].pc \in PolicyPcs => PolicyFailed(c)
       /\ call[c].pc \in {"ingressGet", "ingressCreate", "ingressUpdate", "ingressDelete"}
            => IngressDone(c, "failed")
       /\ call[c].pc \in ReadPcs =>
            \/ At(c, "getHTTP") /\ GotoSeen(c, "getPolicy", cachedHTTP)
            \/ \E outcome, read : Read(c, outcome, read)
  BY DEF RequestFails, PolicyPcs, ReadPcs, GatewayReads, At
<1> QED  BY <1>7, <1>8, <1>9, <1>10, <1>11, <1>12, <1>13

LEMMA IdleIsFine ==
  ASSUME NEW c, call'[c] = Idle  PROVE CallOK(c)' /\ Progress(c)' /\ At(c, "idle")'
<1>1. /\ DOMAIN call'[c] = Fields /\ call'[c].op = "none" /\ call'[c].pc = "idle"
      /\ call'[c].faults = 0
  BY DEF Idle, Fields
<1>2. call'[c].alone \in BOOLEAN
  BY DEF Idle
<1>3. CallOK(c)'
  BY <1>1, <1>2 DEF CallOK, PcsOf, Keeping, PolicyPcs, HTTPPcs, IngressPcs, GatewayReads
<1>4. Progress(c)'
  BY <1>1 DEF Progress, Writing, Repairing, Deleting, Reading, Keeping, At, PolicyPcs, IngressPcs
<1> QED  BY <1>1, <1>3, <1>4 DEF At

\* A call that another one disturbs keeps all but being alone.
LEMMA Disturbed ==
  ASSUME ProgressInv, NEW d \in Callers, call'[d] = [call[d] EXCEPT !.alone = FALSE],
         system' = system, faultsLeft' \in Nat, faultsLeft' <= faultsLeft
  PROVE  CallOK(d)' /\ ~call'[d].alone
<1>1. CallOK(d) /\ faultsLeft \in Nat
  BY DEF ProgressInv, ServerOK
<1>2. /\ call'[d].pc = call[d].pc /\ call'[d].op = call[d].op /\ call'[d].route = call[d].route
      /\ call'[d].alone = FALSE /\ call'[d].faults = call[d].faults /\ DOMAIN call'[d] = Fields
  BY <1>1 DEF CallOK, Fields
<1>3. Wanted(d)' = Wanted(d) /\ Refused(call[d].route)' = Refused(call[d].route) /\ Keeping(d)' = Keeping(d)
  BY <1>2 DEF Wanted, Refused, Keeping
<1>4. call'[d].op # "none" => faultsLeft' <= call'[d].faults
  BY <1>1, <1>2 DEF CallOK
<1> QED  BY <1>1, <1>2, <1>3, <1>4 DEF CallOK

LEMMA StartProgresses ==
  ASSUME ProgressInv, NEW c \in Callers, NEW op \in Operations, NEW route, Start(c, op, route),
         op \in {"create", "upsert"} => route \in Routes
  PROVE  ProgressInv'
<1>1. UNCHANGED <<system, serverVars, faultsLeft>> /\ faultsLeft \in Nat
  BY DEF Start, ProgressInv, ServerOK
<1>2. ServerOK' /\ system' = system /\ faultsLeft' = faultsLeft /\ faultsLeft' <= faultsLeft
  BY <1>1, ServerStays DEF ProgressInv
<1>3. op \in {"create", "upsert", "delete", "get", "list"}
  BY RouteOpsAssumption
<1>4. /\ DOMAIN call' = Callers /\ DOMAIN call'[c] = Fields
      /\ call'[c].op = op /\ call'[c].route = route /\ call'[c].pc = Entry(op)
      /\ call'[c].faults = faultsLeft /\ call'[c].http = "none" /\ call'[c].ingress = "none"
      /\ call'[c].alone \in BOOLEAN
      /\ call'[c].alone => \A e \in Callers \ {c} : At(e, "idle")
  <2>1. PICK alone \in BOOLEAN : alone <=> \A e \in Callers \ {c} : At(e, "idle")
    OBVIOUS
  <2>2. alone = (\A e \in Callers \ {c} : At(e, "idle"))
    BY <2>1
  <2>3. PICK pc : pc = Entry(op)
    OBVIOUS
  <2>4. call'[c] = [Idle EXCEPT !.op = op, !.route = route, !.pc = pc, !.faults = faultsLeft,
                                !.alone = alone]
    BY <2>2, <2>3 DEF Start
  <2>5. DOMAIN call' = Callers
    BY DEF Start
  <2>6. call'[c].alone = alone
    BY <2>4 DEF Idle
  <2>7. call'[c].alone \in BOOLEAN /\ (call'[c].alone => \A e \in Callers \ {c} : At(e, "idle"))
    BY <2>1, <2>6
  <2>8. DOMAIN call'[c] = Fields
    BY <2>4 DEF Idle, Fields
  <2>9. call'[c].op = op /\ call'[c].route = route /\ call'[c].pc = pc /\ call'[c].faults = faultsLeft
    BY <2>4 DEF Idle
  <2>10. call'[c].http = "none" /\ call'[c].ingress = "none"
    BY <2>4 DEF Idle
  <2> QED  BY <2>3, <2>5, <2>7, <2>8, <2>9, <2>10
<1>5. \A d \in Callers \ {c} :
        IF At(d, "idle") THEN call'[d] = Idle ELSE call'[d] = [call[d] EXCEPT !.alone = FALSE]
  BY DEF Start
<1>6. /\ Entry(op) \in PcsOf(op) \ (PolicyPcs \cup {"httpUpdate", "httpCache", "ingressUpdate", "ingressCache",
                                                    "getPolicy", "listHTTP", "idle"})
      /\ Entry(op) \in HTTPPcs \cup GatewayReads => system.gateway
      /\ Entry(op) \in IngressPcs => system.ingress /\ ~system.gateway
      /\ Entry(op) = "getIngress" => ~system.gateway
      /\ Entry(op) = "done" => ~system.gateway /\ ~system.ingress
      /\ op = "upsert" => Entry(op) \notin {"httpCreate", "ingressCreate"}
      /\ op \in {"get", "list"} => Entry(op) # "done"
  BY <1>3 DEF Entry, FirstHTTP, FirstIngress, PcsOf, PolicyPcs, HTTPPcs, IngressPcs, GatewayReads
<1>7. CallOK(c)'
  BY <1>1, <1>2, <1>3, <1>4, <1>6 DEF CallOK, Keeping, PolicyPcs
<1>8. Progress(c)'
  <2>1. Writing(c)'
    BY <1>4, <1>6 DEF Writing, Keeping, At, PolicyPcs
  <2>2. Repairing(c)' /\ Deleting(c)' /\ Reading(c)'
    BY <1>2, <1>4, <1>6 DEF Repairing, Deleting, Reading, At, IngressPcs, PolicyPcs
  <2> QED  BY <2>1, <2>2 DEF Progress
<1>9. ASSUME NEW d \in Callers \ {c}  PROVE CallOK(d)' /\ (call'[d].alone => Progress(d)')
  <2>1. CASE At(d, "idle")
    BY <1>5, <2>1, IdleIsFine
  <2>2. CASE ~At(d, "idle")
    BY <1>1, <1>2, <1>5, <2>2, Disturbed
  <2> QED  BY <2>1, <2>2
<1>10. Solo'
  <2>1. ASSUME NEW d \in Callers \ {c}, At(d, "idle")  PROVE At(d, "idle")'
    BY <1>5, <2>1, IdleIsFine
  <2>2. ASSUME NEW d \in Callers \ {c}, ~At(d, "idle")  PROVE ~call'[d].alone
    BY <1>1, <1>2, <1>5, <2>2, Disturbed
  <2> QED  BY <1>4, <2>1, <2>2 DEF Solo
<1> QED  BY <1>2, <1>4, <1>7, <1>8, <1>9, <1>10 DEF ProgressInv

LEMMA ReturnProgresses ==
  ASSUME ProgressInv, NEW c \in Callers, Return(c)  PROVE ProgressInv'
<1>1. UNCHANGED <<system, serverVars, faultsLeft>>
  BY DEF Return, boundVars
<1>2. ServerOK' /\ system' = system /\ faultsLeft' = faultsLeft
      /\ http' = http /\ policy' = policy /\ ingress' = ingress
  BY <1>1, ServerStays DEF ProgressInv
<1>3. DOMAIN call' = Callers /\ call'[c] = Idle /\ \A d \in Callers \ {c} : call'[d] = call[d]
  BY DEF Return, ProgressInv
<1>4. CallOK(c)' /\ Progress(c)' /\ At(c, "idle")'
  BY <1>3, IdleIsFine
<1>5. ASSUME NEW d \in Callers \ {c}  PROVE CallOK(d)' /\ (call'[d].alone => Progress(d)')
  <2>1. CallOK(d) /\ call'[d] = call[d]
    BY <1>3 DEF ProgressInv
  <2>2. CallOK(d)'
    BY <1>2, <2>1 DEF CallOK, Keeping, Wanted, Refused
  <2>3. ASSUME call[d].alone  PROVE Progress(d)'
    <3>1. call[d].pc = "idle"
      BY <2>3 DEF ProgressInv, Solo, At, Return
    <3>2. call'[d].op = "none" /\ call'[d].pc = "idle"
      BY <2>1, <3>1 DEF CallOK, PcsOf, PolicyPcs
    <3> QED  BY <3>2 DEF Progress, Writing, Repairing, Deleting, Reading, Keeping, At, PolicyPcs, IngressPcs
  <2> QED  BY <2>1, <2>2, <2>3
<1>6. Solo'
  BY <1>3, <1>4 DEF ProgressInv, Solo, At
<1> QED  BY <1>2, <1>3, <1>4, <1>5, <1>6 DEF ProgressInv

\* The other owner disturbs every call that is under way.
LEMMA ForeignProgresses ==
  ASSUME ProgressInv, NEW object, object = Absent \/ object = Stored(Foreign), ForeignStep(object)
  PROVE  ProgressInv'
<1>1. ServerOK
  BY DEF ProgressInv
<1>2. /\ system' = system /\ http' = http /\ ingress' = ingress /\ policy' = object /\ system.policies
      /\ faultsLeft' \in Nat /\ faultsLeft' <= faultsLeft /\ clock' \in Nat
  BY <1>1 DEF ForeignStep, Tick, ServerOK
<1>3. ServerOK'
  <2>1. CASE object = Absent
    BY <1>1, <1>2, <2>1, ServerKeeps DEF ServerOK
  <2>2. CASE object = Stored(Foreign)
    <3>1. object # Absent /\ object.spec = Foreign
      BY <1>1, <2>2, StoredShape
    <3>2. PolicyStored(policy.spec)'
      BY <1>2, <3>1 DEF PolicyStored, Foreign
    <3>3. /\ http # Absent => HTTPStored(http.spec)'
          /\ ingress # Absent => IngressStored(ingress.spec)'
      BY <1>1, <1>2 DEF ServerOK, HTTPStored, IngressStored, IngressWith, StoredPathType, StoredPath,
                        ConfiguredClass, Marked
    <3> QED  BY <1>1, <1>2, <3>2, <3>3 DEF ServerOK
  <2> QED  BY <2>1, <2>2
<1>4. DOMAIN call' = Callers /\ \A d \in Callers : call'[d] = [call[d] EXCEPT !.alone = At(d, "idle")]
  BY DEF ForeignStep
<1>5. ASSUME NEW d \in Callers  PROVE CallOK(d)' /\ (call'[d].alone => Progress(d)' /\ At(d, "idle")')
  <2>1. CASE ~At(d, "idle")
    <3>1. call'[d] = [call[d] EXCEPT !.alone = FALSE]
      BY <1>4, <2>1
    <3> QED  BY <1>2, <3>1, Disturbed
  <2>2. CASE At(d, "idle")
    <3>1. CallOK(d) /\ call[d].pc = "idle" /\ call[d].op = "none"
      BY <2>2 DEF ProgressInv, CallOK, PcsOf, PolicyPcs, At
    <3>2. /\ call'[d].pc = "idle" /\ call'[d].op = "none" /\ call'[d].faults = call[d].faults
          /\ DOMAIN call'[d] = Fields /\ call'[d].alone \in BOOLEAN
      <4>1. PICK alone \in BOOLEAN : alone = At(d, "idle")
        BY DEF At
      <4>2. call'[d] = [call[d] EXCEPT !.alone = alone]
        BY <1>4, <4>1
      <4> QED  BY <3>1, <4>2 DEF CallOK, Fields
    <3>3. CallOK(d)'
      BY <3>1, <3>2 DEF CallOK, PcsOf, Keeping, PolicyPcs, HTTPPcs, IngressPcs, GatewayReads
    <3>4. Progress(d)'
      BY <3>2 DEF Progress, Writing, Repairing, Deleting, Reading, Keeping, At, PolicyPcs, IngressPcs
    <3> QED  BY <3>2, <3>3, <3>4 DEF At
  <2> QED  BY <2>1, <2>2
<1>6. Solo'
  BY <1>5 DEF Solo
<1> QED  BY <1>3, <1>4, <1>5, <1>6 DEF ProgressInv

LEMMA OthersProgress ==
  ASSUME ProgressInv, UNCHANGED vars \/ Watch  PROVE ProgressInv'
<1>1. UNCHANGED <<system, http, policy, ingress, clock, cacheVars, call, boundVars>>
  BY DEF vars, serverVars, Watch
<1>2. UNCHANGED <<cachedHTTP, cachedIngress, faultsLeft>>
  BY <1>1 DEF cacheVars, boundVars
<1>3. ServerOK'
  BY <1>1, <1>2, ServerKeeps DEF ProgressInv, ServerOK
<1>4. Solo'
  BY <1>1 DEF ProgressInv, Solo, At
<1>5. ASSUME NEW c \in Callers  PROVE CallOK(c)' /\ (call'[c].alone => Progress(c)')
  <2>1. CallOK(c)'
    BY <1>1, <1>2 DEF ProgressInv, CallOK, Keeping, Wanted, Refused
  <2>2. ASSUME Progress(c)  PROVE Progress(c)'
    <3>1. Writing(c)'
      BY <1>1, <1>2, <2>2 DEF Progress, Writing, Keeping, At, PolicyStep, Managed, Wanted, HTTPKept,
        PolicyKept, IngressKept, SameButClass, Configured, IngressOf, SpecOr
    <3>2. Repairing(c)'
      BY <1>1, <1>2, <2>2 DEF Progress, Repairing, At, NoFault, Accepted, Refused, Acceptable, IngressOf
    <3>3. Deleting(c)'
      BY <1>1, <1>2, <2>2 DEF Progress, Deleting, At, NoFault, Managed
    <3>4. Reading(c)'
      BY <1>1, <1>2, <2>2 DEF Progress, Reading, At, NoFault, Stands, SpecOr
    <3> QED  BY <3>1, <3>2, <3>3, <3>4 DEF Progress
  <2> QED  BY <1>1, <2>1, <2>2 DEF ProgressInv
<1> QED  BY <1>1, <1>3, <1>4, <1>5 DEF ProgressInv

LEMMA InitProgresses ==
  ASSUME Init  PROVE ProgressInv
<1>1. ServerOK
  BY RouteOpsAssumption DEF Init, ServerOK
<1>2. DOMAIN call = Callers /\ \A c \in Callers : call[c] = Idle
  BY DEF Init
<1>3. ASSUME NEW c \in Callers  PROVE CallOK(c) /\ Progress(c) /\ At(c, "idle")
  <2>1. DOMAIN call[c] = Fields /\ call[c].op = "none" /\ call[c].pc = "idle" /\ call[c].faults = 0
    BY <1>2 DEF Idle, Fields
  <2>2. call[c].alone \in BOOLEAN
    <3>1. call[c] = Idle
      BY <1>2
    <3>2. Idle.alone \in BOOLEAN
      BY DEF Idle
    <3> QED  BY <3>1, <3>2
  <2>3. CallOK(c)
    BY <2>1, <2>2 DEF CallOK, PcsOf, Keeping, PolicyPcs, HTTPPcs, IngressPcs, GatewayReads
  <2>4. Progress(c)
    BY <2>1 DEF Progress, Writing, Repairing, Deleting, Reading, Keeping, At, PolicyPcs, IngressPcs
  <2> QED  BY <2>1, <2>3, <2>4 DEF At
<1> QED  BY <1>1, <1>2, <1>3 DEF ProgressInv, Solo

LEMMA NextProgresses ==
  ASSUME ProgressInv, [Next]_vars  PROVE ProgressInv'
<1>1. CASE UNCHANGED vars \/ Watch
  BY <1>1, OthersProgress
<1>2. CASE ForeignPut \/ ForeignDelete
  BY <1>2, ForeignProgresses DEF ForeignPut, ForeignDelete
<1>3. ASSUME NEW c \in Callers, NEW op \in Operations,
             NEW route \in IF op \in {"create", "upsert"} THEN Routes ELSE {NoRoute}, Start(c, op, route)
      PROVE  ProgressInv'
  BY <1>3, StartProgresses
<1>4. ASSUME NEW c \in Callers,
             \/ Return(c)
             \/ HTTPGet(c) \/ HTTPCreate(c) \/ HTTPUpdate(c) \/ HTTPDelete(c) \/ HTTPCache(c)
             \/ PolicyGet(c) \/ PolicyCreate(c) \/ PolicyUpdate(c) \/ PolicyDelete(c)
      PROVE  ProgressInv'
  BY <1>4, ReturnProgresses, HTTPGetProgresses, HTTPWriteProgresses, HTTPDeleteProgresses,
     HTTPCacheProgresses, PolicyGetProgresses, PolicyWriteProgresses, PolicyDeleteProgresses
<1>5. ASSUME NEW c \in Callers,
             \/ IngressGet(c) \/ IngressCreate(c) \/ IngressUpdate(c) \/ IngressDelete(c)
             \/ IngressCache(c)
             \/ GetHTTP(c) \/ GetPolicy(c) \/ ListPolicies(c) \/ ListHTTP(c) \/ GetIngress(c)
             \/ Requesting(c) /\ RequestFails(c)
      PROVE  ProgressInv'
  BY <1>5, IngressGetProgresses, IngressWriteProgresses, IngressDeleteProgresses,
     IngressCacheProgresses, ReadsProgress, FaultProgresses
<1> QED  BY <1>1, <1>2, <1>3, <1>4, <1>5 DEF Next

\* What a call that has the API server for itself has reached at each of its places,
\* for any callers, routes, configurations, calls before it and faults.
THEOREM CallsProgress == Spec => []ProgressInv
<1>1. Init => ProgressInv  BY InitProgresses
<1>2. ProgressInv /\ [Next]_vars => ProgressInv'  BY NextProgresses
<1> QED  BY <1>1, <1>2, PTL DEF Spec

(***************************************************************************)
(* What the answer of a call says.                                         *)
(***************************************************************************)
\* CreateRoute and UpdateOrCreateRoute answer without an error only if every half
\* that is enabled is stored as asked, whatever is left of earlier calls.
THEOREM SuccessIsKept == Spec => []SuccessKeepsRoute
<1>1. ASSUME ProgressInv  PROVE SuccessKeepsRoute
  <2> SUFFICES ASSUME NEW c \in Callers, Alone(c), Keeping(c), Answer(c) = "ok"
               PROVE  Kept(call[c].route)
    BY DEF SuccessKeepsRoute, Keeping
  <2>1. Writing(c) /\ At(c, "done")
    BY <1>1, CallTypes DEF Alone, Progress
  <2>2. Halves(c) = {"ok"}
    BY DEF Answer, ResolveRouteResult, Keeping
  <2>3. /\ system.gateway => call[c].http = "ok"
        /\ system.ingress => call[c].ingress = "ok"
    BY <2>2 DEF Halves
  <2>4. system.gateway => HTTPKept(call[c].route)
    BY <2>1, <2>3 DEF Writing, At
  <2>5. system.ingress => IngressKept(call[c].route)
    BY <2>1, <2>3 DEF Writing
  <2> QED  BY <2>4, <2>5 DEF Kept, HTTPKept, PolicyKept, IngressKept
<1> QED  BY <1>1, CallsProgress, PTL

\* UpdateOrCreateRoute of a route that the API server accepts repairs whatever
\* failed or overlapped calls have left, when nothing fails.
THEOREM UpsertRepairs == Spec => []UpdateRepairs
<1>1. ASSUME ProgressInv  PROVE UpdateRepairs
  <2> SUFFICES ASSUME NEW c \in Callers, Alone(c), call[c].op = "upsert", NoFault(c),
                      system.gateway \/ system.ingress, Accepted(call[c].route)
               PROVE  Answer(c) = "ok"
    BY DEF UpdateRepairs, Accepted
  <2>1. Repairing(c) /\ At(c, "done")
    BY <1>1, CallTypes DEF Alone, Progress
  <2>2. /\ system.gateway => call[c].http = "ok"
        /\ system.ingress => call[c].ingress = "ok"
    BY <2>1 DEF Repairing, At
  <2>3. Halves(c) = {"ok"}
    BY <2>2 DEF Halves
  <2> QED  BY <2>3 DEF Answer, ResolveRouteResult
<1> QED  BY <1>1, CallsProgress, PTL

\* Nothing of a route is left after DeleteRoute, whatever earlier deletions have left.
THEOREM DeleteIsComplete == Spec => []DeleteRemoves
<1>1. ASSUME ProgressInv  PROVE DeleteRemoves
  <2> SUFFICES ASSUME NEW c \in Callers, Alone(c), call[c].op = "delete", NoFault(c)
               PROVE  /\ system.gateway => http = Absent /\ ~Managed(policy)
                      /\ system.ingress => ingress = Absent
    BY DEF DeleteRemoves
  <2>1. Deleting(c) /\ At(c, "done")
    BY <1>1, CallTypes DEF Alone, Progress
  <2> QED  BY <2>1 DEF Deleting, At
<1> QED  BY <1>1, CallsProgress, PTL

(***************************************************************************)
(* A route that is read and stored again.                                  *)
(***************************************************************************)
\* What a Route keeps of an HTTPRoute and its policy.
ReadFrom(route, spec, companion) ==
  /\ route.id = spec.id /\ route.pathType = spec.rule.pathType
  /\ route.path = spec.rule.path /\ route.port = spec.rule.port
  /\ route.nginx.read = 0 /\ route.nginx.send = 0 /\ ~route.nginx.critical
  /\ companion.managed =>
       /\ route.idle = companion.idle
       /\ route.nginx.protocol = IF companion.grpc THEN "GRPC" ELSE ""
  /\ ~companion.managed => route.idle = 0 /\ route.nginx.protocol = ""

LEMMA ReadFields ==
  ASSUME NEW spec, NEW companion, NEW route, route = RouteFromHTTPRouteWithPolicy(spec, companion)
  PROVE  ReadFrom(route, spec, companion)
<1>1. PICK id, pathType, path, port :
        id = spec.id /\ pathType = spec.rule.pathType /\ path = spec.rule.path /\ port = spec.rule.port
  OBVIOUS
<1>2. PICK plain : plain = Plain
  OBVIOUS
<1>3. /\ plain.protocol = "" /\ plain.read = 0 /\ plain.send = 0
      /\ DOMAIN plain = {"protocol", "cookie", "read", "send", "critical"}
  BY <1>2 DEF Plain
<1>4. ~plain.critical
  BY <1>2 DEF Plain
<1>5. PICK bare : bare = [id |-> id, pathType |-> pathType, path |-> path, port |-> port,
                          class |-> NoClass, idle |-> 0, nginx |-> plain]
  OBVIOUS
<1>6. route = ApplyManagedBackendTrafficPolicy(bare, companion)
  BY <1>1, <1>2, <1>5 DEF RouteFromHTTPRouteWithPolicy
<1>7. CASE ~companion.managed
  <2>1. route = bare
    BY <1>6, <1>7 DEF ApplyManagedBackendTrafficPolicy
  <2>2. /\ route.id = id /\ route.pathType = pathType /\ route.path = path /\ route.port = port
        /\ route.idle = 0 /\ route.nginx = plain
    BY <1>5, <2>1
  <2>3. ~route.nginx.critical
    BY <1>4, <2>2
  <2> QED  BY <1>1, <1>3, <1>7, <2>2, <2>3 DEF ReadFrom
<1>8. CASE companion.managed
  <2>1. PICK idle, protocol : idle = companion.idle /\ protocol = IF companion.grpc THEN "GRPC" ELSE ""
    OBVIOUS
  <2>2. bare.nginx.protocol = ""
    BY <1>3, <1>5
  <2>3. route = [bare EXCEPT !.idle = companion.idle,
                             !.nginx.protocol = IF companion.grpc THEN "GRPC" ELSE @]
    BY <1>6, <1>8 DEF ApplyManagedBackendTrafficPolicy
  <2>4. route = [bare EXCEPT !.idle = idle, !.nginx.protocol = protocol]
    BY <2>1, <2>2, <2>3
  <2>5. /\ route.id = id /\ route.pathType = pathType /\ route.path = path /\ route.port = port
        /\ route.idle = idle /\ route.nginx = [plain EXCEPT !.protocol = protocol]
    BY <1>5, <2>4
  <2>6. /\ route.nginx.protocol = protocol /\ route.nginx.read = plain.read
        /\ route.nginx.send = plain.send /\ route.nginx.critical = plain.critical
    BY <1>3, <2>5
  <2>7. ~route.nginx.critical
    BY <1>4, <2>6
  <2> QED  BY <1>1, <1>3, <1>8, <2>1, <2>5, <2>6, <2>7 DEF ReadFrom
<1> QED  BY <1>7, <1>8

\* What an HTTPRoute has is written as it was read, the persistence of sessions excepted.
LEMMA RuleIsStable ==
  ASSUME NEW origin, NEW spec, spec = ToHTTPRoute(origin), NEW route, NEW persistent,
         persistent = spec.rule.persistent,
         route.id = spec.id, route.pathType = spec.rule.pathType, route.path = spec.rule.path,
         route.port = spec.rule.port
  PROVE  [ToHTTPRoute(route) EXCEPT !.rule.persistent = persistent] = spec
<1>1. /\ spec.id = origin.id /\ spec.rule = BuildHTTPRouteRule(origin)
  BY DEF ToHTTPRoute
<1>2. /\ spec.rule.pathType = PathMatchType(origin.pathType) /\ spec.rule.path = RoutePathValue(origin.path)
      /\ spec.rule.port = RouteBackendPort(origin.port)
  BY <1>1 DEF BuildHTTPRouteRule
<1>3. PathMatchType(route.pathType) = spec.rule.pathType
  BY <1>2 DEF PathMatchType
<1>4. RoutePathValue(route.path) = spec.rule.path
  BY <1>2 DEF RoutePathValue, OrElse
<1>5. RouteBackendPort(route.port) = spec.rule.port
  BY <1>2 DEF RouteBackendPort, OrElse
<1>6. PICK id, pathType, path, port, rule, cookie :
        /\ id = spec.id /\ pathType = spec.rule.pathType /\ path = spec.rule.path
        /\ port = spec.rule.port /\ cookie = route.nginx.cookie
        /\ rule = [pathType |-> pathType, path |-> path, port |-> port, persistent |-> cookie]
  OBVIOUS
<1>7. ToHTTPRoute(route) = [id |-> id, rule |-> rule]
  BY <1>3, <1>4, <1>5, <1>6 DEF ToHTTPRoute, BuildHTTPRouteRule
<1>8. [ToHTTPRoute(route) EXCEPT !.rule.persistent = persistent] =
        [id |-> id, rule |-> [rule EXCEPT !.persistent = persistent]]
  BY <1>7
<1>9. [rule EXCEPT !.persistent = persistent] =
        [pathType |-> pathType, path |-> path, port |-> port, persistent |-> persistent]
  BY <1>6
<1>10. spec.rule = [pathType |-> pathType, path |-> path, port |-> port, persistent |-> persistent]
  BY <1>1, <1>6 DEF BuildHTTPRouteRule
<1>11. spec = [id |-> id, rule |-> spec.rule]
  BY <1>6 DEF ToHTTPRoute
<1> QED  BY <1>8, <1>9, <1>10, <1>11

\* What a policy of ours says of the route that it was made for.
LEMMA PolicyFields ==
  ASSUME NEW origin, NEW default, NEW companion,
         companion = ToBackendTrafficPolicy(origin, default), companion # NoPolicy
  PROVE  /\ companion.managed
         /\ companion.grpc <=> origin.nginx.protocol = "GRPC"
         /\ companion.idle = ResolveStreamIdleTimeout(origin, default)
<1>1. companion.managed
  BY DEF ToBackendTrafficPolicy
<1>2. companion.grpc <=> origin.nginx.protocol = "GRPC"
  BY DEF ToBackendTrafficPolicy
<1>3. companion.idle = ResolveStreamIdleTimeout(origin, default)
  BY DEF ToBackendTrafficPolicy
<1> QED  BY <1>1, <1>2, <1>3

\* A timeout that was resolved resolves to itself.
LEMMA IdleIsStable ==
  ASSUME NEW origin, NEW default \in Nat, NEW route,
         route.idle = ResolveStreamIdleTimeout(origin, default),
         route.nginx.read = 0, route.nginx.send = 0
  PROVE  ResolveStreamIdleTimeout(route, default) = ResolveStreamIdleTimeout(origin, default)
<1>1. PICK own, idle : own = route.idle /\ idle = ResolveStreamIdleTimeout(origin, default)
  OBVIOUS
<1>2. own = 0 => default = 0
  BY <1>1 DEF ResolveStreamIdleTimeout
<1>3. ParseTimeoutSeconds(route.nginx.read) = 0 /\ ParseTimeoutSeconds(route.nginx.send) = 0
  BY DEF ParseTimeoutSeconds
<1>4. ResolveStreamIdleTimeout(route, default) =
        IF own # 0 THEN own ELSE IF default # 0 THEN default
        ELSE IF 0 <= LongestSeconds THEN 0 ELSE Malformed
  BY <1>1, <1>3 DEF ResolveStreamIdleTimeout
<1> QED  BY <1>1, <1>2, <1>4 DEF LongestSeconds

\* Routes that ask for the same protocol and timeout have the same policy.
LEMMA SamePolicy ==
  ASSUME NEW origin, NEW default, NEW route, ToBackendTrafficPolicy(origin, default) # NoPolicy,
         route.nginx.protocol = "GRPC" <=> origin.nginx.protocol = "GRPC",
         ResolveStreamIdleTimeout(route, default) = ResolveStreamIdleTimeout(origin, default)
  PROVE  ToBackendTrafficPolicy(route, default) = ToBackendTrafficPolicy(origin, default)
BY DEF ToBackendTrafficPolicy

\* A policy of ours is written as it was read.
LEMMA PolicyIsStable ==
  ASSUME NEW origin, NEW default \in Nat, NEW companion, NEW route,
         companion = ToBackendTrafficPolicy(origin, default), companion # NoPolicy,
         route.idle = companion.idle, route.nginx.read = 0, route.nginx.send = 0,
         route.nginx.protocol = IF companion.grpc THEN "GRPC" ELSE ""
  PROVE  ToBackendTrafficPolicy(route, default) = companion
<1>1. /\ companion.grpc <=> origin.nginx.protocol = "GRPC"
      /\ companion.idle = ResolveStreamIdleTimeout(origin, default)
  BY PolicyFields
<1>2. route.nginx.protocol = "GRPC" <=> origin.nginx.protocol = "GRPC"
  BY <1>1
<1>3. route.idle = ResolveStreamIdleTimeout(origin, default)
  BY <1>1
<1>4. ResolveStreamIdleTimeout(route, default) = ResolveStreamIdleTimeout(origin, default)
  BY <1>3, IdleIsStable
<1> QED  BY <1>2, <1>4, SamePolicy

\* Without one the route asks for none, or for the default timeout only.
LEMMA BareIsAccepted ==
  ASSUME NEW route, NEW default \in Nat, route.idle = 0, route.nginx.read = 0, route.nginx.send = 0
  PROVE  ToBackendTrafficPolicy(route, default).idle # Malformed
<1>1. ParseTimeoutSeconds(route.nginx.read) = 0 /\ ParseTimeoutSeconds(route.nginx.send) = 0
  BY DEF ParseTimeoutSeconds
<1>2. ResolveStreamIdleTimeout(route, default) = default
  <2>1. ResolveStreamIdleTimeout(route, default) =
          IF default # 0 THEN default ELSE IF 0 <= LongestSeconds THEN 0 ELSE Malformed
    BY <1>1 DEF ResolveStreamIdleTimeout
  <2> QED  BY <2>1 DEF LongestSeconds
<1>3. NoPolicy.idle = 0
  BY DEF NoPolicy
<1>4. ToBackendTrafficPolicy(route, default).idle \in {0, default}
  BY <1>2, <1>3, PolicyFields
<1>5. 0 # Malformed
  BY DEF Malformed
<1>6. default # Malformed
  BY DEF Malformed
<1> QED  BY <1>4, <1>5, <1>6

\* An Ingress is written as it was read.
LEMMA IngressIsStable ==
  ASSUME NEW spec, IngressStored(spec), NEW route, route = RouteFromIngress(spec)
  PROVE  Configured(IngressOf(route)) = spec
<1>1. PICK origin \in Routes :
        spec = IngressWith(origin, spec.class, Marked) /\ ConfiguredClass(spec.class) = spec.class
  BY DEF IngressStored
<1>2. /\ route.id = spec.id /\ route.pathType = spec.pathType /\ route.path = spec.path
      /\ route.port = spec.port /\ route.class = spec.class /\ route.nginx = spec.nginx
  BY DEF RouteFromIngress
<1>3. PICK class, ignore : class = spec.class /\ ignore = Marked
  OBVIOUS
<1>4. /\ spec.id = origin.id /\ spec.pathType = StoredPathType(origin)
      /\ spec.path = StoredPath(origin) /\ spec.port = RouteBackendPort(origin.port)
      /\ spec.nginx = origin.nginx
  <2>1. spec = IngressWith(origin, class, ignore)
    BY <1>1, <1>3
  <2> QED  BY <2>1 DEF IngressWith
<1>5. StoredPathType(route) = StoredPathType(origin)
  BY <1>2, <1>4 DEF StoredPathType, OrElse
<1>6. StoredPath(route) = StoredPath(origin)
  BY <1>2, <1>4 DEF StoredPath, RoutePathValue, OrElse
<1>7. RouteBackendPort(route.port) = RouteBackendPort(origin.port)
  BY <1>2, <1>4 DEF RouteBackendPort, OrElse
<1>8. IngressWith(route, class, ignore) = IngressWith(origin, class, ignore)
  BY <1>2, <1>4, <1>5, <1>6, <1>7 DEF IngressWith
<1>9. Configured(IngressOf(route)) = IngressWith(route, class, ignore)
  <2>1. IngressOf(route) = IngressWith(route, class, Unmarked)
    BY <1>2, <1>3, IngressShape
  <2> QED  BY <1>1, <1>3, <2>1, ConfiguredShape
<1> QED  BY <1>1, <1>3, <1>8, <1>9

\* An HTTPRoute and its policy are written as they were read.
LEMMA GatewayIsStable ==
  ASSUME NEW origin, NEW spec, spec = ToHTTPRoute(origin), NEW persistent, persistent = spec.rule.persistent,
         NEW companion, NEW route, route = RouteFromHTTPRouteWithPolicy(spec, companion)
  PROVE  [ToHTTPRoute(route) EXCEPT !.rule.persistent = persistent] = spec
<1>1. ReadFrom(route, spec, companion)
  BY ReadFields
<1>2. /\ route.id = spec.id /\ route.pathType = spec.rule.pathType
      /\ route.path = spec.rule.path /\ route.port = spec.rule.port
  BY ONLY <1>1 DEF ReadFrom
<1> QED  BY <1>2, RuleIsStable

WrittenAs(route, companion, default) ==
  /\ ToBackendTrafficPolicy(route, default) = companion
  /\ ~route.nginx.critical /\ route.nginx.protocol \in {"", "GRPC"}

LEMMA CompanionIsStable ==
  ASSUME NEW origin, NEW default \in Nat, NEW companion,
         companion = ToBackendTrafficPolicy(origin, default), companion # NoPolicy,
         companion.idle # Malformed,
         NEW spec, NEW route, route = RouteFromHTTPRouteWithPolicy(spec, companion)
  PROVE  WrittenAs(route, companion, default)
<1>1. companion.managed
  BY PolicyFields
<1>2. /\ route.idle = companion.idle /\ route.nginx.read = 0 /\ route.nginx.send = 0
      /\ ~route.nginx.critical
      /\ route.nginx.protocol = IF companion.grpc THEN "GRPC" ELSE ""
  <2>1. ReadFrom(route, spec, companion)
    BY ReadFields
  <2> QED  BY <1>1, <2>1 DEF ReadFrom
<1>3. ToBackendTrafficPolicy(route, default) = companion
  BY <1>2, PolicyIsStable, ZenonT(30)
<1>4. route.nginx.protocol \in {"", "GRPC"}
  BY <1>2
<1> QED  BY <1>2, <1>3, <1>4 DEF WrittenAs

LEMMA NothingIsStable ==
  ASSUME NEW default \in Nat, NEW spec, NEW companion, ~companion.managed,
         NEW route, route = RouteFromHTTPRouteWithPolicy(spec, companion)
  PROVE  /\ ToBackendTrafficPolicy(route, default).idle # Malformed
         /\ ~route.nginx.critical /\ route.nginx.protocol \in {"", "GRPC"}
<1>1. /\ route.idle = 0 /\ route.nginx.read = 0 /\ route.nginx.send = 0
      /\ ~route.nginx.critical /\ route.nginx.protocol = ""
  <2>1. ReadFrom(route, spec, companion)
    BY ReadFields
  <2> QED  BY <2>1 DEF ReadFrom
<1>2. ToBackendTrafficPolicy(route, default).idle # Malformed
  BY <1>1, BareIsAccepted
<1> QED  BY <1>1, <1>2

\* What GetRoute or GetRouteList returned, stored again, changes with Gateway API
\* neither the HTTPRoute, its session persistence excepted, nor our policy, and
\* without it not the Ingress.  (With both, the Ingress is out: what is read is
\* the HTTPRoute, which lacks its nginx annotations and its class.)
THEOREM ReadIsStoredBack == Spec => []ReadBackStores
<1>1. ASSUME ProgressInv  PROVE ReadBackStores
  <2> SUFFICES ASSUME NEW c \in Callers, Alone(c), call[c].op \in {"get", "list"}, NoFault(c),
                      call[c].made # NoRoute, NEW route, route = call[c].made
               PROVE  IF system.gateway
                      THEN /\ [ToHTTPRoute(route) EXCEPT !.rule.persistent = http.spec.rule.persistent]
                                = http.spec
                           /\ ~Refused(route)
                           /\ Managed(policy) => ToBackendTrafficPolicy(route, system.idle) = policy.spec
                      ELSE Configured(IngressOf(route)) = ingress.spec
    BY DEF ReadBackStores
  <2>1. Stands(route) /\ ServerOK /\ system.idle \in Nat
    BY <1>1, CallTypes, SystemTypes DEF Alone, Progress, Reading, ProgressInv
  <2>2. CASE system.gateway
    <3>1. PICK spec, companion, persistent :
            /\ spec = http.spec /\ companion = SpecOr(policy, NoPolicy)
            /\ persistent = http.spec.rule.persistent
      OBVIOUS
    <3>2. PICK origin \in Routes : spec = ToHTTPRoute(origin)
      BY <2>1, <2>2, <3>1 DEF Stands, ServerOK, HTTPStored
    <3>3. route = RouteFromHTTPRouteWithPolicy(spec, companion)
      BY <2>1, <2>2, <3>1 DEF Stands
    <3>4. [ToHTTPRoute(route) EXCEPT !.rule.persistent = persistent] = spec
      BY <3>1, <3>2, <3>3, GatewayIsStable
    <3>5. CASE ~companion.managed
      <4>1. ~Refused(route)
        BY <2>1, <3>3, <3>5, NothingIsStable DEF Refused
      <4>2. ~Managed(policy)
        BY <3>1, <3>5 DEF Managed, SpecOr
      <4> QED  BY <2>2, <3>1, <3>4, <4>1, <4>2
    <3>6. CASE companion.managed
      <4>1. policy # Absent /\ companion = policy.spec /\ companion # Foreign
        BY <3>1, <3>6 DEF SpecOr, NoPolicy, Foreign
      <4>2. PICK asked \in Routes :
              ~Refused(asked) /\ companion = ToBackendTrafficPolicy(asked, system.idle) /\ companion # NoPolicy
        BY <2>1, <4>1 DEF ServerOK, PolicyStored
      <4>3. companion.idle # Malformed
        BY <4>2 DEF Refused
      <4>4. /\ ToBackendTrafficPolicy(route, system.idle) = companion
            /\ ~route.nginx.critical /\ route.nginx.protocol \in {"", "GRPC"}
        <5>1. WrittenAs(route, companion, system.idle)
          BY <2>1, <3>3, <4>2, <4>3, CompanionIsStable
        <5> QED  BY <5>1 DEF WrittenAs
      <4>5. ~Refused(route)
        BY <4>3, <4>4 DEF Refused
      <4> QED  BY <2>2, <3>1, <3>4, <4>1, <4>4, <4>5
    <3> QED  BY <3>5, <3>6
  <2>3. CASE ~system.gateway
    <3>1. PICK spec : spec = ingress.spec
      OBVIOUS
    <3>2. IngressStored(spec) /\ route = RouteFromIngress(spec)
      BY <2>1, <2>3, <3>1 DEF Stands, ServerOK
    <3>3. Configured(IngressOf(route)) = spec
      BY <3>2, IngressIsStable
    <3> QED  BY <2>3, <3>1, <3>3
  <2> QED  BY <2>2, <2>3
<1> QED  BY <1>1, CallsProgress, PTL
=============================================================================
