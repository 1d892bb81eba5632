------------------------------- MODULE RouteOps -------------------------------
(***************************************************************************)
(* Routes (route.go, backend_traffic_policy.go, gateway_system.go).  One   *)
(* Route is kept as an HTTPRoute, a BackendTrafficPolicy and an Ingress,   *)
(* as far as the gateway system enables them.  A call of CreateRoute,      *)
(* UpdateOrCreateRoute, DeleteRoute, GetRoute or GetRouteList is a         *)
(* sequence of requests for these objects, with others in between.         *)
(*                                                                         *)
(* All calls are about one name.  As long as faults are left a request may *)
(* fail, a cache refuse or drop an entry, or somebody else put or delete a *)
(* policy of that name, which has no label of this library then.           *)
(***************************************************************************)
EXTENDS RouteEntity, Sequences

CONSTANTS
  Callers,       \* goroutines that call the library, one call at a time
  Routes,        \* what they ask for
  Systems,       \* configurations of the client and the cluster, with or without
                 \* a reader of WatchRoutes
  Operations,    \* the operations they call
  MaxCalls, MaxFaults   \* bounds

\* The default of the idle timeout was validated when the client was built.
ASSUME RouteOpsAssumption ==
  /\ MaxCalls \in Nat /\ MaxFaults \in Nat
  /\ Operations \subseteq {"create", "upsert", "delete", "get", "list"}
  /\ \A s \in Systems :
       /\ {s.gateway, s.ingress, s.networkingV1, s.bg2, s.policies, s.watching} \subseteq BOOLEAN
       /\ s.idle \in Nat

VARIABLES
  system,                        \* the configuration
  http, policy, ingress, clock,  \* the API server: objects, last version
  cachedHTTP, cachedIngress,     \* the caches
  call,                          \* call[c]: what caller c is doing
  events, watched,               \* HTTPRoute events on their way to the reader
                                 \* of WatchRoutes, the last Route it was given
  callsLeft, faultsLeft

serverVars == <<http, policy, ingress, clock, events>>
cacheVars == <<cachedHTTP, cachedIngress>>
boundVars == <<callsLeft, faultsLeft>>
vars == <<system, serverVars, cacheVars, call, watched, boundVars>>

Absent == [rv |-> 0]
NoRoute == [id |-> "none"]

\* seen is what the call read and needs again, made the Ingress or HTTPRoute that it
\* wrote or the Route that it read.
\* alone and faults are history: no other call was under way, faults left then.
Idle == [op |-> "none", route |-> NoRoute, pc |-> "idle", seen |-> Absent,
         made |-> Absent, http |-> "none", ingress |-> "none",
         alone |-> TRUE, faults |-> 0]

Init ==
  /\ system \in Systems
  /\ http = Absent /\ policy = Absent /\ ingress = Absent /\ clock = 0
  /\ cachedHTTP = Absent /\ cachedIngress = Absent
  /\ call = [c \in Callers |-> Idle]
  /\ events = <<>> /\ watched = NoRoute
  /\ callsLeft = MaxCalls /\ faultsLeft = MaxFaults

At(c, pc) == call[c].pc = pc
Goto(c, pc) == call' = [call EXCEPT ![c].pc = pc]
GotoSeen(c, pc, object) == call' = [call EXCEPT ![c].pc = pc, ![c].seen = object]
Stored(spec) == [rv |-> clock + 1, spec |-> spec]
Tick == clock' = clock + 1

\* Where a half begins.
FirstHTTP(op) ==
  IF op = "create" THEN "httpCreate" ELSE IF op = "upsert" THEN "httpGet" ELSE "httpDelete"
FirstIngress(op) ==
  IF op = "create" THEN "ingressCreate" ELSE IF op = "upsert" THEN "ingressGet" ELSE "ingressDelete"

\* Each half is attempted, whatever became of the other.
HTTPDone(c, outcome) ==
  call' = [call EXCEPT ![c].http = outcome, ![c].seen = Absent, ![c].made = Absent,
             ![c].pc = IF system.ingress THEN FirstIngress(call[c].op) ELSE "done"]
IngressDone(c, outcome) ==
  call' = [call EXCEPT ![c].ingress = outcome, ![c].seen = Absent, ![c].made = Absent,
             ![c].pc = "done"]

(***************************************************************************)
(* A call begins and returns.  Without a gateway system a write is         *)
(* refused, and a delete does nothing.                                     *)
(***************************************************************************)
Entry(op) ==
  CASE op = "get" -> IF system.gateway THEN "getHTTP" ELSE "getIngress"
    [] op = "list" -> IF system.gateway THEN "listPolicies" ELSE "getIngress"
    [] system.gateway /\ op \notin {"get", "list"} -> FirstHTTP(op)
    [] ~system.gateway /\ system.ingress /\ op \notin {"get", "list"} -> FirstIngress(op)
    [] OTHER -> "done"

Start(c, op, route) ==
  /\ At(c, "idle") /\ callsLeft > 0 /\ callsLeft' = callsLeft - 1
  /\ call' = [d \in Callers |->
       IF d = c THEN [Idle EXCEPT !.op = op, !.route = route, !.pc = Entry(op),
                                  !.faults = faultsLeft,
                                  !.alone = \A e \in Callers \ {c} : At(e, "idle")]
       ELSE IF At(d, "idle") THEN Idle ELSE [call[d] EXCEPT !.alone = FALSE]]
  /\ UNCHANGED <<system, serverVars, cacheVars, watched, faultsLeft>>

Return(c) ==
  /\ At(c, "done")
  /\ call' = [call EXCEPT ![c] = Idle]
  /\ UNCHANGED <<system, serverVars, cacheVars, watched, boundVars>>

\* What the halves that are enabled have come to, and what the call answers.
Halves(c) ==
  (IF system.gateway THEN {call[c].http} ELSE {})
    \cup (IF system.ingress THEN {call[c].ingress} ELSE {})
ResolveRouteResult(halves) == IF halves = {"ok"} THEN "ok" ELSE "failed"
ResolveDeleteRouteResult(halves) ==
  IF "failed" \in halves THEN "failed"
  ELSE IF halves = {"notFound"} THEN "notFound" ELSE "ok"
Answer(c) ==
  IF call[c].op = "delete" THEN ResolveDeleteRouteResult(Halves(c)) ELSE ResolveRouteResult(Halves(c))

(***************************************************************************)
(* What is asked of the API server.                                        *)
(***************************************************************************)
\* An invalid timeout, or an annotation that an HTTPRoute has nothing for.
Refused(route) ==
  \/ route.nginx.critical
  \/ route.nginx.protocol \notin {"", "GRPC"}
  \/ ToBackendTrafficPolicy(route, system.idle).idle = Malformed

\* DeleteRoute wants no policy.
Wanted(c) ==
  IF call[c].op = "delete" THEN NoPolicy
  ELSE ToBackendTrafficPolicy(call[c].route, system.idle)

IngressOf(route) ==
  IF system.networkingV1 THEN ToIngressNetworkingV1(route) ELSE ToIngress(route)

\* The class of Blue-Green, and the mark for the converter of Ingresses.
Configured(spec) ==
  [spec EXCEPT !.class = IF system.bg2 /\ @ = NoClass THEN "bg.mesh.netcracker.com" ELSE @,
               !.ignore = system.gateway /\ system.ingress]

\* The path types that networking/v1 knows.
Acceptable(spec) ==
  system.networkingV1 => spec.pathType \in {"Exact", "Prefix", "ImplementationSpecific"}

(***************************************************************************)
(* The half of the HTTPRoute.                                              *)
(***************************************************************************)
Announce(object) == events' = IF system.watching THEN Append(events, object) ELSE events

PutHTTP(c) ==
  /\ http' = Stored(ToHTTPRoute(call[c].route)) /\ Tick /\ Announce(http')
  /\ call' = [call EXCEPT ![c].pc = "policy", ![c].made = http', ![c].seen = Absent]
  /\ UNCHANGED <<policy, ingress>>

HTTPGet(c) ==
  /\ At(c, "httpGet")
  /\ IF http = Absent THEN Goto(c, "httpCreate")
     ELSE IF Refused(call[c].route) THEN HTTPDone(c, "failed")
     ELSE GotoSeen(c, "httpUpdate", http)
  /\ UNCHANGED <<system, serverVars, cacheVars, watched, boundVars>>

HTTPCreate(c) ==
  /\ At(c, "httpCreate")
  /\ IF Refused(call[c].route) \/ http # Absent
     THEN HTTPDone(c, "failed") /\ UNCHANGED serverVars
     ELSE PutHTTP(c)
  /\ UNCHANGED <<system, cacheVars, watched, boundVars>>

\* The update carries the version that was read.
HTTPUpdate(c) ==
  /\ At(c, "httpUpdate")
  /\ IF http # call[c].seen
     THEN HTTPDone(c, "failed") /\ UNCHANGED serverVars
     ELSE PutHTTP(c)
  /\ UNCHANGED <<system, cacheVars, watched, boundVars>>

\* The policy is deleted even if there is no HTTPRoute; the cache is not touched then.
HTTPDelete(c) ==
  /\ At(c, "httpDelete")
  /\ call' = [call EXCEPT ![c].pc = "policy",
                          ![c].http = IF http = Absent THEN "notFound" ELSE "ok"]
  /\ IF http = Absent THEN UNCHANGED <<serverVars, cachedHTTP>>
     ELSE /\ http' = Absent /\ Tick /\ Announce(Absent) /\ cachedHTTP' = Absent
          /\ UNCHANGED <<policy, ingress>>
  /\ UNCHANGED <<system, cachedIngress, watched, boundVars>>

\* A cache that refuses the entry fails the call, though the objects exist; it may
\* also drop a new entry and say nothing.
HTTPCache(c) ==
  /\ At(c, "httpCache")
  /\ \/ cachedHTTP' = call[c].made /\ HTTPDone(c, "ok") /\ UNCHANGED faultsLeft
     \/ /\ faultsLeft > 0 /\ faultsLeft' = faultsLeft - 1 /\ UNCHANGED cachedHTTP
        /\ \/ HTTPDone(c, "failed")
           \/ cachedHTTP = Absent /\ HTTPDone(c, "ok")
  /\ UNCHANGED <<system, serverVars, cachedIngress, watched, callsLeft>>

(***************************************************************************)
(* Its policy: read, then created, updated, deleted or left alone.  In     *)
(* DeleteRoute a failure is only logged.                                   *)
(***************************************************************************)
Managed(object) == object # Absent /\ object.spec.managed

PolicyDone(c) ==
  IF call[c].op = "delete" THEN HTTPDone(c, call[c].http)
  ELSE call' = [call EXCEPT ![c].pc = "httpCache", ![c].seen = Absent]
PolicyFailed(c) ==
  HTTPDone(c, IF call[c].op = "delete" THEN call[c].http ELSE "failed")

\* Mutant: a policy that is not wanted any more stays.
KeepsPolicyMutant(c) ==
  IF Wanted(c) = NoPolicy \/ ~(policy = Absent \/ Managed(policy)) THEN "none"
  ELSE IF policy = Absent THEN "policyCreate" ELSE "policyUpdate"

\* Mutant: nobody looks whose policy it is.
AnyOwnerMutant(c) ==
  IF Wanted(c) = NoPolicy THEN IF policy = Absent THEN "none" ELSE "policyDelete"
  ELSE IF policy = Absent THEN "policyCreate" ELSE "policyUpdate"

\* Mutant: nobody looks whether there is a policy already.
AlwaysCreatesMutant(c) ==
  IF policy # Absent /\ ~Managed(policy) THEN "none"
  ELSE IF Wanted(c) = NoPolicy THEN IF policy = Absent THEN "none" ELSE "policyDelete"
  ELSE "policyCreate"

PolicyStep(c) ==
  IF policy # Absent /\ ~Managed(policy) THEN "none"
  ELSE IF Wanted(c) = NoPolicy THEN IF policy = Absent THEN "none" ELSE "policyDelete"
  ELSE IF policy = Absent THEN "policyCreate" ELSE "policyUpdate"

PolicyGet(c) ==
  /\ At(c, "policy")
  /\ IF ~system.policies \/ PolicyStep(c) = "none"
     THEN PolicyDone(c) ELSE GotoSeen(c, PolicyStep(c), policy)
  /\ UNCHANGED <<system, serverVars, cacheVars, watched, boundVars>>

PolicyCreate(c) ==
  /\ At(c, "policyCreate")
  /\ IF policy # Absent
     THEN PolicyFailed(c) /\ UNCHANGED <<policy, clock>>
     ELSE policy' = Stored(Wanted(c)) /\ Tick /\ PolicyDone(c)
  /\ UNCHANGED <<system, http, ingress, events, cacheVars, watched, boundVars>>

Current(c) == policy = call[c].seen

\* That the policy is gone meanwhile is no error.
PolicyUpdate(c) ==
  /\ At(c, "policyUpdate")
  /\ IF policy = Absent THEN PolicyDone(c) /\ UNCHANGED <<policy, clock>>
     ELSE IF ~Current(c) THEN PolicyFailed(c) /\ UNCHANGED <<policy, clock>>
     ELSE policy' = Stored(Wanted(c)) /\ Tick /\ PolicyDone(c)
  /\ UNCHANGED <<system, http, ingress, events, cacheVars, watched, boundVars>>

\* By name: whatever is there by now.
PolicyDelete(c) ==
  /\ At(c, "policyDelete")
  /\ IF policy = Absent THEN UNCHANGED <<policy, clock>> ELSE policy' = Absent /\ Tick
  /\ PolicyDone(c)
  /\ UNCHANGED <<system, http, ingress, events, cacheVars, watched, boundVars>>

(***************************************************************************)
(* The half of the Ingress.                                                *)
(***************************************************************************)
PutIngress(c, spec) ==
  IF Acceptable(spec)
  THEN /\ ingress' = Stored(spec) /\ Tick
       /\ call' = [call EXCEPT ![c].pc = "ingressCache", ![c].made = ingress', ![c].seen = Absent]
  ELSE IngressDone(c, "failed") /\ UNCHANGED <<ingress, clock>>

IngressGet(c) ==
  /\ At(c, "ingressGet")
  /\ IF ingress = Absent THEN Goto(c, "ingressCreate") ELSE GotoSeen(c, "ingressUpdate", ingress)
  /\ UNCHANGED <<system, serverVars, cacheVars, watched, boundVars>>

IngressCreate(c) ==
  /\ At(c, "ingressCreate")
  /\ IF ingress = Absent THEN PutIngress(c, Configured(IngressOf(call[c].route)))
     ELSE IngressDone(c, "failed") /\ UNCHANGED <<ingress, clock>>
  /\ UNCHANGED <<system, http, policy, events, cacheVars, watched, boundVars>>

\* Only networking/v1 keeps the class of the Ingress that is there.
Replacement(c) ==
  LET spec == IngressOf(call[c].route) IN
  IF system.networkingV1 /\ spec.class \in {NoClass, ""}
  THEN [spec EXCEPT !.class = call[c].seen.spec.class] ELSE spec

IngressUpdate(c) ==
  /\ At(c, "ingressUpdate")
  /\ IF ingress = call[c].seen THEN PutIngress(c, Configured(Replacement(c)))
     ELSE IngressDone(c, "failed") /\ UNCHANGED <<ingress, clock>>
  /\ UNCHANGED <<system, http, policy, events, cacheVars, watched, boundVars>>

IngressCache(c) ==
  /\ At(c, "ingressCache")
  /\ \/ cachedIngress' = call[c].made /\ IngressDone(c, "ok") /\ UNCHANGED faultsLeft
     \/ /\ faultsLeft > 0 /\ faultsLeft' = faultsLeft - 1 /\ UNCHANGED cachedIngress
        /\ \/ IngressDone(c, "failed")
           \/ cachedIngress = Absent /\ IngressDone(c, "ok")
  /\ UNCHANGED <<system, serverVars, cachedHTTP, watched, callsLeft>>

IngressDelete(c) ==
  /\ At(c, "ingressDelete")
  /\ IngressDone(c, IF ingress = Absent THEN "notFound" ELSE "ok")
  /\ IF ingress = Absent THEN UNCHANGED <<ingress, clock, cachedIngress>>
     ELSE ingress' = Absent /\ Tick /\ cachedIngress' = Absent
  /\ UNCHANGED <<system, http, policy, events, cachedHTTP, watched, boundVars>>

(***************************************************************************)
(* GetRoute and GetRouteList, the latter for the one name: the HTTPRoute   *)
(* and its policy are read one after the other, in either order.           *)
(***************************************************************************)
Read(c, outcome, route) ==
  call' = [call EXCEPT ![c].pc = "done", ![c].http = outcome, ![c].made = route, ![c].seen = Absent]

SpecOr(object, default) == IF object = Absent THEN default ELSE object.spec

GetHTTP(c) ==
  /\ At(c, "getHTTP")
  /\ IF http = Absent THEN Read(c, "failed", NoRoute) ELSE GotoSeen(c, "getPolicy", http)
  /\ UNCHANGED <<system, serverVars, cacheVars, watched, boundVars>>

GetPolicy(c) ==
  /\ At(c, "getPolicy")
  /\ Read(c, "ok", RouteFromHTTPRouteWithPolicy(call[c].seen.spec, SpecOr(policy, NoPolicy)))
  /\ UNCHANGED <<system, serverVars, cacheVars, watched, boundVars>>

ListPolicies(c) ==
  /\ At(c, "listPolicies") /\ GotoSeen(c, "listHTTP", policy)
  /\ UNCHANGED <<system, serverVars, cacheVars, watched, boundVars>>

ListHTTP(c) ==
  /\ At(c, "listHTTP")
  /\ IF http = Absent THEN Read(c, "ok", NoRoute)
     ELSE Read(c, "ok", RouteFromHTTPRouteWithPolicy(http.spec, SpecOr(call[c].seen, NoPolicy)))
  /\ UNCHANGED <<system, serverVars, cacheVars, watched, boundVars>>

\* A missing Ingress is no error.
GetIngress(c) ==
  /\ At(c, "getIngress")
  /\ Read(c, "ok", IF ingress = Absent THEN NoRoute ELSE RouteFromIngress(ingress.spec))
  /\ UNCHANGED <<system, serverVars, cacheVars, watched, boundVars>>

(***************************************************************************)
(* A request fails.  GetRoute then takes what it asked for from the cache, *)
(* if it is there.                                                         *)
(***************************************************************************)
RequestFails(c) ==
  /\ faultsLeft > 0 /\ faultsLeft' = faultsLeft - 1
  /\ CASE call[c].pc \in {"httpGet", "httpCreate", "httpUpdate", "httpDelete"} -> HTTPDone(c, "failed")
       [] call[c].pc \in {"policy", "policyCreate", "policyUpdate", "policyDelete"} -> PolicyFailed(c)
       [] call[c].pc \in {"ingressGet", "ingressCreate", "ingressUpdate", "ingressDelete"} ->
            IngressDone(c, "failed")
       [] At(c, "getHTTP") /\ cachedHTTP # Absent -> GotoSeen(c, "getPolicy", cachedHTTP)
       [] At(c, "getIngress") /\ call[c].op = "get" /\ cachedIngress # Absent ->
            Read(c, "ok", RouteFromIngress(cachedIngress.spec))
       [] OTHER -> Read(c, "failed", NoRoute)
  /\ UNCHANGED <<system, serverVars, cacheVars, watched, callsLeft>>

(***************************************************************************)
(* The other owner of policies, and the reader of WatchRoutes, whose       *)
(* events are converted when they come (routeFromWatchedHTTPRoute).        *)
(***************************************************************************)
Foreign == [managed |-> FALSE, grpc |-> FALSE, idle |-> 7]

ForeignStep(object) ==
  /\ system.policies /\ faultsLeft > 0 /\ faultsLeft' = faultsLeft - 1
  /\ policy' = object /\ Tick
  /\ call' = [d \in Callers |-> [call[d] EXCEPT !.alone = At(d, "idle")]]
  /\ UNCHANGED <<system, http, ingress, events, cacheVars, watched, callsLeft>>

ForeignPut == ForeignStep(Stored(Foreign))
ForeignDelete == policy # Absent /\ ForeignStep(Absent)

Watch ==
  /\ events # <<>>
  /\ \E found \in {SpecOr(policy, NoPolicy)} \cup (IF faultsLeft > 0 THEN {NoPolicy} ELSE {}) :
       watched' = IF Head(events) = Absent THEN NoRoute
                  ELSE RouteFromHTTPRouteWithPolicy(Head(events).spec, found)
  /\ events' = Tail(events)
  /\ UNCHANGED <<system, http, policy, ingress, clock, cacheVars, call, boundVars>>

Requesting(c) == call[c].pc \notin {"idle", "done", "httpCache", "ingressCache"}

Next ==
  \/ \E c \in Callers :
       \/ \E op \in Operations :
            \E route \in IF op \in {"create", "upsert"} THEN Routes ELSE {NoRoute} :
              Start(c, op, route)
       \/ Return(c)
       \/ HTTPGet(c) \/ HTTPCreate(c) \/ HTTPUpdate(c) \/ HTTPDelete(c) \/ HTTPCache(c)
       \/ PolicyGet(c) \/ PolicyCreate(c) \/ PolicyUpdate(c) \/ PolicyDelete(c)
       \/ IngressGet(c) \/ IngressCreate(c) \/ IngressUpdate(c) \/ IngressDelete(c)
       \/ IngressCache(c)
       \/ GetHTTP(c) \/ GetPolicy(c) \/ ListPolicies(c) \/ ListHTTP(c) \/ GetIngress(c)
       \/ Requesting(c) /\ RequestFails(c)
  \/ ForeignPut \/ ForeignDelete \/ Watch

Spec == Init /\ [][Next]_vars
=============================================================================
