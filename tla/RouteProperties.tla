--------------------------- MODULE RouteProperties ---------------------------
(***************************************************************************)
(* What the operations on routes promise.                                  *)
(***************************************************************************)
EXTENDS RouteOps

\* A call that has its answer and had the API server for itself.
Alone(c) == At(c, "done") /\ call[c].alone
NoFault(c) == call[c].faults = faultsLeft

SameButClass(spec, other) == [spec EXCEPT !.class = NoClass] = [other EXCEPT !.class = NoClass]

\* A route is stored as it was asked for: as an HTTPRoute with its policy (unless
\* somebody else owns that) and as an Ingress; a cache has nothing older.
Kept(route) ==
  /\ system.gateway =>
       /\ http # Absent /\ http.spec = ToHTTPRoute(route) /\ cachedHTTP \in {Absent, http}
       /\ \/ SpecOr(policy, NoPolicy) = ToBackendTrafficPolicy(route, system.idle)
          \/ policy # Absent /\ ~Managed(policy)
          \/ ~system.policies
  /\ system.ingress =>
       /\ ingress # Absent /\ cachedIngress \in {Absent, ingress}
       /\ SameButClass(ingress.spec, Configured(IngressOf(route)))

\* CreateRoute and UpdateOrCreateRoute answer without an error only if every half
\* that is enabled is stored as asked, the policy included, whatever half-written
\* routes earlier calls and failures have left behind (route.go 58-85, 234-375).
SuccessKeepsRoute ==
  \A c \in Callers :
    Alone(c) /\ call[c].op \in {"create", "upsert"} /\ Answer(c) = "ok"
      => Kept(call[c].route)

\* "try using Update endpoint" (route.go 46): whatever state a failed or an
\* overlapped call has left, UpdateOrCreateRoute of a route that the API server
\* accepts succeeds when nothing fails.
UpdateRepairs ==
  \A c \in Callers :
    /\ Alone(c) /\ call[c].op = "upsert" /\ NoFault(c)
    /\ system.gateway \/ system.ingress
    /\ system.gateway => ~Refused(call[c].route)
    /\ system.ingress => Acceptable(IngressOf(call[c].route))
    => Answer(c) = "ok"

\* After DeleteRoute nothing of the route is left, also if an earlier DeleteRoute
\* removed the HTTPRoute and failed with its policy (route.go 508-542).
DeleteRemoves ==
  \A c \in Callers :
    Alone(c) /\ call[c].op = "delete" /\ NoFault(c)
      => /\ system.gateway => http = Absent /\ ~Managed(policy)
         /\ system.ingress => ingress = Absent

\* A policy of somebody else is never overwritten, however the check for its label
\* interleaves with its owner; it is deleted only when it took the place of ours
\* between the check and the delete by name (backend_traffic_policy.go 116-183).
ForeignPolicyKept ==
  [][policy # Absent /\ ~Managed(policy) /\ policy' # policy
       => \/ faultsLeft' # faultsLeft
          \/ policy' = Absent
             /\ \E c \in Callers : At(c, "policyDelete") /\ call[c].seen # policy]_vars

\* What GetRoute or GetRouteList returned can be stored again: with Gateway API it
\* changes neither the HTTPRoute, its session persistence excepted, nor our policy;
\* without it, not the Ingress (entity/route.go: TestRouteRoundTrip of the policy
\* tests, for every route).  Nothing is said of the Ingress of a cluster that has
\* both: there the route is read from the HTTPRoute, which has kept no nginx
\* annotations (361-376) and no class, and whose PathPrefix (382) networking/v1 refuses.
ReadBackStores ==
  \A c \in Callers :
    Alone(c) /\ call[c].op \in {"get", "list"} /\ NoFault(c) /\ call[c].made # NoRoute
      => LET route == call[c].made IN
         IF system.gateway
         THEN /\ [ToHTTPRoute(route) EXCEPT !.rule.persistent = http.spec.rule.persistent] = http.spec
              /\ ~Refused(route)
              /\ Managed(policy) => ToBackendTrafficPolicy(route, system.idle) = policy.spec
         ELSE Configured(IngressOf(route)) = ingress.spec
=============================================================================
