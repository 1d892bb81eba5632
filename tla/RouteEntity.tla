----------------------------- MODULE RouteEntity -----------------------------
(***************************************************************************)
(* The conversions of entity/route.go between the library's Route and what *)
(* the API server stores of it: an HTTPRoute with its companion            *)
(* BackendTrafficPolicy, and an Ingress of either API group.               *)
(*                                                                         *)
(* A duration is a number of seconds, 0 for none.  Host, service, labels   *)
(* and filters, which every conversion copies, are the route's id; its     *)
(* nginx annotations are a record of their own.                            *)
(***************************************************************************)
EXTENDS Integers

Malformed == -1         \* a duration that the pattern does not match
LongestSeconds == 99999 \* the pattern takes five digits

Plain == [protocol |-> "", cookie |-> FALSE, read |-> 0, send |-> 0, critical |-> FALSE]
NoClass == "none"       \* a nil IngressClassName

NoPolicy == [managed |-> FALSE, grpc |-> FALSE, idle |-> 0]

OrElse(value, zero, default) == IF value = zero THEN default ELSE value
RoutePathValue(path) == OrElse(path, "", "/")
RouteBackendPort(port) == OrElse(port, 0, 8080)

(***************************************************************************)
(* From a Route.                                                           *)
(***************************************************************************)
ParseTimeoutSeconds(value) == IF value > 0 THEN value ELSE 0

ResolveStreamIdleTimeout(route, default) ==
  LET read == ParseTimeoutSeconds(route.nginx.read)
      send == ParseTimeoutSeconds(route.nginx.send)
      longer == IF read >= send THEN read ELSE send
  IN IF route.idle # 0 THEN route.idle
     ELSE IF default # 0 THEN default
     ELSE IF longer <= LongestSeconds THEN longer ELSE Malformed

\* NoPolicy if the route needs none; a Malformed timeout is an error.
ToBackendTrafficPolicy(route, default) ==
  LET idle == ResolveStreamIdleTimeout(route, default)
      grpc == route.nginx.protocol = "GRPC"
  IN IF ~grpc /\ idle = 0 THEN NoPolicy
     ELSE [managed |-> TRUE, grpc |-> grpc, idle |-> idle]

PathMatchType(pathType) == IF pathType = "Exact" THEN "Exact" ELSE "PathPrefix"

\* The cookie of an affinity becomes session persistence.
BuildHTTPRouteRule(route) ==
  [pathType |-> PathMatchType(route.pathType), path |-> RoutePathValue(route.path),
   port |-> RouteBackendPort(route.port), persistent |-> route.nginx.cookie]

\* The nginx annotations are dropped.
ToHTTPRoute(route) == [id |-> route.id, rule |-> BuildHTTPRouteRule(route)]

ToIngressNetworkingV1(route) ==
  [id |-> route.id, pathType |-> OrElse(route.pathType, "", "Prefix"),
   path |-> RoutePathValue(route.path), port |-> RouteBackendPort(route.port),
   class |-> route.class, nginx |-> route.nginx, ignore |-> FALSE]

ToIngress(route) ==
  [id |-> route.id, pathType |-> "", path |-> route.path,
   port |-> RouteBackendPort(route.port),
   class |-> route.class, nginx |-> route.nginx, ignore |-> FALSE]

(***************************************************************************)
(* Back to a Route.  A stream idle timeout has no place in an Ingress.     *)
(***************************************************************************)
RouteFromIngress(ingress) ==
  [id |-> ingress.id, pathType |-> ingress.pathType, path |-> ingress.path,
   port |-> ingress.port, class |-> ingress.class, idle |-> 0, nginx |-> ingress.nginx]

\* Mutant: the protocol in the policy is not restored.
NoProtocolMutant(route, policy) ==
  IF ~policy.managed THEN route ELSE [route EXCEPT !.idle = policy.idle]

ApplyManagedBackendTrafficPolicy(route, policy) ==
  IF ~policy.managed THEN route
  ELSE [route EXCEPT !.idle = policy.idle,
                     !.nginx.protocol = IF policy.grpc THEN "GRPC" ELSE @]

RouteFromHTTPRouteWithPolicy(http, policy) ==
  ApplyManagedBackendTrafficPolicy(
    [id |-> http.id, pathType |-> http.rule.pathType, path |-> http.rule.path,
     port |-> http.rule.port, class |-> NoClass, idle |-> 0, nginx |-> Plain],
    policy)
=============================================================================
