------------------------------ MODULE MCRoutes ------------------------------
(***************************************************************************)
(* Small instances of RouteOps for TLC.                                    *)
(***************************************************************************)
EXTENDS RouteProperties, TLC

Route(id, pathType, class, idle, nginx) ==
  [id |-> id, pathType |-> pathType, path |-> "", port |-> 0, class |-> class,
   idle |-> idle, nginx |-> nginx]

\* A GRPC route with a timeout from its annotations; a plain route, which needs
\* no policy unless there is a default; a route that Gateway API refuses.
Grpc == Route("grpc", "", NoClass, 0,
              [Plain EXCEPT !.protocol = "GRPC", !.read = 5, !.send = 3, !.cookie = TRUE])
Bare == Route("plain", "Exact", "nginx", 0, [Plain EXCEPT !.read = -1])
TooLong == Route("long", "", NoClass, 0, [Plain EXCEPT !.send = 100000])
ThreeRoutes == {Grpc, Bare, TooLong}

System(gw, ing, networkingV1, bg2, policies, idle, watching) ==
  [gateway |-> gw, ingress |-> ing, networkingV1 |-> networkingV1,
   bg2 |-> bg2, policies |-> policies, idle |-> idle,
   watching |-> watching]
AllSystems ==
  {System(TRUE, FALSE, TRUE, FALSE, TRUE, 0, TRUE), System(TRUE, FALSE, TRUE, FALSE, FALSE, 0, FALSE),
   System(FALSE, TRUE, TRUE, TRUE, FALSE, 0, FALSE), System(FALSE, TRUE, FALSE, FALSE, FALSE, 0, FALSE),
   System(TRUE, TRUE, TRUE, FALSE, TRUE, 9, FALSE), System(FALSE, FALSE, TRUE, FALSE, FALSE, 0, FALSE)}
Symmetry == Permutations(Callers)
=============================================================================
