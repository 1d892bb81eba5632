---------------------------- MODULE CrudProperties ----------------------------
(***************************************************************************)
(* What the operations of CrudOps promise.                                 *)
(***************************************************************************)
EXTENDS CrudOps

\* A change of what Get returned loses nobody's contribution, also when Get
\* answered from the cache: the version it read goes with it into the update
\* (adapterForCrud.go 134-160, metadata.go 27-56).
NoUpdateLost == \A n \in Names : due[n] \subseteq store[n].data

\* A change of an object that is deleted meanwhile does not bring it back
\* (adapterForCrud.go 143-145: Create takes the entity with the version it has).
CreatedAfresh ==
  [][\A n \in Names : store[n] = Absent => Cardinality(store'[n].data) <= 1]_vars

Items(objects) == {[name |-> n, object |-> objects[n]] : n \in {m \in Names : objects[m] # Absent}}

\* A list is one state of the server, between its call and its return, also when
\* its continuation expired and it began again (adapterForCrud.go 54-104).
ListIsSnapshot ==
  \A c \in Callers :
    At(c, "done") /\ call[c].op = "list" /\ call[c].outcome = "ok"
      => \E objects \in past : call[c].page = Items(objects)

\* From 1.24 on the wait for a token returns a secret with a token, unless there was
\* a secret before, and reads no nil pointer unless somebody deletes the secret
\* while it waits (secret.go 66-101).  Before, the secret that the account names is
\* returned, unless somebody deletes it in between (secret.go 106-131).
TokenIsThere ==
  \A c \in Callers :
    /\ call[c].op = "token" /\ At(c, "panic") => call[c].deleted
    /\ call[c].op = "token" /\ call[c].outcome = "ok" /\ ~call[c].found
         => "token" \in call[c].entity.data
    /\ call[c].op = "account" /\ call[c].outcome = "ok" /\ ~call[c].deleted
         => call[c].entity # Absent
=============================================================================
