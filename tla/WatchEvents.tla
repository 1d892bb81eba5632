----------------------------- MODULE WatchEvents -----------------------------
(***************************************************************************)
(* The events of a watch request to the API server, as the watch loop      *)
(* (RestWatch) and the readers of its channel (SharedWatch) see them, and  *)
(* what happens to them when a request ends and is repeated.               *)
(***************************************************************************)
EXTENDS Naturals, SequencesExt

CONSTANTS
  Objects,   \* names of the watched objects
  NoObject   \* the name in a BOOKMARK event

ASSUME ObjectsAssumption == IsFiniteSet(Objects) /\ NoObject \notin Objects

Event == [type : {"ADDED", "MODIFIED", "DELETED", "BOOKMARK"},
          obj : Objects \cup {NoObject}, rv : Nat, gen : Nat]
Ordinary == {e \in Event : e.type # "BOOKMARK"}

Absent == [rv |-> 0, gen |-> 0]   \* an object that does not exist

EventOf(type, o, obj) == [type |-> type, obj |-> o, rv |-> obj.rv, gen |-> obj.gen]
Bookmark(rv) == [type |-> "BOOKMARK", obj |-> NoObject, rv |-> rv, gen |-> 0]

\* What a request without a resource version starts with: every object of the
\* store as ADDED, in any order.
Listings(store) ==
  {[i \in DOMAIN names |-> EventOf("ADDED", names[i], store[names[i]])] :
     names \in SetToSeqs({o \in Objects : store[o] # Absent})}

\* At most the one event in the buffer of the loop's channel outlives the
\* request it came from: what may be left of the events under way.
Buffered(stream) ==
  {SubSeq(stream, 1, n) : n \in {m \in 0 .. 1 : m <= Len(stream)}}

\* The version of the last BOOKMARK that the loop has put in the buffer.
LastBookmark(kept, before) ==
  IF kept # <<>> /\ Head(kept).type = "BOOKMARK" THEN Head(kept).rv ELSE before

\* After an ERROR a BOOKMARK in the buffer is no place to resume from any more.
Forgotten(kept) ==
  [i \in DOMAIN kept |-> IF kept[i].type = "BOOKMARK" THEN Bookmark(0) ELSE kept[i]]

\* What a request that resumes from a BOOKMARK starts with.  The version of a
\* change is its place in the log.
Replay(log, bookmark) == SubSeq(log, bookmark + 1, Len(log))
=============================================================================
