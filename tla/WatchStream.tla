----------------------------- MODULE WatchStream -----------------------------
(***************************************************************************)
(* What a watch connection promises to the reader of its channel: a stream *)
(* of the cluster's changes that starts with a listing, that loses nothing *)
(* unless it is listed again, and that repeats nothing but what came after *)
(* its last BOOKMARK.  The connections of SharedWatch take these steps.    *)
(***************************************************************************)
EXTENDS WatchEvents

VARIABLES
  store, log,  \* the cluster's objects, and the history of their changes
  stream,      \* what the reader has still to receive
  bookmark,    \* version of the last BOOKMARK that it received
  status       \* "none", "open" or "closed"

streamVars == <<store, log, stream, bookmark, status>>

Init ==
  /\ store = [o \in Objects |-> Absent] /\ log = <<>>
  /\ stream = <<>> /\ bookmark = 0 /\ status = "none"

Change(type, o) ==
  LET obj == [rv |-> Len(log) + 1, gen |-> 0]
      e == EventOf(type, o, obj)
  IN
  /\ type = "ADDED" <=> store[o] = Absent
  /\ store' = [store EXCEPT ![o] = IF type = "DELETED" THEN Absent ELSE obj]
  /\ log' = Append(log, e)
  /\ stream' = IF status = "open" THEN Append(stream, e) ELSE stream
  /\ UNCHANGED <<bookmark, status>>

Open ==
  /\ status = "none" /\ status' = "open"
  /\ stream' \in Listings(store)
  /\ UNCHANGED <<store, log, bookmark>>

SendBookmark ==
  /\ status = "open"
  /\ stream' = Append(stream, Bookmark(Len(log)))
  /\ UNCHANGED <<store, log, bookmark, status>>

Relist ==
  /\ status = "open"
  /\ \E kept \in Buffered(stream), list \in Listings(store) :
       stream' = Forgotten(kept) \o list
  /\ bookmark' = 0
  /\ UNCHANGED <<store, log, status>>

Resume ==
  /\ status = "open"
  /\ \E kept \in Buffered(stream) :
       LET from == LastBookmark(kept, bookmark) IN
       from # 0 /\ stream' = kept \o Replay(log, from)
  /\ UNCHANGED <<store, log, bookmark, status>>

Close ==
  /\ status = "open" /\ status' = "closed"
  /\ stream' \in Buffered(stream)
  /\ UNCHANGED <<store, log, bookmark>>

Receive ==
  /\ stream # <<>>
  /\ stream' = Tail(stream)
  /\ bookmark' = LastBookmark(stream, bookmark)
  /\ UNCHANGED <<store, log, status>>

Next ==
  \/ \E o \in Objects, type \in {"ADDED", "MODIFIED", "DELETED"} : Change(type, o)
  \/ Open \/ SendBookmark \/ Relist \/ Resume \/ Close \/ Receive

Spec == Init /\ [][Next]_streamVars
=============================================================================
