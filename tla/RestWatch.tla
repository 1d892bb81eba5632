------------------------------ MODULE RestWatch ------------------------------
(***************************************************************************)
(* The watch loop of RestWatchEventHandler (kubeWatchService.go): one      *)
(* goroutine forwards the events of a watch request to a channel with room *)
(* for one event, repeats the request when it ends, from the version of    *)
(* the last BOOKMARK if there was one, and closes the channel at its end.  *)
(*                                                                         *)
(* The API server and the reader of the channel are its environment.  An   *)
(* event that the loop forwards carries the number of its request.         *)
(***************************************************************************)
EXTENDS WatchEvents

CONSTANTS
  WatchBookmark,   \* does the reader ask for BOOKMARK events?
  MaxVersion, MaxRequests, MaxBookmarks   \* bounds on the API server

ASSUME RestWatchAssumption ==
  /\ WatchBookmark \in BOOLEAN
  /\ MaxVersion \in Nat /\ MaxRequests \in Nat \ {0} /\ MaxBookmarks \in Nat

VARIABLES
  \* the API server: objects, history of their changes, requests it serves,
  \* changes it has sent to the latest one
  store, log, alive, sent, bookmarksLeft,
  \* the result channel of the latest request: events under way, not closed
  api, apiOpen,
  \* the loop: number of requests, the watcher variable (0 is nil), the event
  \* it sends, the version to resume from
  pc, requests, watcher, hand, bookmark,
  base,            \* the first request since everything was last listed
  \* clientResultChannel, and its reader
  channel, ctxDone, reading, received

serverVars == <<store, log, alive, sent, bookmarksLeft>>
apiVars == <<api, apiOpen>>
loopVars == <<pc, requests, watcher, hand, bookmark, base>>
readerVars == <<channel, ctxDone, reading, received>>
vars == <<serverVars, apiVars, loopVars, readerVars>>

\* What a result channel carries besides events: an ERROR, a BOOKMARK without a
\* version, an event with an object of another type.
Controls == {"ERROR", "UNSUPPORTED", "INVALID"}
Control(type) == [type |-> type, obj |-> NoObject, rv |-> 0, gen |-> 0]
Nothing == [event |-> Control("ERROR"), req |-> 0]

Init ==
  /\ store = [o \in Objects |-> Absent] /\ log = <<>>
  /\ alive = {} /\ sent = 0 /\ bookmarksLeft = MaxBookmarks
  /\ api = <<>> /\ apiOpen = FALSE
  /\ pc = "none" /\ requests = 0 /\ watcher = 0 /\ hand = Nothing
  /\ bookmark = 0 /\ base = 0
  /\ channel = <<>> /\ ctxDone = FALSE /\ reading = TRUE /\ received = <<>>

(***************************************************************************)
(* The API server.                                                         *)
(***************************************************************************)
Change(type, o) ==
  LET obj == [rv |-> Len(log) + 1, gen |-> 0] IN
  /\ Len(log) < MaxVersion
  /\ type = "ADDED" <=> store[o] = Absent
  /\ store' = [store EXCEPT ![o] = IF type = "DELETED" THEN Absent ELSE obj]
  /\ log' = Append(log, EventOf(type, o, obj))
  /\ UNCHANGED <<alive, sent, bookmarksLeft, apiVars, loopVars, readerVars>>

\* It sends nothing after an ERROR.
Serving == requests \in alive /\ \A i \in DOMAIN api : api[i].type # "ERROR"

Transmit ==
  /\ Serving /\ sent < Len(log)
  /\ sent' = sent + 1
  /\ api' = Append(api, log[sent + 1])
  /\ UNCHANGED <<store, log, alive, bookmarksLeft, apiOpen, loopVars, readerVars>>

SendBookmark ==
  /\ Serving /\ sent = Len(log)
  /\ bookmarksLeft > 0 /\ bookmarksLeft' = bookmarksLeft - 1
  /\ api' = Append(api, Bookmark(sent))
  /\ UNCHANGED <<store, log, alive, sent, apiOpen, loopVars, readerVars>>

SendControl ==
  /\ Serving
  /\ \A i \in DOMAIN api : api[i].type \notin Controls
  /\ \E type \in Controls : api' = Append(api, Control(type))
  /\ UNCHANGED <<serverVars, apiOpen, loopVars, readerVars>>

\* The request ends: by its timeout, or because the connection is lost.
EndRequest ==
  /\ requests \in alive
  /\ alive' = alive \ {requests}
  /\ apiOpen' = FALSE
  /\ UNCHANGED <<store, log, sent, bookmarksLeft, api, loopVars, readerVars>>

(***************************************************************************)
(* doWatchRequest.                                                         *)
(***************************************************************************)
\* Mutant: a request without a version is not answered with a listing.
FromNowMutant(version) == {<<>>}

\* What the server answers to begin with.
FirstEvents(version) == IF version = 0 THEN Listings(store) ELSE {<<>>}

Requested(version) ==
  /\ requests < MaxRequests
  /\ requests' = requests + 1 /\ watcher' = requests + 1
  /\ alive' = alive \cup {requests + 1}
  /\ api' \in FirstEvents(version) /\ apiOpen' = TRUE
  /\ sent' = IF version = 0 THEN Len(log) ELSE version
  /\ base' = IF version = 0 THEN requests + 1 ELSE base

(***************************************************************************)
(* Watch, up to the start of the loop; an error is returned.               *)
(***************************************************************************)
Watch ==
  /\ pc = "none" /\ pc' = "select"
  /\ Requested(0)
  /\ UNCHANGED <<store, log, bookmarksLeft, hand, bookmark, readerVars>>

WatchError ==
  /\ pc = "none" /\ pc' = "refused"
  /\ UNCHANGED <<serverVars, apiVars, requests, watcher, hand, bookmark, base, readerVars>>

(***************************************************************************)
(* The loop.                                                               *)
(***************************************************************************)
\* Mutant: the loop does not look at its context.
NeverDoneMutant == FALSE

Done == ctxDone

SeeDone ==
  /\ pc = "select" /\ Done
  /\ pc' = "close"
  /\ UNCHANGED <<serverVars, apiVars, requests, watcher, hand, bookmark, base, readerVars>>

\* The next event of the result channel; select prefers no branch.
NextIs(type) == pc = "select" /\ api # <<>> /\ Head(api).type = type

Take(e) ==
  /\ api' = Tail(api)
  /\ hand' = [event |-> e, req |-> requests]
  /\ pc' = "send"

TakeEvent ==
  /\ \E type \in {"ADDED", "MODIFIED", "DELETED"} : NextIs(type)
  /\ Take(Head(api))
  /\ UNCHANGED <<serverVars, apiOpen, requests, watcher, bookmark, base, readerVars>>

\* Mutant: the BOOKMARK is taken for one version later.
TooLateMutant(e) == e.rv + 1

VersionOf(e) == e.rv

TakeBookmark ==
  /\ NextIs("BOOKMARK")
  /\ bookmark' = VersionOf(Head(api))
  /\ IF WatchBookmark THEN Take(Head(api))
     ELSE api' = Tail(api) /\ UNCHANGED <<hand, pc>>
  /\ UNCHANGED <<serverVars, apiOpen, requests, watcher, base, readerVars>>

TakeUnsupported ==
  /\ NextIs("UNSUPPORTED")
  /\ bookmark' = 0 /\ api' = Tail(api)
  /\ UNCHANGED <<serverVars, apiOpen, pc, requests, watcher, hand, base, readerVars>>

TakeInvalid ==
  /\ NextIs("INVALID")
  /\ api' = Tail(api) /\ pc' = "close"
  /\ UNCHANGED <<serverVars, apiOpen, requests, watcher, hand, bookmark, base, readerVars>>

\* Mutant: the old request goes on when the new one is made.
NotStoppedMutant == alive

Stopped == alive \ {watcher}   \* watcher.Stop()

\* The loop sleeps before it repeats the request, whatever happens meanwhile.
TakeError ==
  /\ NextIs("ERROR")
  /\ alive' = Stopped /\ api' = <<>> /\ apiOpen' = FALSE
  /\ bookmark' = 0 /\ pc' = "connect"
  /\ UNCHANGED <<store, log, sent, bookmarksLeft, requests, watcher, hand, base, readerVars>>

SeeEnd ==
  /\ pc = "select" /\ api = <<>> /\ ~apiOpen
  /\ pc' = "connect"
  /\ UNCHANGED <<serverVars, apiVars, requests, watcher, hand, bookmark, base, readerVars>>

Reconnect ==
  /\ pc = "connect" /\ ~ctxDone /\ pc' = "select"
  /\ Requested(bookmark)
  /\ UNCHANGED <<store, log, bookmarksLeft, hand, bookmark, readerVars>>

\* The request is refused, as it is when the context is done: the watcher is
\* nil, the reader is told, and the loop ends.
ReconnectError ==
  /\ pc = "connect" /\ pc' = "fail"
  /\ watcher' = 0
  /\ hand' = [event |-> Control("ERROR"), req |-> requests]
  /\ UNCHANGED <<serverVars, apiVars, requests, bookmark, base, readerVars>>

\* The sends wait for room in the channel, and for nothing else.
Send ==
  /\ pc \in {"send", "fail"} /\ channel = <<>>
  /\ channel' = <<hand>>
  /\ pc' = IF pc = "send" THEN "select" ELSE "close"
  /\ UNCHANGED <<serverVars, apiVars, requests, watcher, hand, bookmark, base, ctxDone,
                 reading, received>>

\* The deferred function closes the channel, then it stops the watcher.
CloseChannel ==
  /\ pc = "close" /\ pc' = "stop"
  /\ UNCHANGED <<serverVars, apiVars, requests, watcher, hand, bookmark, base, readerVars>>

StopWatcher ==
  /\ pc = "stop" /\ pc' = "done"
  /\ alive' = Stopped
  /\ UNCHANGED <<store, log, sent, bookmarksLeft, apiVars, requests, watcher, hand,
                 bookmark, base, readerVars>>

(***************************************************************************)
(* The reader of the channel: StopWatching, or the end of its own context, *)
(* and the end of its reading, which comes with neither or after both.     *)
(***************************************************************************)
Cancel ==
  /\ pc \notin {"none", "refused"} /\ ~ctxDone
  /\ ctxDone' = TRUE
  /\ UNCHANGED <<serverVars, apiVars, loopVars, channel, reading, received>>

Leave ==
  /\ ctxDone /\ reading /\ reading' = FALSE
  /\ UNCHANGED <<serverVars, apiVars, loopVars, channel, ctxDone, received>>

Receive ==
  /\ reading /\ channel # <<>>
  /\ channel' = <<>>
  /\ received' = Append(received, channel[1])
  /\ UNCHANGED <<serverVars, apiVars, loopVars, ctxDone, reading>>

-----------------------------------------------------------------------------
Server ==
  \/ \E o \in Objects, type \in {"ADDED", "MODIFIED", "DELETED"} : Change(type, o)
  \/ Transmit \/ SendBookmark \/ SendControl \/ EndRequest

Loop ==
  \/ SeeDone \/ TakeEvent \/ TakeBookmark \/ TakeUnsupported \/ TakeInvalid \/ TakeError
  \/ SeeEnd \/ Reconnect \/ ReconnectError \/ Send \/ CloseChannel \/ StopWatcher

Reader == Cancel \/ Leave \/ Receive

Next == Server \/ Watch \/ WatchError \/ Loop \/ Reader

Spec == Init /\ [][Next]_vars

\* The loop runs whenever it can, and a reader that reads does receive.  Go's
\* select picks at random: it does not pass over the context for ever.  The
\* server owes nobody an event, an end or an answer.
Fairness == WF_vars(Loop) /\ SF_vars(SeeDone) /\ WF_vars(Receive)

FairSpec == Spec /\ Fairness
=============================================================================
