------------------------- MODULE RestWatchProperties -------------------------
(***************************************************************************)
(* What the watch loop of RestWatch promises to the reader of its channel  *)
(* and to the API server, and that it implements WatchStream.              *)
(***************************************************************************)
EXTENDS RestWatch

\* The API server serves one request at a time, the one the loop listens to,
\* and none once the loop has ended, whichever way it ended.
OneRequest ==
  /\ alive \subseteq {watcher} \ {0}
  /\ pc \in {"connect", "fail", "done"} => alive = {}

\* What the loop has forwarded so far.
Got == received \o channel \o (IF pc = "send" THEN <<hand>> ELSE <<>>)

\* A request resumes from a version up to which the reader got, or will get
\* from the channel, every change since everything was last listed.
Delivered(v) ==
  \E first \in 0 .. v :
    /\ \A i \in first + 1 .. v : \E j \in DOMAIN Got : Got[j].event = log[i]
    /\ \A o \in Objects :
         LET before == {i \in 1 .. first : log[i].obj = o} IN
         before # {} /\ log[Max(before)].type # "DELETED" =>
           \E j \in DOMAIN Got : /\ Got[j].event.obj = o /\ Got[j].req >= base
                                 /\ Got[j].event.rv = Max(before)

ResumesWithoutGap == bookmark # 0 => bookmark <= Len(log) /\ Delivered(bookmark)

\* The last that the reader knows of object o.
Known(o) ==
  LET seen == {i \in DOMAIN received : received[i].event.obj = o}
  IN  IF seen = {} THEN Absent
      ELSE LET e == received[Max(seen)].event
           IN  IF e.type = "DELETED" THEN Absent ELSE [rv |-> e.rv, gen |-> e.gen]

\* Nothing is under way.
Quiet ==
  pc = "select" /\ api = <<>> /\ apiOpen /\ sent = Len(log) /\ channel = <<>>

\* However often the request ended and was repeated, a reader that has received
\* everything knows the cluster: every object that exists in its last version,
\* and, unless everything had to be listed again, no object that is gone.
UpToDate ==
  Quiet => \A o \in Objects :
    /\ store[o] # Absent => Known(o) = store[o]
    /\ base = 1 => Known(o) = store[o]

\* A cancelled watch closes its channel, while its reader goes on reading.
CancelCloses ==
  ctxDone ~> (pc \in {"stop", "done"} \/ ~reading)

-----------------------------------------------------------------------------
(***************************************************************************)
(* The refinement mapping.  The stream is what is in the channel, in the   *)
(* loop's hand and in the result channel, and the changes that the server  *)
(* has still to send.  A BOOKMARK from before the last listing is as good  *)
(* as forgotten.                                                           *)
(***************************************************************************)
Seen(m) ==
  IF m.event.type = "BOOKMARK" /\ m.req < base THEN Bookmark(0) ELSE m.event

\* There is one event at most that the reader does not see.
Visible(events) ==
  IF \E i \in DOMAIN events : events[i].type \in Controls
  THEN RemoveAt(events, CHOOSE i \in DOMAIN events : events[i].type \in Controls)
  ELSE events

status ==
  CASE pc \in {"none", "refused"} -> "none"
    [] pc \in {"close", "stop", "done"} -> "closed"
    [] OTHER -> "open"

stream ==
  LET forwarded == Visible([i \in DOMAIN channel |-> Seen(channel[i])]) IN
  IF status # "open" THEN forwarded
  ELSE forwarded \o (IF pc = "send" THEN <<hand.event>> ELSE <<>>)
         \o Visible(api) \o Replay(log, sent)

readerBookmark ==
  LET marks == {i \in DOMAIN received : received[i].event.type = "BOOKMARK"}
  IN  IF marks = {} THEN 0 ELSE Seen(received[Max(marks)]).rv

Stream == INSTANCE WatchStream WITH bookmark <- readerBookmark

\* The loop implements the stream that SharedWatch reads, when its reader asks
\* for BOOKMARK events.
KeepsStream == Stream!Spec
=============================================================================
