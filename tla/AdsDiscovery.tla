---------------------------- MODULE AdsDiscovery ----------------------------
(***************************************************************************)
(* What the xDS client of src/src/xds/ads_client.rs promises, stated       *)
(* without its tasks, channels or backoff.  The client opens aggregated    *)
(* discovery streams one after another.  Its ClusterManager queues         *)
(* requests (ACKs and NACKs); the first request a management server        *)
(* receives on a stream is the wildcard subscription, and every later one  *)
(* is the oldest request still queued: requests reach the servers in the   *)
(* order they were queued, each at most once.  A queued request may be     *)
(* lost (a stream ends with it undelivered, or run returns while sending   *)
(* it), but is never reordered, repeated or sent again later.  The client  *)
(* stops once, with one outcome, and opens no stream and queues nothing    *)
(* after it has stopped; requests already on the current stream may still *)
(* reach the server.  The shutdown signal can come at any time.            *)
(*                                                                         *)
(* AdsClient shows the detailed model implements this one under the        *)
(* refinement mapping given there (DiscoveryRefinement).                   *)
(***************************************************************************)
EXTENDS Naturals, Sequences

CONSTANTS
    Requests,   \* the requests a client can send
    Wildcard,   \* the initial wildcard subscription, one of them
    Outcomes    \* the values the client can stop with

VARIABLES
    streams,    \* how many streams have been opened
    queue,      \* requests queued and neither received nor lost, oldest first
    sent,       \* the requests servers received, as <<stream, request>>
    stopped,    \* the client has stopped
    outcome,    \* what it stopped with
    signalled   \* the shutdown signal was given

vars == <<streams, queue, sent, stopped, outcome, signalled>>

\* Some request was already received on stream s.
Opened(s) == \E i \in 1 .. Len(sent) : sent[i][1] = s

\* q without its elements i .. j.
Cut(q, i, j) == SubSeq(q, 1, i - 1) \o SubSeq(q, j + 1, Len(q))

\* r is q having lost one run of consecutive requests.
IsCut(q, r) == \E i, j \in 1 .. Len(q) : i <= j /\ r = Cut(q, i, j)

Init ==
    /\ streams = 0
    /\ queue = << >>
    /\ sent = << >>
    /\ stopped = FALSE
    /\ outcome \notin Outcomes
    /\ signalled = FALSE

\* A new stream replaces the current one; only a running client opens one.
OpenStream ==
    /\ ~stopped
    /\ streams' = streams + 1
    /\ UNCHANGED <<queue, sent, stopped, outcome, signalled>>

\* A running client queues request r.
Issue(r) ==
    /\ ~stopped
    /\ queue' = Append(queue, r)
    /\ UNCHANGED <<streams, sent, stopped, outcome, signalled>>

\* A server receives r on the current stream: the wildcard request first,
\* then the oldest queued request.
Send(r) ==
    /\ streams > 0
    /\ IF Opened(streams)
       THEN /\ queue # << >>
            /\ r = Head(queue)
            /\ queue' = Tail(queue)
       ELSE /\ r = Wildcard
            /\ UNCHANGED queue
    /\ sent' = Append(sent, <<streams, r>>)
    /\ UNCHANGED <<streams, stopped, outcome, signalled>>

\* A run of consecutive queued requests is lost.
Lose ==
    /\ IsCut(queue, queue')
    /\ UNCHANGED <<streams, sent, stopped, outcome, signalled>>

\* The client stops with outcome o, losing the request it was sending, if
\* any.
Stop(o) ==
    /\ ~stopped
    /\ stopped' = TRUE
    /\ outcome' = o
    /\ IsCut(queue, queue') \/ queue' = queue
    /\ UNCHANGED <<streams, sent, signalled>>

Signal ==
    /\ ~signalled
    /\ signalled' = TRUE
    /\ UNCHANGED <<streams, queue, sent, stopped, outcome>>

Next ==
    \/ OpenStream
    \/ \E r \in Requests : Issue(r) \/ Send(r)
    \/ Lose
    \/ \E o \in Outcomes : Stop(o)
    \/ Signal

Spec == Init /\ [][Next]_vars
=============================================================================
