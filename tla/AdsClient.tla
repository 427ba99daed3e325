------------------------------ MODULE AdsClient ------------------------------
(***************************************************************************)
(* The xDS aggregated-discovery client of src/src/xds/ads_client.rs.      *)
(*                                                                         *)
(* Three tasks share the state below.                                      *)
(*   - the main task: AdsClient::run, the reconnect loop, and inside it    *)
(*     run_rpc_session (connect, initial CDS request, send loop);          *)
(*   - the receive task spawned by run_receive_loop, which owns the        *)
(*     ResourceHandlers (the ClusterManager) and the backoff while the     *)
(*     stream lives and hands them back when it ends;                      *)
(*   - the signal task of cli/run.rs that sends on the shutdown watch.     *)
(* The gRPC transport and the management servers are the environment:     *)
(* connects, stream opens, responses and stream ends are nondeterministic. *)
(*                                                                         *)
(* The ClusterManager (src/xds/cluster.rs) is not in this repository; its  *)
(* ACK/NACK bookkeeping is modelled from the spec (section 4.5).           *)
(* The exponential backoff (crate backoff) is modelled from the spec too:  *)
(* the current interval and the time elapsed since the last reset, with    *)
(* jitter left out.                                                        *)
(***************************************************************************)
EXTENDS Naturals, Sequences

CONSTANTS
    NumServers,       \* length of the configured management_servers list
    BadUrl,           \* indices of servers whose connect fails with "invalid url"
    Versions,         \* resource versions a server can send (0 is "" = none)
    ChanCap,          \* capacity of the discovery_req and rpc_tx channels (100)
    MaxFaults,        \* bound on transport faults: failed connects, opens, stream ends
    MaxResponses,     \* bound on responses received over the whole run
    InitialInterval,  \* backoff initial interval
    Multiplier,       \* backoff multiplier
    MaxInterval,      \* backoff max interval
    MaxElapsed        \* backoff max elapsed time since the last reset

Servers == 0 .. NumServers - 1

\* Config validation (config/mod.rs, Source::validate) rejects an empty
\* management_servers list, so the `%` in run never divides by zero.
ASSUME ConstantsAssumption ==
    /\ NumServers \in Nat \ {0}
    /\ BadUrl \subseteq Servers
    /\ Versions \subseteq Nat \ {0}
    /\ ChanCap \in Nat \ {0}
    /\ MaxFaults \in Nat
    /\ MaxResponses \in Nat
    /\ InitialInterval \in Nat \ {0}
    /\ Multiplier \in Nat \ {0}
    /\ MaxInterval \in Nat /\ InitialInterval <= MaxInterval
    /\ MaxElapsed \in Nat

CDS == "cluster"
EDS == "endpoint"
OtherType == "other"
ResourceTypes == {CDS, EDS}

NoVersion == 0
NoNonce == 0
Nonces == 0 .. MaxResponses
VersionOrNone == Versions \cup {NoVersion}

\* A DiscoveryRequest: node identity and resource names are left out.
Request == [type : ResourceTypes, version : VersionOrNone, nonce : Nonces,
            nack : BOOLEAN]

\* send_initial_cds_request: empty version_info, wildcard, empty nonce.
InitialRequest == [type |-> CDS, version |-> NoVersion, nonce |-> NoNonce,
                   nack |-> FALSE]

NoRequest == [type |-> OtherType]

Backoffs == [cur : 1 .. MaxInterval, elapsed : 0 .. MaxElapsed + MaxInterval]
FreshBackoff == [cur |-> InitialInterval, elapsed |-> 0]

Min2(a, b) == IF a <= b THEN a ELSE b

MainPhases == {"Loop", "Connecting", "SendInitial", "SendLoop", "Forwarding",
               "Backoff", "Stopped"}
RecvPhases == {"None", "Opening", "Running", "Acking", "Exited"}
Results == {"none", "ok", "err_invalid_url", "err_backoff", "err_nonrecoverable"}

VARIABLES
    pc,               \* main task: where AdsClient::run is
    result,           \* the ExecutionResult run returned
    nextServer,       \* next_server_index (mod NumServers)
    server,           \* index of the server of the current attempt
    backoff,          \* the backoff value the main task holds
    forwardReq,       \* the request the send loop is sending on rpc_tx
    recv,             \* receive task: where run_receive_loop is
    recvResult,       \* what the receive task returned ("ok" | "receive_err")
    recvBackoff,      \* the backoff moved into the receive task
    pendingAck,       \* the ACK/NACK the ClusterManager is sending on discovery_req
    streamResponded,  \* a response arrived since this attempt began (history)
    connected,        \* this attempt's connect succeeded (history)
    cm,               \* ClusterManager per-type last accepted version and nonce
    applied,          \* ClusterMap: the version of each type last applied
    discReq,          \* discovery_req channel (lives across sessions)
    rpcTx,            \* rpc_tx channel of the current session
    rpcRxOpen,        \* the request stream still holds rpc_rx
    stream,           \* id of the current stream (0 before the first)
    nonceStream,      \* nonceStream[n]: the stream on which nonce n was sent
    delivered,        \* requests the servers received, as <<stream, request>>
    faults,           \* transport faults so far
    delay,            \* the delay of the last backoff sleep
    shutdown          \* the shutdown watch has been signalled

vars == <<pc, result, nextServer, server, backoff, forwardReq, recv, recvResult,
          recvBackoff, pendingAck, streamResponded, cm, applied, discReq, rpcTx,
          rpcRxOpen, stream, nonceStream, delivered, faults, delay, shutdown,
          connected>>

recvVars == <<recv, recvResult, recvBackoff, pendingAck, streamResponded, cm,
              applied, nonceStream, connected>>

-----------------------------------------------------------------------------
(* ClusterManager, modelled from the spec (not under src/).                *)

\* on_reconnect: forget the per-type version and nonce.
ClearedCm == [t \in ResourceTypes |-> [version |-> NoVersion, nonce |-> NoNonce]]

\* on_cluster_response / on_cluster_load_assignment_response: an accepted
\* response is applied and ACKed with its version and nonce; a rejected one
\* leaves the map alone and is NACKed with the previous accepted version.
OnResponse(t, v, ok, n) ==
    IF ok
    THEN /\ cm' = [cm EXCEPT ![t] = [version |-> v, nonce |-> n]]
         /\ applied' = [applied EXCEPT ![t] = v]
         /\ pendingAck' = [type |-> t, version |-> v, nonce |-> n, nack |-> FALSE]
    ELSE /\ cm' = [cm EXCEPT ![t] = [version |-> cm[t].version, nonce |-> n]]
         /\ pendingAck' = [type |-> t, version |-> cm[t].version, nonce |-> n,
                           nack |-> TRUE]
         /\ UNCHANGED applied

-----------------------------------------------------------------------------
(* Backoff, modelled from the spec (crate backoff, not under src/).        *)

\* next_backoff returns None once more than MaxElapsed has elapsed.
BackoffExhausted(b) == b.elapsed > MaxElapsed

\* Mutant of AfterSleep: the interval grows without the max_interval cap.
AfterSleepUncapped(b) == [cur |-> b.cur * Multiplier, elapsed |-> b.elapsed + b.cur]

\* The backoff after next_backoff returned b.cur and the task slept for it.
AfterSleep(b) == [cur |-> Min2(b.cur * Multiplier, MaxInterval),
                  elapsed |-> b.elapsed + b.cur]

\* log_error_and_backoff: sleep, or give up with BackoffLimitExceeded.
LogErrorAndBackoff(b) ==
    IF BackoffExhausted(b)
    THEN /\ pc' = "Stopped"
         /\ result' = "err_backoff"
         /\ UNCHANGED <<backoff, delay>>
    ELSE /\ pc' = "Backoff"
         /\ delay' = b.cur
         /\ backoff' = AfterSleep(b)
         /\ UNCHANGED result

-----------------------------------------------------------------------------
Init ==
    /\ pc = "Loop"
    /\ result = "none"
    /\ nextServer = 0
    /\ server = 0
    /\ backoff = FreshBackoff
    /\ forwardReq = NoRequest
    /\ recv = "None"
    /\ recvResult = "none"
    /\ recvBackoff = FreshBackoff
    /\ pendingAck = NoRequest
    /\ streamResponded = FALSE
    /\ connected = FALSE
    /\ cm = ClearedCm
    /\ applied = [t \in ResourceTypes |-> NoVersion]
    /\ discReq = << >>
    /\ rpcTx = << >>
    /\ rpcRxOpen = FALSE
    /\ stream = 0
    /\ nonceStream = << >>
    /\ delivered = << >>
    /\ faults = 0
    /\ delay = 0
    /\ shutdown = FALSE

-----------------------------------------------------------------------------
(* Main task.                                                              *)

\* StartAttempt with the server index advanced without wrapping around.
StartAttemptNoWrap ==
    /\ pc \in {"Loop", "Backoff"}
    /\ pc' = "Connecting"
    /\ cm' = ClearedCm
    /\ server' = nextServer
    /\ nextServer' = nextServer + 1
    /\ streamResponded' = FALSE
    /\ connected' = FALSE
    /\ UNCHANGED <<result, backoff, forwardReq, recv, recvResult, recvBackoff,
                   pendingAck, applied, discReq, rpcTx,
                   rpcRxOpen, stream, nonceStream, delivered, faults, delay,
                   shutdown>>

\* Top of the loop in run, entered first or when the backoff sleep ends:
\* on_reconnect, pick the server round-robin, start run_rpc_session.
StartAttempt ==
    /\ pc \in {"Loop", "Backoff"}
    /\ pc' = "Connecting"
    /\ cm' = ClearedCm
    /\ server' = nextServer
    /\ nextServer' = (nextServer + 1) % NumServers
    /\ streamResponded' = FALSE
    /\ connected' = FALSE
    /\ UNCHANGED <<result, backoff, forwardReq, recv, recvResult, recvBackoff,
                   pendingAck, applied, discReq, rpcTx,
                   rpcRxOpen, stream, nonceStream, delivered, faults, delay,
                   shutdown>>

\* AggregatedDiscoveryServiceClient::connect fails (InitialConnect): an
\* invalid URL ends run at once, anything else backs off and retries.
ConnectFails ==
    /\ pc = "Connecting"
    /\ \/ /\ server \in BadUrl
          /\ pc' = "Stopped"
          /\ result' = "err_invalid_url"
          /\ UNCHANGED <<backoff, delay, faults>>
       \/ /\ server \notin BadUrl
          /\ faults < MaxFaults
          /\ faults' = faults + 1
          /\ LogErrorAndBackoff(backoff)
    /\ UNCHANGED <<nextServer, server, forwardReq, recvVars, discReq, rpcTx,
                   rpcRxOpen, stream, delivered, shutdown>>

\* Mutant of ConnectOk: rpc_tx is created once and reused by every session.
ConnectOkReusesChannel ==
    /\ pc = "Connecting"
    /\ server \notin BadUrl
    /\ pc' = "SendInitial"
    /\ stream' = stream + 1
    /\ rpcRxOpen' = TRUE
    /\ recv' = "Opening"
    /\ recvResult' = "none"
    /\ recvBackoff' = backoff
    /\ connected' = TRUE
    /\ UNCHANGED <<result, nextServer, server, backoff, forwardReq, pendingAck,
                   streamResponded, cm, applied, discReq, nonceStream, delivered,
                   faults, delay, shutdown, rpcTx>>

\* connect succeeds: create rpc_tx/rpc_rx and spawn the receive loop, which
\* takes the handlers and the backoff with it.
ConnectOk ==
    /\ pc = "Connecting"
    /\ server \notin BadUrl
    /\ pc' = "SendInitial"
    /\ stream' = stream + 1
    /\ rpcTx' = << >>
    /\ rpcRxOpen' = TRUE
    /\ recv' = "Opening"
    /\ recvResult' = "none"
    /\ recvBackoff' = backoff
    /\ connected' = TRUE
    /\ UNCHANGED <<result, nextServer, server, backoff, forwardReq, pendingAck,
                   streamResponded, cm, applied, discReq, nonceStream, delivered,
                   faults, delay, shutdown>>

\* send_initial_cds_request: fails as NonRecoverable if rpc_rx is gone.
SendInitial ==
    /\ pc = "SendInitial"
    /\ \/ /\ rpcRxOpen
          /\ Len(rpcTx) < ChanCap
          /\ rpcTx' = Append(rpcTx, InitialRequest)
          /\ pc' = "SendLoop"
          /\ UNCHANGED result
       \/ /\ ~rpcRxOpen
          /\ pc' = "Stopped"
          /\ result' = "err_nonrecoverable"
          /\ UNCHANGED rpcTx
    /\ UNCHANGED <<nextServer, server, backoff, forwardReq, recvVars, discReq,
                   rpcRxOpen, stream, delivered, faults, delay, shutdown>>

\* Mutant of SendLoopJoin: the backoff the receive task reset is not handed
\* back; the main task keeps backing off with its own copy.
SendLoopJoinStaleBackoff ==
    /\ pc = "SendLoop"
    /\ recv = "Exited"
    /\ recv' = "None"
    /\ \/ /\ recvResult = "ok"
          /\ pc' = "Stopped"
          /\ result' = "ok"
          /\ UNCHANGED <<backoff, delay>>
       \/ /\ recvResult = "receive_err"
          /\ LogErrorAndBackoff(backoff)
    /\ UNCHANGED <<nextServer, server, forwardReq, recvResult, recvBackoff,
                   pendingAck, streamResponded, cm, applied, nonceStream,
                   discReq, rpcTx, rpcRxOpen, stream, delivered, faults,
                   shutdown, connected>>

\* The send loop's select takes the result of the finished receive task:
\* Ok ends run with Ok, a Receive error gets the handlers and backoff back
\* and backs off.
SendLoopJoin ==
    /\ pc = "SendLoop"
    /\ recv = "Exited"
    /\ recv' = "None"
    /\ \/ /\ recvResult = "ok"
          /\ pc' = "Stopped"
          /\ result' = "ok"
          /\ UNCHANGED <<backoff, delay>>
       \/ /\ recvResult = "receive_err"
          /\ LogErrorAndBackoff(recvBackoff)
    /\ UNCHANGED <<nextServer, server, forwardReq, recvResult, recvBackoff,
                   pendingAck, streamResponded, cm, applied, nonceStream,
                   discReq, rpcTx, rpcRxOpen, stream, delivered, faults,
                   shutdown, connected>>

\* The send loop's select takes a request from discovery_req.
SendLoopRecv ==
    /\ pc = "SendLoop"
    /\ discReq # << >>
    /\ forwardReq' = Head(discReq)
    /\ discReq' = Tail(discReq)
    /\ pc' = "Forwarding"
    /\ UNCHANGED <<result, nextServer, server, backoff, recvVars, rpcTx,
                   rpcRxOpen, stream, delivered, faults, delay, shutdown>>

\* Mutant of Forward: a send on a closed rpc_tx puts the request back on
\* discovery_req to be retried on the next stream.
ForwardRequeues ==
    /\ pc = "Forwarding"
    /\ \/ /\ rpcRxOpen
          /\ Len(rpcTx) < ChanCap
          /\ rpcTx' = Append(rpcTx, forwardReq)
          /\ UNCHANGED discReq
       \/ /\ ~rpcRxOpen
          /\ discReq' = Append(discReq, forwardReq)
          /\ UNCHANGED rpcTx
    /\ pc' = "SendLoop"
    /\ forwardReq' = NoRequest
    /\ UNCHANGED <<result, nextServer, server, backoff, recvVars, rpcRxOpen,
                   stream, delivered, faults, delay, shutdown>>

\* rpc_tx.send(req).await: waits for room, fails as NonRecoverable once
\* rpc_rx has been dropped.
Forward ==
    /\ pc = "Forwarding"
    /\ \/ /\ rpcRxOpen
          /\ Len(rpcTx) < ChanCap
          /\ rpcTx' = Append(rpcTx, forwardReq)
          /\ pc' = "SendLoop"
          /\ UNCHANGED result
       \/ /\ ~rpcRxOpen
          /\ pc' = "Stopped"
          /\ result' = "err_nonrecoverable"
          /\ UNCHANGED rpcTx
    /\ forwardReq' = NoRequest
    /\ UNCHANGED <<nextServer, server, backoff, recvVars, discReq, rpcRxOpen,
                   stream, delivered, faults, delay, shutdown>>

\* The select in run takes the shutdown branch while run_rpc_session is
\* pending; the session future (and its JoinHandle) is dropped, the receive
\* task is not aborted.
MainShutdown ==
    /\ pc \in {"Connecting", "SendInitial", "SendLoop", "Forwarding"}
    /\ shutdown
    /\ pc' = "Stopped"
    /\ result' = "ok"
    /\ UNCHANGED <<nextServer, server, backoff, forwardReq, recvVars, discReq,
                   rpcTx, rpcRxOpen, stream, delivered, faults, delay, shutdown>>

-----------------------------------------------------------------------------
(* Receive task (run_receive_loop).                                        *)

\* stream_aggregated_resources fails: the task returns a Receive error.
RecvOpenFails ==
    /\ recv = "Opening"
    /\ faults < MaxFaults
    /\ faults' = faults + 1
    /\ recv' = "Exited"
    /\ recvResult' = "receive_err"
    /\ UNCHANGED <<pc, result, nextServer, server, backoff, forwardReq,
                   recvBackoff, pendingAck, streamResponded, cm, applied,
                   discReq, rpcTx, rpcRxOpen, stream, nonceStream, delivered,
                   delay, shutdown, connected>>

RecvOpenOk ==
    /\ recv = "Opening"
    /\ recv' = "Running"
    /\ UNCHANGED <<pc, result, nextServer, server, backoff, forwardReq,
                   recvResult, recvBackoff, pendingAck, streamResponded, cm,
                   applied, discReq, rpcTx, rpcRxOpen, stream, nonceStream,
                   delivered, faults, delay, shutdown, connected>>

\* A response arrives: reset the backoff, then dispatch on type_url.
RecvResponse ==
    /\ recv = "Running"
    /\ Len(nonceStream) < MaxResponses
    /\ \E t \in ResourceTypes \cup {OtherType}, v \in Versions, ok \in BOOLEAN :
          LET n == Len(nonceStream) + 1 IN
          /\ nonceStream' = Append(nonceStream, stream)
          /\ recvBackoff' = FreshBackoff
          /\ streamResponded' = TRUE
          /\ IF t = OtherType
             THEN UNCHANGED <<recv, cm, applied, pendingAck>>
             ELSE /\ OnResponse(t, v, ok, n)
                  /\ recv' = "Acking"
    /\ UNCHANGED <<pc, result, nextServer, server, backoff, forwardReq,
                   recvResult, discReq, rpcTx, rpcRxOpen, stream, delivered,
                   faults, delay, shutdown, connected>>

\* The ClusterManager's send on discovery_req completes: it waits for room,
\* and fails (the request is lost) once run has returned and dropped the
\* receiver.
RecvAck ==
    /\ recv = "Acking"
    /\ \/ /\ pc # "Stopped"
          /\ Len(discReq) < ChanCap
          /\ discReq' = Append(discReq, pendingAck)
       \/ /\ pc = "Stopped"
          /\ UNCHANGED discReq
    /\ recv' = "Running"
    /\ pendingAck' = NoRequest
    /\ UNCHANGED <<pc, result, nextServer, server, backoff, forwardReq,
                   recvResult, recvBackoff, streamResponded, cm, applied,
                   rpcTx, rpcRxOpen, stream, nonceStream, delivered, faults,
                   delay, shutdown, connected>>

\* response_stream.message() ends: Ok(None) returns Ok, Err returns a
\* Receive error with the (possibly reset) backoff.
RecvStreamEnds ==
    /\ recv = "Running"
    /\ faults < MaxFaults
    /\ faults' = faults + 1
    /\ recv' = "Exited"
    /\ recvResult' \in {"ok", "receive_err"}
    /\ UNCHANGED <<pc, result, nextServer, server, backoff, forwardReq,
                   recvBackoff, pendingAck, streamResponded, cm, applied,
                   discReq, rpcTx, rpcRxOpen, stream, nonceStream, delivered,
                   delay, shutdown, connected>>

\* Mutant of RecvShutdown: the receive loop does not select on shutdown.
RecvShutdownIgnored ==
    /\ FALSE
    /\ UNCHANGED vars

\* The receive loop's select takes the shutdown branch and returns Ok.
RecvShutdown ==
    /\ recv = "Running"
    /\ shutdown
    /\ recv' = "Exited"
    /\ recvResult' = "ok"
    /\ UNCHANGED <<pc, result, nextServer, server, backoff, forwardReq,
                   recvBackoff, pendingAck, streamResponded, cm, applied,
                   discReq, rpcTx, rpcRxOpen, stream, nonceStream, delivered,
                   faults, delay, shutdown, connected>>

-----------------------------------------------------------------------------
(* Environment: the gRPC transport and the signal task.                    *)

\* The request stream sends the head of rpc_tx to the server.
Deliver ==
    /\ recv \in {"Opening", "Running", "Acking"}
    /\ rpcTx # << >>
    /\ delivered' = Append(delivered, <<stream, Head(rpcTx)>>)
    /\ rpcTx' = Tail(rpcTx)
    /\ UNCHANGED <<pc, result, nextServer, server, backoff, forwardReq,
                   recvVars, discReq, rpcRxOpen, stream, faults, delay,
                   shutdown>>

\* Once the stream is over, the transport drops the request stream and with
\* it rpc_rx, so later sends on rpc_tx fail.
DropRequestStream ==
    /\ recv \in {"Exited", "None"}
    /\ rpcRxOpen
    /\ rpcRxOpen' = FALSE
    /\ UNCHANGED <<pc, result, nextServer, server, backoff, forwardReq,
                   recvVars, discReq, rpcTx, stream, delivered, faults, delay,
                   shutdown>>

\* cli/run.rs: SIGINT or SIGTERM makes the signal task send on the watch.
SignalShutdown ==
    /\ ~shutdown
    /\ shutdown' = TRUE
    /\ UNCHANGED <<pc, result, nextServer, server, backoff, forwardReq,
                   recvVars, discReq, rpcTx, rpcRxOpen, stream, delivered,
                   faults, delay>>

\* run has returned and the receive task is gone.
Terminated == pc = "Stopped" /\ recv \in {"None", "Exited"}

Done == Terminated /\ shutdown /\ ~rpcRxOpen /\ UNCHANGED vars

-----------------------------------------------------------------------------
Next ==
    \/ StartAttempt \/ ConnectFails \/ ConnectOk \/ SendInitial
    \/ SendLoopJoin \/ SendLoopRecv \/ Forward \/ MainShutdown
    \/ RecvOpenFails \/ RecvOpenOk \/ RecvResponse \/ RecvAck
    \/ RecvStreamEnds \/ RecvShutdown
    \/ Deliver \/ DropRequestStream \/ SignalShutdown
    \/ Done

\* The tokio scheduler runs every ready task; a select whose branches are
\* both ready picks one at random, so a branch that is ready infinitely
\* often is eventually taken (strong fairness on the shutdown branches).
\* The transport eventually moves queued requests into the request stream.
\* Nothing is assumed of the server: it need not answer, and the open of
\* stream_aggregated_resources (no timeout is configured, and it is not
\* raced with shutdown_rx) need never complete, so RecvOpenOk and
\* RecvOpenFails get no fairness.
Fairness ==
    /\ WF_vars(StartAttempt) /\ WF_vars(SendInitial)
    /\ WF_vars(SendLoopJoin) /\ WF_vars(SendLoopRecv) /\ WF_vars(Forward)
    /\ WF_vars(RecvAck) /\ WF_vars(Deliver) /\ WF_vars(DropRequestStream)
    /\ SF_vars(MainShutdown) /\ SF_vars(RecvShutdown)

Spec == Init /\ [][Next]_vars

FairSpec == Spec /\ Fairness

-----------------------------------------------------------------------------
\* The Boolean-valued variables (kept apart: the provers handle them best
\* on their own).
TypeFlags ==
    /\ streamResponded \in BOOLEAN
    /\ connected \in BOOLEAN
    /\ rpcRxOpen \in BOOLEAN
    /\ shutdown \in BOOLEAN

\* The other variables.
TypeData ==
    /\ pc \in MainPhases
    /\ result \in Results
    /\ nextServer \in Servers
    /\ server \in Servers
    /\ backoff \in Backoffs
    /\ forwardReq \in Request \cup {NoRequest}
    /\ recv \in RecvPhases
    /\ recvResult \in {"none", "ok", "receive_err"}
    /\ recvBackoff \in Backoffs
    /\ pendingAck \in Request \cup {NoRequest}
    /\ cm \in [ResourceTypes -> [version : VersionOrNone, nonce : Nonces]]
    /\ applied \in [ResourceTypes -> VersionOrNone]
    /\ discReq \in Seq(Request)
    /\ rpcTx \in Seq(Request)
    /\ stream \in Nat
    /\ nonceStream \in Seq(Nat)
    /\ Len(nonceStream) <= MaxResponses
    /\ delivered \in Seq(Nat \X Request)
    /\ faults \in 0 .. MaxFaults
    /\ delay \in 0 .. MaxInterval
    /\ recv = "Acking" => pendingAck \in Request
    /\ pc = "Forwarding" => forwardReq \in Request

\* Type invariant: every variable holds a value of its type; the backoff
\* interval stays within max_interval, and the request the send loop or the
\* ClusterManager is in the middle of sending is a real DiscoveryRequest.
TypeOK == TypeData /\ TypeFlags


-----------------------------------------------------------------------------
(* Properties.                                                             *)

\* Every stream starts with a full wildcard subscription: the first request
\* a management server receives on a stream is the initial CDS request of
\* send_initial_cds_request, whatever is still queued from earlier sessions.
FirstRequestIsWildcard ==
    \A i \in 1 .. Len(delivered) :
        (\A j \in 1 .. i - 1 : delivered[j][1] # delivered[i][1])
            => delivered[i][2] = InitialRequest

\* Backoff (spec 4.5 step 6, property 7): each sleep after an attempt that
\* received a response is the initial interval (the receive task reset the
\* backoff and handed it back); otherwise the delay never shrinks.
BackoffDelays ==
    [][pc' = "Backoff" =>
        IF streamResponded THEN delay' = InitialInterval ELSE delay' >= delay]_vars

\* Spec 8.7 as worded: a successful connect resets the delay to the initial
\* value, so every sleep after an attempt whose connect succeeded is the
\* initial interval.
BackoffResetOnConnect ==
    [][pc' = "Backoff" /\ connected => delay' = InitialInterval]_vars

\* Spec 4.5 step 2 and property 6: requests carry the version and nonce of
\* responses on the current stream; no stale ACK/NACK of an earlier stream
\* is sent on a new one.
NoStaleNonce ==
    \A i \in 1 .. Len(delivered) :
        delivered[i][2].nonce # NoNonce
            => nonceStream[delivered[i][2].nonce] = delivered[i][1]

\* Spec 4.5 step 7: run returns Ok only after the shutdown signal; the end
\* of a stream is folded into reconnect.
OkOnlyOnShutdown ==
    result = "ok" => shutdown

\* Spec section 7: the only fatal discovery errors are an invalid URL and an
\* exhausted backoff; a transient stream error never ends run with an error.
FatalOnlyInvalidUrlOrBackoff ==
    result # "err_nonrecoverable"

\* Once shutdown is signalled run returns, whatever the server does, and a
\* receive task whose stream is open (in its select loop, or awaiting the
\* ClusterManager) exits.  A receive task still awaiting the stream open
\* is not raced with shutdown and may outlive run: no claim is made of it.
ShutdownTerminates ==
    /\ shutdown ~> pc = "Stopped"
    /\ (shutdown /\ recv \in {"Running", "Acking"}) ~> recv = "Exited"

-----------------------------------------------------------------------------
(* Inductive invariant for FirstRequestIsWildcard.                          *)

\* Some request has already been delivered on stream s.
SentOn(s) == \E i \in 1 .. Len(delivered) : delivered[i][1] = s

\* Why the first request of every stream is the wildcard one: deliveries
\* are tagged with the current stream, whose number only grows (ConnectOk);
\* a fresh stream starts with an empty rpc_tx into which
\* send_initial_cds_request puts the initial request before the send loop
\* forwards anything; so until the first delivery on the current stream
\* the head of rpc_tx, if any, is the initial request.
WildcardInv ==
    /\ \A i \in 1 .. Len(delivered) : delivered[i][1] <= stream
    /\ ~SentOn(stream) => (rpcTx = << >> \/ Head(rpcTx) = InitialRequest)
    /\ pc = "SendInitial" => rpcTx = << >>
    /\ pc \in {"SendLoop", "Forwarding"} => (SentOn(stream) \/ rpcTx # << >>)
    /\ FirstRequestIsWildcard
-----------------------------------------------------------------------------
(* Inductive invariant for BackoffDelays.                                   *)

\* Why each sleep is either the initial interval or no shorter than the
\* last: the backoff run holds never shrinks below the last delay; between
\* attempts there is no receive task; a fresh attempt has seen no
\* response; once a response arrived the receive task's copy is the reset
\* one, and until then it is the copy run handed over at spawn; and a sleep
\* after a response lasts the initial interval.
BackoffInv ==
    /\ delay <= backoff.cur
    /\ pc \in {"Loop", "Backoff", "Connecting"} => recv = "None"
    /\ pc = "Connecting" => ~streamResponded
    /\ streamResponded => recvBackoff = FreshBackoff
    /\ (recv # "None" /\ ~streamResponded) => recvBackoff = backoff
    /\ (pc = "Backoff" /\ streamResponded) => delay = InitialInterval

-----------------------------------------------------------------------------
(* Refinement of the abstract discovery client (AdsDiscovery).              *)

\* A stream's number is only used once a connect made it (run_rpc_session
\* spawns the receive task right after connect).
StreamInv == recv # "None" => stream >= 1

-----------------------------------------------------------------------------
(* Refinement mapping onto AdsDiscovery.                                   *)

\* The receive task holds an open stream, so rpc_tx still drains into it.
StreamLive == recv \in {"Opening", "Running", "Acking"}

\* The ClusterManager's requests in rpc_tx that can still reach the server:
\* none once the stream is over, and never the initial request.
RpcTxQueued ==
    IF ~StreamLive THEN << >>
    ELSE IF rpcTx # << >> /\ ~SentOn(stream) THEN Tail(rpcTx) ELSE rpcTx

\* The request the send loop is in the middle of forwarding.
InForward == IF pc = "Forwarding" THEN << forwardReq >> ELSE << >>

\* The ClusterManager's requests still on their way, oldest first.
QueuedRequests == RpcTxQueued \o InForward \o discReq

Abstract == INSTANCE AdsDiscovery WITH
    Requests <- Request,
    Wildcard <- InitialRequest,
    Outcomes <- Results \ {"none"},
    streams <- stream,
    queue <- QueuedRequests,
    sent <- delivered,
    stopped <- (pc = "Stopped"),
    outcome <- result,
    signalled <- shutdown

\* The ADS client implements AdsDiscovery: streams are opened only while
\* run loops; the first request a management server receives on a stream
\* is the wildcard CDS subscription, and every later one is the oldest of
\* the ClusterManager's requests still on its way, so across the shared
\* discovery_req channel, the per-stream rpc_tx channels and reconnects
\* the requests reach the servers in the order they were queued, at most
\* once each, losing only runs of consecutive requests when a stream ends
\* or run returns; run returns exactly once.
DiscoveryRefinement == Abstract!Spec
=============================================================================
