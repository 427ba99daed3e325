------------------------------- MODULE Admin -------------------------------
(***************************************************************************)
(* The admin HTTP endpoint of src/components/admin.rs.                     *)
(*                                                                         *)
(* Admin::server starts a thread with a current-thread runtime whose       *)
(* block_on runs the accept loop: every accepted connection gets a task of *)
(* its own that serves it with handle_request.  `accept().await?` ends the *)
(* loop on the first accept error; http_task.await? then returns from      *)
(* block_on, the runtime is dropped, and with it every connection task     *)
(* that has not finished.                                                  *)
(*                                                                         *)
(* handle_request routes on (method, path).  /ready and /readyz answer 200 *)
(* when Admin::is_ready holds and 500 otherwise; in Proxy mode is_ready is *)
(* proxy.is_ready(), and when that is None whether the cluster map has an  *)
(* endpoint.  The metrics, liveness and config-dump handlers can fail     *)
(* with 500; which one does is chosen when the request is handled.         *)
(*                                                                         *)
(* A profile request takes two steps: collect_pprof builds a ProfilerGuard *)
(* and sleeps for the requested duration with it held, other connections  *)
(* being served meanwhile, then reports, encodes and gzips the profile.   *)
(* The pprof crate keeps one process-wide profiler: building a guard while *)
(* another is live fails (its `Running` error), and dropping the guard     *)
(* stops the profiler.  The duration itself is not modelled: any number of *)
(* steps of the other connections can happen during the sleep.             *)
(***************************************************************************)
EXTENDS Naturals

CONSTANTS
    Clients,    \* HTTP clients, one request each
    Mode,       \* the Admin variant: "Proxy", "Relay", "Manage" or "Agent"
    Linux       \* cfg(target_os = "linux")

ASSUME AdminAssumption ==
    /\ Mode \in {"Proxy", "Relay", "Manage", "Agent"}
    /\ Linux \in BOOLEAN

Methods == {"GET", "POST"}
Paths == {"/metrics", "/live", "/livez", "/debug/pprof/profile", "/ready",
          "/readyz", "/config", "/other"}
Requests == [method : Methods, path : Paths]
NoRequest == [method |-> "none", path |-> "none"]

\* Connection states: waiting in the listener's backlog, being served by
\* its task, answered, or dropped with the runtime.
ConnStates == {"idle", "queued", "serving", "profiling", "answered", "dropped"}

VARIABLES
    listening,     \* the accept loop is running
    conn,          \* conn[c]: state of client c's connection
    req,           \* req[c]: its request
    status,        \* status[c]: the status code it was answered with
    hasEndpoints,  \* config.clusters.read().has_endpoints()
    proxyReady,    \* proxy.is_ready(): "none", "true" or "false"
    profiler       \* the clients whose task holds a live ProfilerGuard

vars == <<listening, conn, req, status, hasEndpoints, proxyReady, profiler>>

Init ==
    /\ listening = TRUE
    /\ conn = [c \in Clients |-> "idle"]
    /\ req = [c \in Clients |-> NoRequest]
    /\ status = [c \in Clients |-> 0]
    /\ hasEndpoints \in BOOLEAN
    /\ proxyReady \in {"none", "true", "false"}
    /\ profiler = {}

\* Admin::is_ready.  The readiness of the other modes is not in these
\* sources; it is taken to be whatever the cluster map says.
IsReady ==
    IF Mode = "Proxy"
    THEN IF proxyReady = "none" THEN hasEndpoints ELSE proxyReady = "true"
    ELSE hasEndpoints

\* check_readiness.
CheckReadiness == IF IsReady THEN 200 ELSE 500

\* collect_metrics: the Prometheus text encoding and then the UTF-8
\* conversion may fail; either failure leaves the response at 500.
CollectMetrics(encodeOk, utf8Ok) == IF encodeOk /\ utf8Ok THEN 200 ELSE 500

\* The /config arm: serde_json::to_string of the config, 500 on an error.
ConfigDump(serializeOk) == IF serializeOk THEN 200 ELSE 500

\* The steps of collect_pprof after the sleep that return an error with
\* `?`: guard.report().build(), .pprof(), prost encode, the gzip encoder,
\* the copy into it, finish, and the response builder.
PprofSteps == {"report", "pprof", "encode", "gzip", "copy", "finish", "build"}

\* collect_pprof's result after the sleep, given the steps that failed:
\* handle_request turns an Err into 500.
CollectPprofEnd(failed) == IF failed = {} THEN 200 ELSE 500

\* The profile route exists only on Linux (#[cfg(target_os = "linux")]).
IsProfile(r) == r.method = "GET" /\ r.path = "/debug/pprof/profile" /\ Linux

\* A router that only knows /ready, not /readyz.
HandleRequestNoReadyz(r) ==
    IF r.method # "GET" THEN {404}
    ELSE CASE r.path = "/metrics" -> {CollectMetrics(e, u) : e, u \in BOOLEAN}
           [] r.path \in {"/live", "/livez"} -> {200, 500}
           [] r.path = "/config" -> {ConfigDump(ok) : ok \in BOOLEAN}
           [] r.path = "/ready" -> {CheckReadiness}
           [] OTHER -> {404}

\* The status codes handle_request can answer r with, for every route but
\* the profile one (ProfileStart, ProfileEnd).  Health::check_liveness is
\* not in these sources: it may answer 200 or 500.
HandleRequest(r) ==
    IF r.method # "GET" THEN {404}
    ELSE CASE r.path = "/metrics" -> {CollectMetrics(e, u) : e, u \in BOOLEAN}
           [] r.path \in {"/live", "/livez"} -> {200, 500}
           [] r.path = "/config" -> {ConfigDump(ok) : ok \in BOOLEAN}
           [] r.path \in {"/ready", "/readyz"} -> {CheckReadiness}
           [] OTHER -> {404}

\* A client connects to the bound listener and sends its request; once the
\* listener is dropped a connect is refused and never reaches the endpoint.
Connect(c) ==
    /\ listening
    /\ conn[c] = "idle"
    /\ \E r \in Requests : req' = [req EXCEPT ![c] = r]
    /\ conn' = [conn EXCEPT ![c] = "queued"]
    /\ UNCHANGED <<listening, status, hasEndpoints, proxyReady, profiler>>

\* accept_stream.accept() returns the connection; a task is spawned for it.
Accept(c) ==
    /\ listening
    /\ conn[c] = "queued"
    /\ conn' = [conn EXCEPT ![c] = "serving"]
    /\ UNCHANGED <<listening, req, status, hasEndpoints, proxyReady, profiler>>

\* accept() fails: the `?` ends the loop and drops the listener, whose
\* backlog is reset; block_on returns, and dropping the runtime cancels the
\* connection tasks that are still serving; a profile task dropped in its
\* sleep drops its guard.
AcceptFails ==
    /\ listening
    /\ listening' = FALSE
    /\ conn' = [c \in Clients |->
                 IF conn[c] \in {"queued", "serving", "profiling"}
                 THEN "dropped" ELSE conn[c]]
    /\ profiler' = {}
    /\ UNCHANGED <<req, status, hasEndpoints, proxyReady>>

\* The connection task runs handle_request and writes the response.
Respond(c) ==
    /\ listening
    /\ conn[c] = "serving"
    /\ ~IsProfile(req[c])
    /\ \E s \in HandleRequest(req[c]) : status' = [status EXCEPT ![c] = s]
    /\ conn' = [conn EXCEPT ![c] = "answered"]
    /\ UNCHANGED <<listening, req, hasEndpoints, proxyReady, profiler>>

\* collect_pprof up to its sleep: ProfilerGuardBuilder::build either gives
\* a guard, which the task holds while it sleeps, or fails and the request
\* is answered 500 at once.  It always fails while another guard is live.
ProfileStart(c) ==
    /\ listening
    /\ conn[c] = "serving"
    /\ IsProfile(req[c])
    /\ \/ /\ profiler = {}
          /\ profiler' = {c}
          /\ conn' = [conn EXCEPT ![c] = "profiling"]
          /\ UNCHANGED status
       \/ /\ status' = [status EXCEPT ![c] = 500]
          /\ conn' = [conn EXCEPT ![c] = "answered"]
          /\ UNCHANGED profiler
    /\ UNCHANGED <<listening, req, hasEndpoints, proxyReady>>

\* The sleep ends: the profile is reported, encoded and gzipped, and the
\* guard is dropped when collect_pprof returns, on success and on error.
ProfileEnd(c) ==
    /\ listening
    /\ conn[c] = "profiling"
    /\ \E failed \in SUBSET PprofSteps :
          status' = [status EXCEPT ![c] = CollectPprofEnd(failed)]
    /\ conn' = [conn EXCEPT ![c] = "answered"]
    /\ profiler' = profiler \ {c}
    /\ UNCHANGED <<listening, req, hasEndpoints, proxyReady>>

\* The cluster map gains or loses its last endpoint (a discovery update).
ClustersChange ==
    /\ hasEndpoints' = ~hasEndpoints
    /\ UNCHANGED <<listening, conn, req, status, proxyReady, profiler>>

\* The proxy's own readiness changes.
ProxyReadyChange ==
    /\ \E p \in {"none", "true", "false"} \ {proxyReady} : proxyReady' = p
    /\ UNCHANGED <<listening, conn, req, status, hasEndpoints, profiler>>

Next ==
    \/ \E c \in Clients :
          Connect(c) \/ Accept(c) \/ Respond(c) \/ ProfileStart(c) \/ ProfileEnd(c)
    \/ AcceptFails
    \/ ClustersChange
    \/ ProxyReadyChange

\* The runtime polls the accept loop and every spawned task.
Fairness ==
    \A c \in Clients :
        /\ WF_vars(Accept(c)) /\ WF_vars(Respond(c))
        /\ WF_vars(ProfileStart(c)) /\ WF_vars(ProfileEnd(c))

Spec == Init /\ [][Next]_vars
FairSpec == Spec /\ Fairness

-----------------------------------------------------------------------------
\* An answer is given for the request it answers.
Answers(c) == conn[c] \in {"serving", "profiling"} /\ conn'[c] = "answered"

\* The routes of the spec's table that this build serves: the profile
\* route only on Linux.
KnownPaths ==
    Paths \ ({"/other"} \cup IF Linux THEN {} ELSE {"/debug/pprof/profile"})

\* The admin routes of the spec (section 6), on every answer handle_request
\* gives: a non-GET request or an unknown path is 404, a known GET route
\* is never 404, and /ready and /readyz are 200 exactly when the proxy is
\* ready at the moment the request is handled (its own readiness when it
\* reports one, otherwise whether the cluster map has an endpoint).
RoutesAsSpecified ==
    [][\A c \in Clients :
         Answers(c) =>
           LET r == req[c] IN
           /\ (r.method # "GET" \/ r.path \notin KnownPaths) => status'[c] = 404
           /\ (r.method = "GET" /\ r.path \in KnownPaths) => status'[c] # 404
           /\ (r.method = "GET" /\ r.path \in {"/ready", "/readyz"})
                 => (status'[c] = 200 <=> IsReady)]_vars

\* Every request the admin endpoint has accepted is eventually answered:
\* once a connection task has been spawned for it, handle_request runs to
\* its response (spec section 6 lists no way for a served request to be
\* abandoned).
EveryRequestAnswered ==
    \A c \in Clients :
        conn[c] \in {"serving", "profiling"} ~> conn[c] = "answered"
=============================================================================
