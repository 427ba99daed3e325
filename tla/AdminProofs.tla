----------------------------- MODULE AdminProofs -----------------------------
(***************************************************************************)
(* Proofs about Admin: every answer the admin endpoint gives follows the   *)
(* spec's route table (RoutesAsSpecified), for every set of clients, mode  *)
(* and build target.                                                       *)
(***************************************************************************)
EXTENDS Admin, TLAPS

\* The types of the variables.
TypeOK ==
    /\ listening \in BOOLEAN
    /\ conn \in [Clients -> ConnStates]
    /\ req \in [Clients -> Requests \cup {NoRequest}]
    /\ status \in [Clients -> Nat]
    /\ hasEndpoints \in BOOLEAN
    /\ proxyReady \in {"none", "true", "false"}
    /\ profiler \subseteq Clients

\* A connection being handled carries a request, and one in its profile
\* sleep carries a profile request.
HandlingInv ==
    \A c \in Clients :
        /\ conn[c] \in {"queued", "serving", "profiling"} => req[c] \in Requests
        /\ conn[c] = "profiling" => IsProfile(req[c])

IInv == TypeOK /\ HandlingInv

-----------------------------------------------------------------------------
(* The invariant.                                                          *)

LEMMA IInvInit == Init => IInv
BY DEF Init, IInv, TypeOK, HandlingInv, ConnStates

LEMMA IInvStep == IInv /\ [Next]_vars => IInv'
<1> SUFFICES ASSUME IInv, [Next]_vars PROVE IInv'
  OBVIOUS
<1> USE DEF IInv, TypeOK, HandlingInv, ConnStates
<1>1. ASSUME NEW c \in Clients, Connect(c) PROVE IInv'
  BY <1>1 DEF Connect
<1>2. ASSUME NEW c \in Clients, Accept(c) PROVE IInv'
  BY <1>2 DEF Accept
<1>3. ASSUME NEW c \in Clients, Respond(c) PROVE IInv'
  <2>1. PICK s \in HandleRequest(req[c]) : status' = [status EXCEPT ![c] = s]
    BY <1>3 DEF Respond
  <2>2. s \in Nat
    BY <2>1, <1>3 DEF HandleRequest, CollectMetrics, ConfigDump, CheckReadiness, Respond
  <2> QED
    BY <1>3, <2>1, <2>2 DEF Respond
<1>4. ASSUME NEW c \in Clients, ProfileStart(c) PROVE IInv'
  BY <1>4 DEF ProfileStart
<1>5. ASSUME NEW c \in Clients, ProfileEnd(c) PROVE IInv'
  <2>1. PICK failed \in SUBSET PprofSteps :
          status' = [status EXCEPT ![c] = CollectPprofEnd(failed)]
    BY <1>5 DEF ProfileEnd
  <2>2. CollectPprofEnd(failed) \in Nat
    BY DEF CollectPprofEnd
  <2> QED
    BY <1>5, <2>1, <2>2 DEF ProfileEnd
<1>6. CASE AcceptFails
  BY <1>6 DEF AcceptFails
<1>7. CASE ClustersChange
  BY <1>7 DEF ClustersChange
<1>8. CASE ProxyReadyChange
  BY <1>8 DEF ProxyReadyChange
<1>9. CASE UNCHANGED vars
  BY <1>9 DEF vars
<1> QED
  BY <1>1, <1>2, <1>3, <1>4, <1>5, <1>6, <1>7, <1>8, <1>9 DEF Next

THEOREM Invariant == Spec => []IInv
BY IInvInit, IInvStep, PTL DEF Spec
-----------------------------------------------------------------------------
(* The route table, one answer at a time.                                  *)

\* What the route table requires of an answer s to request r.
RouteOK(r, s) ==
    /\ (r.method # "GET" \/ r.path \notin KnownPaths) => s = 404
    /\ (r.method = "GET" /\ r.path \in KnownPaths) => s # 404
    /\ (r.method = "GET" /\ r.path \in {"/ready", "/readyz"}) => (s = 200 <=> IsReady)

\* Every status handle_request can give to a request other than a profile
\* one follows the route table.
LEMMA HandleRequestRoutes ==
    ASSUME NEW r \in Requests, ~IsProfile(r), NEW s \in HandleRequest(r)
    PROVE  RouteOK(r, s)
<1>1. CASE r.method # "GET"
  BY <1>1 DEF HandleRequest, RouteOK
<1>2. CASE r.method = "GET" /\ r.path = "/debug/pprof/profile"
  <2>1. ~Linux
    BY <1>2 DEF IsProfile
  <2>2. r.path \notin KnownPaths /\ s = 404
    BY <1>2, <2>1 DEF KnownPaths, HandleRequest
  <2> QED
    BY <1>2, <2>2 DEF RouteOK
<1>3. CASE r.method = "GET" /\ r.path \in {"/ready", "/readyz"}
  <2>1. s = CheckReadiness /\ r.path \in KnownPaths
    BY <1>3 DEF HandleRequest, KnownPaths, Paths
  <2>2. s = 200 <=> IsReady
    BY <2>1 DEF CheckReadiness
  <2>3. s # 404
    BY <2>1 DEF CheckReadiness
  <2> QED
    BY <1>3, <2>1, <2>2, <2>3 DEF RouteOK
<1>4. CASE r.method = "GET" /\ r.path \in {"/metrics", "/live", "/livez", "/config"}
  <2>1. s \in {200, 500} /\ r.path \in KnownPaths
    BY <1>4 DEF HandleRequest, CollectMetrics, ConfigDump, KnownPaths, Paths
  <2> QED
    BY <1>4, <2>1 DEF RouteOK
<1>5. CASE r.method = "GET" /\ r.path = "/other"
  <2>1. s = 404 /\ r.path \notin KnownPaths
    BY <1>5 DEF HandleRequest, KnownPaths
  <2> QED
    BY <1>5, <2>1 DEF RouteOK
<1> QED
  BY <1>1, <1>2, <1>3, <1>4, <1>5 DEF Requests, Paths

\* A profile request is always a GET of a route this build serves.
LEMMA ProfileIsKnown ==
    ASSUME NEW r \in Requests, IsProfile(r)
    PROVE  r.method = "GET" /\ r.path \in KnownPaths /\ r.path \notin {"/ready", "/readyz"}
BY DEF IsProfile, KnownPaths, Paths

\* One step answers a client only by Respond, ProfileStart or ProfileEnd,
\* and each answer follows the route table.
LEMMA RoutesStep ==
    ASSUME IInv, [Next]_vars, NEW c \in Clients, Answers(c)
    PROVE  RouteOK(req[c], status'[c])
<1> USE DEF IInv, TypeOK, HandlingInv
<1>1. CASE Respond(c)
  <2>1. PICK s \in HandleRequest(req[c]) : status' = [status EXCEPT ![c] = s]
    BY <1>1 DEF Respond
  <2>2. req[c] \in Requests /\ ~IsProfile(req[c])
    BY <1>1 DEF Respond, Answers
  <2> QED
    BY <2>1, <2>2, HandleRequestRoutes
<1>2. CASE ProfileStart(c)
  <2>1. status'[c] = 500 /\ req[c] \in Requests /\ IsProfile(req[c])
    BY <1>2 DEF ProfileStart, Answers
  <2> QED
    BY <2>1, ProfileIsKnown DEF RouteOK
<1>3. CASE ProfileEnd(c)
  <2>1. PICK failed \in SUBSET PprofSteps :
          status' = [status EXCEPT ![c] = CollectPprofEnd(failed)]
    BY <1>3 DEF ProfileEnd
  <2>2. status'[c] \in {200, 500} /\ req[c] \in Requests /\ IsProfile(req[c])
    BY <1>3, <2>1 DEF ProfileEnd, CollectPprofEnd
  <2> QED
    BY <2>2, ProfileIsKnown DEF RouteOK
<1>4. CASE ~Respond(c) /\ ~ProfileStart(c) /\ ~ProfileEnd(c)
  \* No other step answers c: the other clients' steps leave conn[c] alone.
  <2>1. conn'[c] # "answered" \/ conn'[c] = conn[c]
    BY <1>4 DEF Next, vars, Connect, Accept, Respond, ProfileStart, ProfileEnd,
              AcceptFails, ClustersChange, ProxyReadyChange
  <2> QED
    BY <2>1 DEF Answers
<1> QED
  BY <1>1, <1>2, <1>3, <1>4

\* RoutesAsSpecified for every value of the constants: whatever the clients
\* send, however readiness changes and whenever the accept loop fails, each
\* answer of handle_request and collect_pprof follows the spec's route
\* table, and /ready and /readyz report readiness when they are handled.
THEOREM Routes == Spec => RoutesAsSpecified
<1>1. IInv /\ [Next]_vars =>
        [\A c \in Clients : Answers(c) => RouteOK(req[c], status'[c])]_vars
  BY RoutesStep
<1>2. [\A c \in Clients : Answers(c) => RouteOK(req[c], status'[c])]_vars
        => [\A c \in Clients :
              Answers(c) =>
                LET r == req[c] IN
                /\ (r.method # "GET" \/ r.path \notin KnownPaths) => status'[c] = 404
                /\ (r.method = "GET" /\ r.path \in KnownPaths) => status'[c] # 404
                /\ (r.method = "GET" /\ r.path \in {"/ready", "/readyz"})
                      => (status'[c] = 200 <=> IsReady)]_vars
  BY DEF RouteOK
<1> QED
  BY <1>1, <1>2, Invariant, PTL DEF Spec, RoutesAsSpecified

=============================================================================
