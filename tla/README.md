# TLA+ models of quilkin

This directory holds TLA+ models of the parts of quilkin whose sources are in
`src/src/`, the TLC configurations that check them, and TLAPS proofs. Every
definition is translated from the Rust source. Code that is not under `src/`
(the ClusterManager, the `backoff` crate, `Rule::contains`) is modelled from
`spec.md`, and `PROJECT.json` marks those definitions `spec_modelled`.
`PROJECT.json` also maps every other definition to the source lines it models.

## 1. The system and its parts

| Part | Source | State | Operations | Interacts with |
|---|---|---|---|---|
| xDS ADS client | `xds/ads_client.rs` | main task: loop phase, next server index, backoff, the request being forwarded. Receive task: its phase and its copy of the backoff. Shared: the `discovery_req` channel (capacity 100) and the per-session `rpc_tx`/`rpc_rx` channel (capacity 100) | `run` loop (on_reconnect, server pick, session, error handling), `run_rpc_session` (connect, spawn the receive loop, initial CDS request, send loop), `run_receive_loop` (open the stream, then receive, reset the backoff and dispatch), `log_error_and_backoff` | ClusterManager (sends ACK/NACKs on `discovery_req`), the gRPC transport, the shutdown watch |
| ClusterManager | not under src/ | per type URL: version and nonce; the cluster map | `on_reconnect`, `on_cluster_response`, `on_cluster_load_assignment_response` | ADS client |
| Backoff | `backoff` crate | current interval, elapsed time | `next_backoff`, `reset` | ADS client |
| Firewall filter | `filters/firewall.rs` | `on_read` and `on_write` rule lists (immutable) | `read`, `write` | filter chain |
| Configuration loading | `config.rs`, `config/mod.rs` | the file system, `$QUILKIN_CONFIG` | `find_config_file`, `Config::find`, `Source::validate`, `Testsuite::find`, `Testsuite::from_yaml` | startup; the ADS client relies on a validated non-empty server list |
| Admin endpoint | `components/admin.rs` | the accept loop, the connection tasks, the process-wide profiler | `server` (accept loop), `handle_request`, `is_ready`, `check_readiness`, `collect_metrics`, `collect_pprof` | the cluster map (readiness), the proxy's readiness |
| Run command | `cli/run.rs` | the shutdown watch channel | the signal task | ADS client and every other task that watches shutdown |

Note on versions: the sources come from different versions of quilkin.
`config.rs` and `config/mod.rs` each define `Config` and `Source`, and
`admin.rs` uses a newer `Config` than `ads_client.rs`. Each module follows the
file it models. Two compositions cross function or file boundaries:
- `cli/run.rs` → `ads_client.rs`: the shutdown watch.
- `Config::find` followed by `Source::validate` in ConfigLoad. `Config::find`
  does not call `validate` itself; the code's callers (and its tests) run the
  two one after the other. The model chains them so that its properties can
  speak of a configuration that was both loaded and accepted.

### What is hard in this code

- The ADS client is two concurrent tasks, the main task and the spawned
  receive loop. They share `discovery_req_rx`, which outlives each session, and
  a per-session channel. The backoff is moved into the receive task and handed
  back through the error. A select may find the join handle and a queued
  request ready together, and the shutdown branches race everything else.
- The backoff sleep and the stream open are not raced with shutdown, and
  no timeout is set on the open: a server that never answers it keeps the
  receive task alive after `run` has returned.
- Reconnects go round-robin over servers. An "invalid url" error is
  recognised by string match, and the delay grows until max_elapsed_time.
- Config loading has a chain of fallbacks with an early `?`.
- `Source::validate` checks in a fixed order.
- The admin server's accept loop ends on any accept error, and the runtime
  that runs the accepted connections is dropped with it. A profile
  request holds the process-wide profiler for as long as its query asks, and
  every other profile request fails meanwhile.
- `Testsuite::from_yaml` decides between its two input shapes by whether
  the whole text parses as one TestConfig.

All of these are listed with their source line in `PROJECT.json` ("hazards").

## 2. Modules

### AdsDiscovery.tla (abstract specification of the ADS client)

What the client promises, without tasks, channels or backoff. `streams`
counts the streams opened, `queue` holds the requests the ClusterManager
issued that are not yet sent, and `sent` is what the servers received, as
`<<stream, request>>` pairs. `stopped`/`outcome` say whether and how the
client stopped, and `signalled` whether shutdown was signalled. The actions:
- `OpenStream`, only while running.
- `Issue(r)`: a request joins the end of the queue.
- `Send(r)`: the first request on a stream is the wildcard one; every later
  one is the head of the queue, which leaves it. So requests reach the
  servers in issue order and at most once.
- `Lose`: a run of consecutive queued requests is lost (`IsCut`), as when
  a session ends with requests still in its channel.
- `Stop(o)`, once, possibly losing such a run.
- `Signal`.

AdsClient implements it under the mapping
- `streams <- stream`, `sent <- delivered`,
- `queue <- QueuedRequests`: the requests in `rpc_tx` that are not the
  initial request and whose stream is still live, then the one being
  forwarded, then `discovery_req`,
- `stopped <- (pc = "Stopped")`, `outcome <- result`,
- `signalled <- shutdown`.

This is `DiscoveryRefinement` in AdsClient.tla.

### AdsClient.tla (model of `xds/ads_client.rs`; MCAdsClient.tla for TLC)

Constants: `NumServers`, `BadUrl` (servers whose URL is invalid), `Versions`,
`ChanCap` (capacity of both channels), `MaxFaults` (bound on injected
failures), `MaxResponses` (bound on responses, i.e. on nonces),
`InitialInterval`, `Multiplier`, `MaxInterval`, `MaxElapsed`.

The main task's position in `run`/`run_rpc_session` is `pc`. The values of
`pc` and the actions that leave them:

| pc | action | code |
|---|---|---|
| Loop, Backoff | `StartAttempt` | `run` 120-144: `on_reconnect`, round-robin pick |
| Connecting | `ConnectFails` | InitialConnect arm, 154-167, and `log_error_and_backoff`. Whether the error is the "invalid url" one is the server's membership of `BadUrl`: the code matches tonic's error text, which the sources do not contain |
| Connecting | `ConnectOk` | 205-226: fresh `rpc_tx`/`rpc_rx`, spawn the receive loop with the backoff |
| SendInitial | `SendInitial` | `send_initial_cds_request` |
| SendLoop | `SendLoopJoin` | join-handle branch of the select, then the match in `run` (146-176) |
| SendLoop | `SendLoopRecv` | takes the head of `discovery_req` |
| Forwarding | `Forward` | `rpc_tx.send`, NonRecoverable when `rpc_rx` is gone |
| any | `MainShutdown` | shutdown branch of `run`'s select |

The receive task's phase is `recv` (Opening, Running, Acking, Exited). Its
actions are `RecvOpenFails`/`RecvOpenOk` (stream open; the server may also
never answer it), `RecvResponse` (a
response: nonce, `backoff.reset()`, dispatch by type), `RecvAck` (the
ClusterManager's ACK/NACK send), `RecvStreamEnds` (`Ok(None)` or `Err`) and
`RecvShutdown`.

The environment actions are `Deliver` (the transport sends the head of
`rpc_tx` to the server, recorded in `delivered`), `DropRequestStream` (the
transport drops `rpc_rx` once the stream is over) and `SignalShutdown` (the
signal task of `cli/run.rs`).

Data is abstracted as follows:
- A DiscoveryRequest is a record of type, version, nonce and nack.
- Nonces are response numbers, and `nonceStream[n]` is the stream response n
  came on.
- Versions are small naturals.
- The backoff is an integer interval without jitter, with elapsed time
  counted in intervals.

### Firewall.tla (model of `filters/firewall.rs`; MCFirewall.tla)

The rule lists are chosen in `Init` (`Firewall::new`). `Read(addr)` and
`Write(addr)` evaluate `Evaluate`, the `for` loop, written as a recursive
function over the index. The loop keeps the per-iteration
`to_socket_addr()?`, so an unresolvable source gives an error only when the
list is not empty. The run checks `Evaluate` against a reference definition
`RefOutcome` that is written without a loop: the first matching rule, found
with `SelectInSeq`.

### ConfigLoad.tla (model of `config.rs` and `config/mod.rs`; MCConfigLoad.tla)

The file system (`exists`, `readable` per location) and the environment are
the initial state. The actions run in this order:
1. `FindConfigFile` (`find_config_file`).
2. `ParseConfig` (`serde_yaml::from_str`: any document, or bad YAML).
3. `Validate` (`Source::validate`).

`Source::validate` is modelled by `FirstError` over the list of its checks in
code order (`EmptyCheck`, `UniqueCheck`, `EntryCheck`).

### Testsuite.tla (model of `Testsuite::find`/`from_yaml` in `config.rs`; MCTestsuite.tla)

Testsuite EXTENDS ConfigLoad. `TestsuiteFind` is `find_config_file`, and
`FromYaml` is `from_yaml` on the text read.

A file is a sequence of up to `MaxDocs` abstract documents. Each document
is a Config, a TestConfig with or without its `config` path, or anything
else. `pathFile` is what the file at that path holds.

`TestsuiteFromYaml` keeps the code's two branches. The first takes the whole
text as one TestConfig, which `serde_yaml::from_str` refuses for more than
one document. The second reads a Config document and then a TestConfig one.
Each `?` gives its own error.

### Admin.tla (model of `components/admin.rs`; MCAdmin.tla)

The clients connect while the listener exists (`Connect`), the accept loop
accepts them (`Accept`) and
a connection task answers (`Respond`, with `HandleRequest` giving the set of
possible status codes). `AcceptFails` ends the loop and drops the runtime, and with it the
listener's backlog and every accepted connection.
The handler bodies are `CollectMetrics` (encode, then UTF-8) and `ConfigDump`
(JSON serialisation). A failure in either answers 500.

A profile request takes two steps:
1. `ProfileStart`: `ProfilerGuardBuilder::build`. It fails whenever another
   guard is live (`profiler`), and the request is then answered 500.
2. `ProfileEnd`: after the sleep, report, encode and gzip. Any failing step
   answers 500, and the guard is dropped.

The sleep's length is not modelled: any steps of the other connections can
happen during it.
The cluster map and the proxy's own readiness change under the requests
(`ClustersChange`, `ProxyReadyChange`).

## 3. Runs

| run | cfg | checks | result |
|---|---|---|---|
| ads_client | MCAdsClient.cfg | TypeOK, FirstRequestIsWildcard, BackoffDelays, ShutdownTerminates | pass, 698,592 states, ~2.5 min |
| ads_refinement | MCAdsClientRefinement.cfg | DiscoveryRefinement | pass, 71,975 states |
| ads_stale_nonce | MCAdsClientStaleNonce.cfg | NoStaleNonce | violation |
| ads_stream_close | MCAdsClientStreamClose.cfg | OkOnlyOnShutdown | violation |
| ads_nonrecoverable | MCAdsClientNonRecoverable.cfg | FatalOnlyInvalidUrlOrBackoff | violation |
| ads_backoff_reset | MCAdsClientBackoffReset.cfg | BackoffResetOnConnect | violation |
| firewall | MCFirewall.cfg | FirstMatchDecides | pass, 1.4M states |
| config_load | MCConfigLoad.cfg | AcceptedSourceWellFormed, ValidationErrorsAsSpecified | pass |
| config_find | MCConfigLoadFind.cfg | IoErrorOnlyWhenNoneFound | violation |
| testsuite | MCTestsuite.cfg | TestsuiteAsDocumented | pass, 38,232 states |
| admin | MCAdmin.cfg | RoutesAsSpecified | pass, 29,088 states |
| admin_answered | MCAdminAnswered.cfg | EveryRequestAnswered | violation |

What the properties say:
- **FirstRequestIsWildcard:** the first request on every stream is the
  initial CDS request.
- **BackoffDelays:** after a response the next sleep is the initial interval;
  otherwise the delay never shrinks.
- **ShutdownTerminates:** after a shutdown signal `run` returns, and a
  receive task that has its stream open exits. A receive task still waiting
  for the open may outlive `run`: the open has no timeout and is not raced
  with shutdown.
- **FirstMatchDecides:** first match wins, with default deny.
- **AcceptedSourceWellFormed:** a source that validates is non-empty, has no
  duplicates and has only valid entries.
- **ValidationErrorsAsSpecified:** spec property 9.
- **RoutesAsSpecified:** the spec's route table, with /ready matching
  readiness at the moment the request is handled. This includes profile
  requests answered after their sleep.
- **DiscoveryRefinement:** AdsClient implements AdsDiscovery: the
  ClusterManager's requests reach the servers in the order issued, each at
  most once, with only runs of consecutive requests lost; the first request
  on each stream is the wildcard one.
- **TestsuiteAsDocumented:** a testsuite loads exactly when the file has one
  of the two shapes the doc comment of `from_yaml` calls valid.

### What the violations show

Each violation run is a finding recorded in `PROJECT.json`.
- **NoStaleNonce:** `discovery_req_rx` is shared across sessions, so an ACK
  queued for one stream is sent on the next one with the old nonce.
- **OkOnlyOnShutdown:** a cleanly closed response stream makes `run` return
  `Ok(())` and stop discovery.
- **FatalOnlyInvalidUrlOrBackoff:** a failed stream open drops `rpc_rx`, and
  the following send fails as NonRecoverable.
- **BackoffResetOnConnect:** only a response resets the backoff, not a
  connect.
- **IoErrorOnlyWhenNoneFound:** `canonicalize()?` fails before the
  `/etc/quilkin` fallback can be tried.
- **EveryRequestAnswered:** one accept error kills the admin endpoint, and
  dropping the runtime cancels the connections it had accepted: a request
  being served is never answered.

### Bounds

**ADS client.** Two servers are enough for round-robin and fail-over. One
version makes the nonce, not the version, decide freshness. A channel capacity
of 1 makes full channels reachable. Three faults allow a connect failure, a
stream failure and a further one. Two responses give ACKs that can outlive
their stream. The backoff uses interval 1, multiplier 2, maximum 2 and
max-elapsed 2, so that both the capped growth and exhaustion happen.

**Firewall.** Two IPs, two CIDRs (nested), the range 10..=100 probed at 10,
100 and 101, one unresolvable host, and lists of up to 2 rules, so that two
matching rules disagree.

**Config.** Two addresses (so a list can repeat one) and one good and one bad
metadata value and URL.

**Admin.** Two clients, so that one can be served while the other is
queued, and so that a second profile request can arrive while the first one
holds the profiler.

**Refinement.** This run uses three servers, the third with an invalid URL,
and the ads_client bounds. Streams are opened on several servers, requests
queue behind a failed session and are lost with it, before the client
reaches the invalid one and stops.

**Testsuite.** Up to three documents: a Config and a TestConfig, and one
more after them. `pathFile` ranges over all three file states.

### Fairness

**AdsClient.**
- Weak fairness on every task step: tokio runs every ready task.
- Strong fairness on the two shutdown branches: `tokio::select!` picks
  uniformly among ready branches, so a branch that is ready infinitely often
  is eventually taken.
- No fairness on the stream open finishing, on servers responding or on
  faults: the client sets no timeout, so nothing in the code forces an
  answer.

**Admin.** Weak fairness on accepting and answering, and on both profile steps (the sleep ends).

## 4. Proofs (TLAPS)

`AdsClientProofs.tla` proves `THEOREM TypeCorrect == Spec => []TypeOK` for
every value of the constants satisfying `ConstantsAssumption`. `TypeOK` is
split in two:
- `TypeFlags` covers the Boolean variables. It is preserved by every step
  (`FlagsInvariant`, by Zenon).
- `TypeData` covers the rest.

TypeData is inductive as it stands, because it carries the two conjuncts
that make it so: `recv = "Acking" => pendingAck \in Request` and
`pc = "Forwarding" => forwardReq \in Request`. The step proof has one case per
action. The backoff cases rest on the lemmas `AfterSleepType`,
`FreshBackoffType` and `LogErrorAndBackoffType`, which show that the capped
growth keeps the interval in `1..MaxInterval` and the elapsed time below
`MaxElapsed + MaxInterval`.

`THEOREM WildcardFirst == Spec => []FirstRequestIsWildcard` is proved from
`TypeCorrect` and the inductive invariant `WildcardInv` (defined in
`AdsClient.tla`). FirstRequestIsWildcard alone is not inductive: whether the
next delivery is the wildcard request depends on `rpcTx` and on the stream
number. WildcardInv adds the missing facts:
1. Every delivery is tagged with a stream number no larger than the current
   one, so a stream opened by `ConnectOk` has had nothing delivered on it yet.
2. Until something is delivered on the current stream, the head of `rpcTx`
   (if any) is the initial request.
3. In `SendInitial`, `rpcTx` is empty.
4. In the send loop, `rpcTx` is not empty unless something has already been
   delivered on the current stream.

TLC checked WildcardInv on the full ads_client state space (698,592 states)
before it was proved. The step proof has one case per action:
- `ConnectOk` starts a fresh, empty `rpcTx` on a new stream number.
- `SendInitial` puts the initial request into the empty `rpcTx`.
- `Forward` appends behind a head that is already the initial request.
- `Deliver` takes the head.
- Every other action is covered by the frame lemma `WildcardFrame`.

`THEOREM Refinement == Spec => DiscoveryRefinement` shows that AdsClient
implements AdsDiscovery under the mapping of section 2. The proof has two
parts:
- `Init` maps to the abstract `Init`.
- `RefinementStep`: every step, under `TypeOK`, `WildcardInv`,
  `StreamInv` (a receive task exists only once a stream has been opened),
  `QueueInv` and `BackoffInv`, is one of the following:
  - `ConnectOk` is `OpenStream`.
  - `Deliver` is `Send(r)`. On a fresh stream the wildcard-first rule is
    WildcardInv's fact about the head of `rpcTx`; afterwards the request
    sent is the head of `QueuedRequests` (`HeadTailConcat`).
  - `SendLoopRecv` and `Forward` move a request between the parts of
    `QueuedRequests` and leave the whole unchanged.
  - The receive task ending (`RecvOpenFails`, `RecvStreamEnds`,
    `RecvShutdown`) loses what is left in `rpc_tx`, a prefix of the queue,
    and a `Forward` into a closed `rpc_rx` loses the forwarded request:
    `Lose`, by the lemma `CutPrefix`. `MainShutdown` while forwarding loses
    that one middle element (`CutMiddle`), and is `Stop`. Both lemmas rest on
    SubSeq and concatenation facts from the library's SequenceTheorems.
  - The steps that set `pc` to "Stopped" are `Stop`, using `AbstractStop`.
  - `SignalShutdown` is `Signal`.
  - Every other step leaves the mapped variables alone (`AbstractStutter`,
    `QueueFrame`).

  `QueueInv` is what makes the queue mapping well behaved: a live receive
  task means `rpc_rx` is open, and in `SendInitial` nothing has been sent
  on the stream. TLC checked it on the ads_client state space first.

The TLC run ads_refinement checks the same property on three servers.

`THEOREM BackoffDelaysHold == Spec => BackoffDelays` proves the action
property from the invariant `BackoffInv` (AdsClient.tla). BackoffDelays
compares `delay'` with `delay`, and it is not implied by the type
invariant: the backoff the main task sleeps on may be the copy handed back
by the receive task. BackoffInv relates the copies:
- `delay` never exceeds the main task's current interval.
- While the receive task holds the backoff and no response has come, its
  copy equals the main task's.
- Once a response came, the receive task's copy is the fresh backoff.
- In `Backoff`, after a session with a response, the delay is the initial
  interval.

`BackoffDelaysStep` then shows, for each step into `Backoff`, that
`LogErrorAndBackoff` sleeps on one of those copies. The supporting lemma
`AfterSleepGrows` shows that the capped growth never shrinks the interval.
TLC checked BackoffInv (and StreamInv) on the ads_client state space before
they were proved.

`ConfigLoadProofs.tla` proves `THEOREM ValidationErrors == Spec =>
[]ValidationErrorsAsSpecified` for every value of the constants. The
argument has three pieces:
- `FirstErrorFirst` and `FirstErrorSecond`: `FirstError` over three checks
  returns the first error.
- `ValidateErrors`: on any source, an empty list makes `EmptyCheck` fail
  first, and a non-empty list with a repeated address makes `UniqueCheck`
  the first to fail.
- `IInv`: in a finished load that read a document, `result` is
  `SourceValidate(doc)`, and `doc` is a source from the moment it is parsed.
  This is the strengthening the property needs, since the property itself
  says nothing about `pc = "validate"`. TLC checked IInv on the config_load
  state space before it was proved.

The same module proves `THEOREM AcceptedWellFormed == Spec =>
[]AcceptedSourceWellFormed`. It rests on three lemmas:
- `FirstErrorOk`: `FirstError` returns Ok only when every check falls
  through.
- `UniqueDistinct`: a list whose set of addresses has `Len(es)` elements has
  no repeated address. The map from positions `1..n` to addresses is onto
  that set, and the library's `FS_Surjection` (FiniteSetTheorems) says a
  surjection between finite sets of the same size is injective.
- `AcceptedSource`: Source::validate accepts a source only when all three
  of its checks pass.

`IInv` needed two more conjuncts for this theorem:
- `result` stays `NoResult` until the load is done.
- Without a document, the result can only be an io or YAML error.

Together they say that `result = Ok` comes only from `Validate`. TLC checked
the strengthened IInv on the config_load state space before it was proved.

To keep ConfigLoad provable, it uses no community module: `FirstError` is a
set minimum rather than `SelectInSeq`, and `Lists` replaces `BoundedSeq`.

`TestsuiteProofs.tla` proves `THEOREM TestsuiteDocumented == TSSpec =>
[]TestsuiteAsDocumented` for every `MaxDocs`. Its parts are:
- `TSInv`: once a file is decoded, `docs` is a list of one to `MaxDocs`
  documents and `result` is `TestsuiteFromYaml(docs)`; `pathFile` never
  changes. TLC checked it on the testsuite run's state space before it was
  proved.
- `FromYamlOk`: `TestsuiteFromYaml` returns Ok exactly on the two
  documented shapes. The proof splits on the length of the list.

Writing this proof exposed a modelling error. `TestsuiteFromYaml` had been
written as CASE expressions with overlapping arms, for example a TestConfig
without a path while `pathFile` is "missing". In TLA+ such a CASE may take
any true arm, whereas TLC takes the first one and the code checks its
conditions in order. The definition is now an IF/ELSE IF chain in code
order. For the same reason, Firewall's reference `RefOutcome` is now an IF
chain too.

`AdminProofs.tla` proves `THEOREM Routes == Spec => RoutesAsSpecified` for
any set of clients, either `Mode` and either `Linux`. The proof has these
parts:
- `IInv`, checked by TLC on the admin run first. It is the type invariant
  plus `HandlingInv`: a connection being handled has a request, and one in
  `profiling` holds a profile request.
- `HandleRequestRoutes`: every status in `HandleRequest(r)` follows the
  route table. This includes the profile route off Linux, which the router
  answers 404, and `/ready` and `/readyz`, which give `CheckReadiness`.
- `ProfileIsKnown`: a profile request is a GET of a route this build
  serves.
- `RoutesStep`: a step answers a client only through `Respond`,
  `ProfileStart` (refused with 500) or `ProfileEnd` (200 or 500), and
  `HandlingInv` supplies the request each of them answers.

`FirewallProofs.tla` proves `THEOREM FirstMatch == Spec =>
[]FirstMatchDecides` for rule lists of any length, over any IPs, CIDRs and
port ranges satisfying `FirewallAssumption`. `Evaluate` is the loop written
as a recursive function `scan` over the index. TLAPS reads that definition
as `CHOOSE scan : scan = [i \in 1..Len+1 |-> body]`. The proof therefore
has these steps:
1. `EvaluateIsScan`: `Evaluate` is that CHOOSE, entered at index 1.
2. `FirstFrom(rules, addr, i)` is the loop's outcome from index `i`,
   written without recursion: the first rule at or after `i` that contains
   the source decides. `FirstFromStep` shows that it satisfies one
   iteration of the loop body, and `ScanExists` that it solves the
   equation, so the CHOOSE has something to pick.
3. `ScanUnique`: every solution equals `FirstFrom`. Suppose one did not.
   Take the last index where it differs; this is the least element of a
   set of distances from the end. One iteration of the body then makes the
   two agree at that index, a contradiction.
4. `EvaluateRef`: `FirstFrom` at index 1 is `RefOutcome`.

The least elements come from `NatHasLeast`, which applies the library's
`WFMin` to `NatLessThanWellFounded`. Those theorems have only set
parameters, unlike the induction theorems with an operator parameter,
which the installed provers cannot instantiate. `FWInv` (TLC-checked on
the firewall run's 1.4M states first) ties the last outcome to `Evaluate`
on the list of its direction.

Checked by TLC only: the liveness properties (`ShutdownTerminates`,
`EveryRequestAnswered`). They need fairness and ENABLED, which the
installed provers do not handle. Every safety property of a passing run is
now stated by a proved theorem.

## 5. Not modelled

- The UDP data plane (Proxy::run, sessions, the filter chain runtime) is not
  among the sources.
- The ClusterManager's cluster map contents and the metrics are not modelled.
- YAML parsing is modelled only as the choice of an abstract document.
- The `Builder` and the error types of the configuration live in files that
  are not among the sources.
- Health::check_liveness and the readiness of the non-proxy modes are not
  among the sources; they are nondeterministic.
- The length of the profile sleep is not modelled; only what may happen
  during it is.

## 6. Plan

Done:
- Sitting 1: AdsClient (with its violations, TypeCorrect and WildcardFirst),
  Firewall, ConfigLoad and Admin.
- Sitting 2: the abstract AdsDiscovery and its refinement, checked and
  proved. The BackoffDelays proof. Admin's handler bodies and the profiler.
  The Testsuite loader. The ValidationErrors proof.
- Sitting 3: proofs of every remaining safety property of a passing run
  except FirstMatchDecides: AcceptedWellFormed, TestsuiteDocumented and
  Routes. The overlapping CASE arms in Testsuite and
  Firewall were replaced by IF chains.
- Sitting 4: FirstMatch (the firewall loop equals the first-match
  reference for every list, by a least-counterexample argument).
- Sitting 5: AdsDiscovery gained the request queue (order, at most once,
  losses only of consecutive runs) and the refinement proof with it.
  ShutdownTerminates no longer assumes the stream open finishes. Admin's
  `Connect` needs the listener, and an accept error drops the backlog. Two
  properties that followed from a single guard (the invalid-URL shortcut
  and profiler exclusivity) were removed with their theorems.

Next:
1. A ClusterManager model with cluster contents, composed with Admin
   readiness (spec E4: /ready turns 200 once a CDS response is applied).
   This waits on sources of one version. In this tree, `ads_client.rs` sends
   cluster updates on a channel whose consumer is not among the sources.
   `admin.rs` reads a newer `Config` that owns the cluster map. The link
   between the two would therefore be invented.
2. Larger instances of the ads_client run (three servers, two versions) on
   a machine with more time.
