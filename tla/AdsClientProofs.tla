-------------------------- MODULE AdsClientProofs ---------------------------
(* Proofs about the xDS client model AdsClient.                            *)
EXTENDS AdsClient, SequenceTheorems, TLAPS

USE ConstantsAssumption

\* The backoff after a sleep keeps its interval within max_interval and its
\* elapsed time within max_elapsed + max_interval.
LEMMA AfterSleepType ==
    ASSUME NEW b \in Backoffs, ~BackoffExhausted(b)
    PROVE  /\ AfterSleep(b) \in Backoffs
           /\ b.cur \in 0 .. MaxInterval
  BY DEF Backoffs, AfterSleep, BackoffExhausted, Min2

LEMMA FreshBackoffType == FreshBackoff \in Backoffs
  BY DEF FreshBackoff, Backoffs

LEMMA InitialRequestType == InitialRequest \in Request
  BY DEF InitialRequest, Request, ResourceTypes, VersionOrNone, Nonces,
         NoVersion, NoNonce, CDS, EDS

\* log_error_and_backoff keeps the main task's variables well typed.
LEMMA LogErrorAndBackoffType ==
    ASSUME TypeData, NEW b \in Backoffs, LogErrorAndBackoff(b)
    PROVE  /\ pc' \in MainPhases /\ pc' # "Forwarding"
           /\ result' \in Results
           /\ backoff' \in Backoffs
           /\ delay' \in 0 .. MaxInterval
  <1>1. CASE BackoffExhausted(b)
    BY <1>1 DEF LogErrorAndBackoff, TypeData, MainPhases, Results
  <1>2. CASE ~BackoffExhausted(b)
    BY <1>2, AfterSleepType DEF LogErrorAndBackoff, TypeData, MainPhases, Results
  <1>3. QED BY <1>1, <1>2

\* The flags only ever take Boolean values.
LEMMA FlagsInvariant == TypeFlags /\ [Next]_vars => TypeFlags'
  BY Zenon
  DEF TypeFlags, Next, vars, recvVars, StartAttempt, ConnectFails, ConnectOk,
      SendInitial, SendLoopJoin, SendLoopRecv, Forward, MainShutdown,
      RecvOpenFails, RecvOpenOk, RecvResponse, RecvAck, RecvStreamEnds,
      RecvShutdown, Deliver, DropRequestStream, SignalShutdown, Done,
      LogErrorAndBackoff, OnResponse

\* Every reachable state of the client is well typed.
THEOREM TypeCorrect == Spec => []TypeOK
<1>1. Init => TypeFlags
  BY DEF Init, TypeFlags
<1>2. Init => TypeData
  BY FreshBackoffType
  DEF Init, TypeData, MainPhases, Results, Servers, RecvPhases,
      NoRequest, ClearedCm, VersionOrNone, Nonces, NoVersion, NoNonce
<1>3. TypeData /\ [Next]_vars => TypeData'
  <2> SUFFICES ASSUME TypeData, [Next]_vars PROVE TypeData'
    OBVIOUS
  <2>1. CASE StartAttempt
    BY <2>1 DEF StartAttempt, TypeData, Servers, MainPhases, ClearedCm,
                VersionOrNone, Nonces, NoVersion, NoNonce
  <2>2. CASE ConnectFails
    <3>1. CASE server \in BadUrl
      BY <2>2, <3>1 DEF ConnectFails, TypeData, MainPhases, Results, recvVars
    <3>2. CASE server \notin BadUrl
      BY <2>2, <3>2, LogErrorAndBackoffType DEF ConnectFails, TypeData, recvVars
    <3>3. QED BY <3>1, <3>2
  <2>3. CASE ConnectOk
    BY <2>3 DEF ConnectOk, TypeData, MainPhases, RecvPhases
  <2>4. CASE SendInitial
    <3>1. CASE rpcTx' = Append(rpcTx, InitialRequest) /\ pc' = "SendLoop"
                /\ UNCHANGED result
      BY <2>4, <3>1, InitialRequestType DEF SendInitial, TypeData, MainPhases,
                                             recvVars
    <3>2. CASE pc' = "Stopped" /\ result' = "err_nonrecoverable"
                /\ UNCHANGED rpcTx
      BY <2>4, <3>2 DEF SendInitial, TypeData, MainPhases, Results, recvVars
    <3>3. QED BY <2>4, <3>1, <3>2 DEF SendInitial
  <2>5. CASE SendLoopJoin
    <3>1. CASE recvResult = "ok"
      BY <2>5, <3>1 DEF SendLoopJoin, TypeData, MainPhases, Results, RecvPhases
    <3>2. CASE recvResult = "receive_err"
      BY <2>5, <3>2, LogErrorAndBackoffType DEF SendLoopJoin, TypeData, RecvPhases
    <3>3. QED BY <2>5, <3>1, <3>2 DEF SendLoopJoin
  <2>6. CASE SendLoopRecv
    BY <2>6 DEF SendLoopRecv, TypeData, MainPhases, recvVars
  <2>7. CASE Forward
    <3>1. CASE rpcTx' = Append(rpcTx, forwardReq) /\ pc' = "SendLoop"
                /\ UNCHANGED result
      BY <2>7, <3>1 DEF Forward, TypeData, MainPhases, recvVars, NoRequest
    <3>2. CASE pc' = "Stopped" /\ result' = "err_nonrecoverable"
                /\ UNCHANGED rpcTx
      BY <2>7, <3>2 DEF Forward, TypeData, MainPhases, Results, recvVars,
                        NoRequest
    <3>3. QED BY <2>7, <3>1, <3>2 DEF Forward
  <2>8. CASE MainShutdown
    BY <2>8 DEF MainShutdown, TypeData, MainPhases, Results, recvVars
  <2>9. CASE RecvOpenFails
    BY <2>9 DEF RecvOpenFails, TypeData, RecvPhases
  <2>10. CASE RecvOpenOk
    BY <2>10 DEF RecvOpenOk, TypeData, RecvPhases
  <2>11. CASE RecvResponse
    <3> SUFFICES ASSUME NEW t \in ResourceTypes \cup {OtherType},
                        NEW v \in Versions, NEW ok \in BOOLEAN,
                        /\ nonceStream' = Append(nonceStream, stream)
                        /\ recvBackoff' = FreshBackoff
                        /\ IF t = OtherType
                           THEN UNCHANGED <<recv, cm, applied, pendingAck>>
                           ELSE /\ OnResponse(t, v, ok, Len(nonceStream) + 1)
                                /\ recv' = "Acking",
                        UNCHANGED <<pc, result, nextServer, server, backoff,
                                    forwardReq, recvResult, discReq, rpcTx,
                                    stream, delivered, faults, delay>>
                 PROVE TypeData'
      BY <2>11 DEF RecvResponse
    <3>1. /\ Len(nonceStream) + 1 \in Nonces
          /\ nonceStream' \in Seq(Nat)
          /\ Len(nonceStream') <= MaxResponses
      BY <2>11 DEF RecvResponse, TypeData, Nonces
    <3>2. recvBackoff' \in Backoffs
      BY FreshBackoffType
    <3>3. CASE t = OtherType
      BY <3>1, <3>2, <3>3 DEF TypeData
    <3>4. CASE t # OtherType /\ ok = TRUE
      <4> DEFINE n == Len(nonceStream) + 1
      <4>1. OnResponse(t, v, ok, n) /\ recv' = "Acking"
        BY <3>4, Zenon
      <4>2. /\ cm' = [cm EXCEPT ![t] = [version |-> v, nonce |-> n]]
            /\ applied' = [applied EXCEPT ![t] = v]
            /\ pendingAck' = [type |-> t, version |-> v, nonce |-> n, nack |-> FALSE]
        BY <3>4, <4>1, Zenon DEF OnResponse
      <4>3. t \in ResourceTypes /\ n \in Nonces
        BY <3>1, <3>4
      <4>4. QED
        BY <3>1, <3>2, <4>1, <4>2, <4>3 DEF TypeData, RecvPhases, Request, VersionOrNone
    <3>5. CASE t # OtherType /\ ok = FALSE
      <4> DEFINE n == Len(nonceStream) + 1
      <4>1. OnResponse(t, v, ok, n) /\ recv' = "Acking"
        BY <3>5, Zenon
      <4>2. /\ cm' = [cm EXCEPT ![t] = [version |-> cm[t].version, nonce |-> n]]
            /\ applied' = applied
            /\ pendingAck' = [type |-> t, version |-> cm[t].version, nonce |-> n, nack |-> TRUE]
        BY <3>5, <4>1, Zenon DEF OnResponse
      <4>3. t \in ResourceTypes /\ n \in Nonces
        BY <3>1, <3>5
      <4>4. QED
        BY <3>1, <3>2, <4>1, <4>2, <4>3 DEF TypeData, RecvPhases, Request
    <3>6. QED BY <3>3, <3>4, <3>5
  <2>12. CASE RecvAck
    <3>1. CASE discReq' = Append(discReq, pendingAck)
      BY <2>12, <3>1 DEF RecvAck, TypeData, RecvPhases, NoRequest
    <3>2. CASE UNCHANGED discReq
      BY <2>12, <3>2 DEF RecvAck, TypeData, RecvPhases, NoRequest
    <3>3. QED BY <2>12, <3>1, <3>2 DEF RecvAck
  <2>13. CASE RecvStreamEnds
    BY <2>13 DEF RecvStreamEnds, TypeData, RecvPhases
  <2>14. CASE RecvShutdown
    BY <2>14 DEF RecvShutdown, TypeData, RecvPhases
  <2>15. CASE Deliver
    BY <2>15 DEF Deliver, TypeData, recvVars
  <2>16. CASE DropRequestStream
    BY <2>16 DEF DropRequestStream, TypeData, recvVars
  <2>17. CASE SignalShutdown
    BY <2>17 DEF SignalShutdown, TypeData, recvVars
  <2>18. CASE Done \/ UNCHANGED vars
    BY <2>18 DEF Done, TypeData, vars
  <2>19. QED
    BY <2>1, <2>2, <2>3, <2>4, <2>5, <2>6, <2>7, <2>8, <2>9, <2>10, <2>11,
       <2>12, <2>13, <2>14, <2>15, <2>16, <2>17, <2>18 DEF Next
<1>4. QED BY <1>1, <1>2, <1>3, FlagsInvariant, PTL DEF Spec, TypeOK

-----------------------------------------------------------------------------
(* The first request on every stream is the wildcard CDS request.          *)

\* A step that leaves the deliveries, the stream number and rpc_tx alone,
\* and does not move the main task into the sending phases, keeps
\* WildcardInv.
LEMMA WildcardFrame ==
    ASSUME WildcardInv,
           UNCHANGED <<delivered, stream, rpcTx>>,
           pc' = pc \/ pc' \notin {"SendInitial", "SendLoop", "Forwarding"}
    PROVE  WildcardInv'
  BY DEF WildcardInv, SentOn, FirstRequestIsWildcard

\* log_error_and_backoff leaves the main task backing off or stopped.
LEMMA LogErrorAndBackoffPc ==
    ASSUME NEW b, LogErrorAndBackoff(b)
    PROVE  pc' \in {"Stopped", "Backoff"}
  BY DEF LogErrorAndBackoff

\* WildcardInv holds in every reachable state.
LEMMA WildcardInductive == Spec => []WildcardInv
<1>1. Init => WildcardInv
  BY DEF Init, WildcardInv, SentOn, FirstRequestIsWildcard
<1>2. TypeData /\ WildcardInv /\ [Next]_vars => WildcardInv'
  <2> SUFFICES ASSUME TypeData, WildcardInv, [Next]_vars PROVE WildcardInv'
    OBVIOUS
  <2>1. CASE StartAttempt
    BY <2>1, WildcardFrame DEF StartAttempt
  <2>2. CASE ConnectFails
    BY <2>2, WildcardFrame, LogErrorAndBackoffPc DEF ConnectFails
  <2>3. CASE ConnectOk
    <3>1. /\ stream' = stream + 1 /\ rpcTx' = << >> /\ pc' = "SendInitial"
          /\ delivered' = delivered
      BY <2>3 DEF ConnectOk
    <3>2. \A i \in 1 .. Len(delivered') : delivered'[i][1] <= stream'
      BY <3>1 DEF TypeData, WildcardInv
    <3>3. FirstRequestIsWildcard'
      BY <3>1 DEF WildcardInv, FirstRequestIsWildcard
    <3>4. QED
      BY <3>1, <3>2, <3>3 DEF WildcardInv
  <2>4. CASE SendInitial
    <3>1. CASE rpcRxOpen /\ Len(rpcTx) < ChanCap /\ rpcTx' = Append(rpcTx, InitialRequest)
                /\ pc' = "SendLoop"
      <4>1. rpcTx = << >>
        BY <2>4 DEF SendInitial, WildcardInv
      <4>2. rpcTx' = << InitialRequest >>
        BY <3>1, <4>1
      <4>3. UNCHANGED <<delivered, stream>>
        BY <2>4 DEF SendInitial
      <4>4. QED
        BY <3>1, <4>2, <4>3 DEF WildcardInv, SentOn, FirstRequestIsWildcard
    <3>2. CASE ~(rpcRxOpen /\ Len(rpcTx) < ChanCap /\ rpcTx' = Append(rpcTx, InitialRequest)
                 /\ pc' = "SendLoop")
      BY <2>4, <3>2, WildcardFrame DEF SendInitial
    <3>3. QED BY <3>1, <3>2
  <2>5. CASE SendLoopJoin
    BY <2>5, WildcardFrame, LogErrorAndBackoffPc DEF SendLoopJoin
  <2>6. CASE SendLoopRecv
    BY <2>6 DEF SendLoopRecv, WildcardInv, SentOn, FirstRequestIsWildcard
  <2>7. CASE Forward
    <3>1. CASE rpcRxOpen /\ Len(rpcTx) < ChanCap /\ rpcTx' = Append(rpcTx, forwardReq)
                /\ pc' = "SendLoop"
      <4>1. UNCHANGED <<delivered, stream>> /\ pc = "Forwarding"
        BY <2>7 DEF Forward
      <4>2. rpcTx \in Seq(Request)
        BY DEF TypeData
      <4>3. ~SentOn(stream) => Head(rpcTx) = InitialRequest /\ rpcTx # << >>
        BY <4>1 DEF WildcardInv
      <4>4. ~SentOn(stream) => Head(rpcTx') = InitialRequest
        BY <3>1, <4>2, <4>3
      <4>5. QED
        BY <3>1, <4>1, <4>4 DEF WildcardInv, SentOn, FirstRequestIsWildcard
    <3>2. CASE ~(rpcRxOpen /\ Len(rpcTx) < ChanCap /\ rpcTx' = Append(rpcTx, forwardReq)
                 /\ pc' = "SendLoop")
      BY <2>7, <3>2, WildcardFrame DEF Forward
    <3>3. QED BY <3>1, <3>2
  <2>8. CASE MainShutdown
    BY <2>8, WildcardFrame DEF MainShutdown
  <2>9. CASE RecvOpenFails \/ RecvOpenOk \/ RecvResponse \/ RecvAck
             \/ RecvStreamEnds \/ RecvShutdown
    BY <2>9, WildcardFrame
    DEF RecvOpenFails, RecvOpenOk, RecvResponse, RecvAck, RecvStreamEnds,
        RecvShutdown
  <2>10. CASE Deliver
    <3>1. /\ rpcTx # << >> /\ pc = pc' /\ stream' = stream
          /\ delivered' = Append(delivered, <<stream, Head(rpcTx)>>)
          /\ rpcTx' = Tail(rpcTx)
      BY <2>10 DEF Deliver
    <3> DEFINE n == Len(delivered) + 1
    <3>a. /\ Len(delivered') = n
          /\ delivered'[n] = <<stream, Head(rpcTx)>>
          /\ \A i \in 1 .. Len(delivered) : delivered'[i] = delivered[i]
      BY <3>1 DEF TypeData
    <3>2. SentOn(stream)'
      <4>1. n \in 1 .. Len(delivered') /\ delivered'[n][1] = stream'
        BY <3>1, <3>a DEF TypeData
      <4>2. QED
        BY <4>1 DEF SentOn
    <3>3. pc # "SendInitial"
      BY <3>1 DEF WildcardInv
    <3>0. \A i \in 1 .. Len(delivered') : i \in 1 .. Len(delivered) \/ i = n
      <4>1. Len(delivered) \in Nat /\ Len(delivered') = Len(delivered) + 1
        BY <3>a DEF TypeData
      <4>2. QED
        BY <4>1
    <3>4. \A i \in 1 .. Len(delivered') : delivered'[i][1] <= stream'
      <4> SUFFICES ASSUME NEW i \in 1 .. Len(delivered')
                   PROVE  delivered'[i][1] <= stream'
        OBVIOUS
      <4>1. CASE i \in 1 .. Len(delivered)
        BY <4>1, <3>a, <3>1 DEF WildcardInv
      <4>2. CASE i = n
        BY <4>2, <3>a, <3>1 DEF TypeData
      <4>3. QED
        BY <3>0, <4>1, <4>2
    <3>5. FirstRequestIsWildcard'
      <4> SUFFICES ASSUME NEW i \in 1 .. Len(delivered'),
                          \A j \in 1 .. i - 1 : delivered'[j][1] # delivered'[i][1]
                   PROVE  delivered'[i][2] = InitialRequest
        BY DEF FirstRequestIsWildcard
      <4>1. CASE i \in 1 .. Len(delivered)
        <5>1. \A j \in 1 .. i - 1 : delivered[j][1] # delivered[i][1]
          <6> SUFFICES ASSUME NEW j \in 1 .. i - 1
                       PROVE  delivered[j][1] # delivered[i][1]
            OBVIOUS
          <6>1. j \in 1 .. Len(delivered)
            BY <4>1
          <6>2. delivered'[j][1] # delivered'[i][1]
            OBVIOUS
          <6>3. QED
            BY <6>1, <6>2, <4>1, <3>a
        <5>2. delivered[i][2] = InitialRequest
          BY <5>1, <4>1 DEF WildcardInv, FirstRequestIsWildcard
        <5>3. QED
          BY <5>2, <4>1, <3>a
      <4>2. CASE i = n
        <5>0. delivered'[i][1] = stream
          BY <4>2, <3>a
        <5>1. \A j \in 1 .. Len(delivered) : delivered[j][1] # stream
          <6> SUFFICES ASSUME NEW j \in 1 .. Len(delivered)
                       PROVE  delivered[j][1] # stream
            OBVIOUS
          <6>1. j \in 1 .. i - 1
            BY <4>2
          <6>2. delivered'[j][1] # delivered'[i][1]
            BY <6>1
          <6>3. QED
            BY <6>2, <5>0, <3>a
        <5>2. ~SentOn(stream)
          BY <5>1 DEF SentOn
        <5>3. Head(rpcTx) = InitialRequest
          BY <5>2, <3>1 DEF WildcardInv
        <5>4. QED
          BY <4>2, <5>3, <3>a
      <4>3. QED
        BY <3>0, <4>1, <4>2
    <3>6. QED
      BY <3>1, <3>2, <3>3, <3>4, <3>5, Zenon DEF WildcardInv
  <2>11. CASE DropRequestStream \/ SignalShutdown \/ Done
    BY <2>11, WildcardFrame DEF DropRequestStream, SignalShutdown, Done, vars
  <2>12. CASE UNCHANGED vars
    BY <2>12, WildcardFrame DEF vars
  <2>13. QED
    BY <2>1, <2>2, <2>3, <2>4, <2>5, <2>6, <2>7, <2>8, <2>9, <2>10, <2>11,
       <2>12 DEF Next
<1>3. QED
  BY <1>1, <1>2, TypeCorrect, PTL DEF Spec, TypeOK

\* Every stream a management server sees starts with the initial wildcard
\* CDS request of send_initial_cds_request, whatever the send loop or the
\* ClusterManager still had queued from the previous stream.
THEOREM WildcardFirst == Spec => []FirstRequestIsWildcard
  BY WildcardInductive, PTL DEF WildcardInv

-----------------------------------------------------------------------------
(* Backoff delays: reset after a response, never shrinking otherwise.      *)

\* A sleep never shortens the interval the next one starts from.
LEMMA AfterSleepGrows ==
    ASSUME NEW b \in Backoffs, ~BackoffExhausted(b)
    PROVE  b.cur <= AfterSleep(b).cur
  BY DEF Backoffs, AfterSleep, BackoffExhausted, Min2

\* What log_error_and_backoff does to the delay, the backoff and pc.
LEMMA LogErrorAndBackoffDelay ==
    ASSUME NEW b \in Backoffs, LogErrorAndBackoff(b)
    PROVE  \/ pc' = "Stopped" /\ UNCHANGED <<backoff, delay>>
           \/ /\ pc' = "Backoff" /\ delay' = b.cur /\ backoff' = AfterSleep(b)
              /\ delay' <= backoff'.cur
  BY AfterSleepGrows DEF LogErrorAndBackoff

\* BackoffInv holds in every reachable state.
LEMMA BackoffInductive == Spec => []BackoffInv
<1>1. Init => BackoffInv
  BY DEF Init, BackoffInv, FreshBackoff
<1>2. TypeOK /\ BackoffInv /\ [Next]_vars => BackoffInv'
  <2> SUFFICES ASSUME TypeOK, BackoffInv, [Next]_vars PROVE BackoffInv'
    OBVIOUS
  <2> USE DEF TypeOK, TypeData, TypeFlags
  <2>1. CASE StartAttempt
    BY <2>1 DEF StartAttempt, BackoffInv
  <2>2. CASE ConnectFails
    <3>1. recv = "None" /\ ~streamResponded /\ UNCHANGED <<recv, streamResponded, recvBackoff>>
      BY <2>2 DEF ConnectFails, BackoffInv, recvVars
    <3>2. CASE server \in BadUrl
      BY <2>2, <3>1, <3>2 DEF ConnectFails, BackoffInv
    <3>3. CASE server \notin BadUrl
      BY <2>2, <3>1, <3>3, LogErrorAndBackoffDelay DEF ConnectFails, BackoffInv
    <3>4. QED BY <3>2, <3>3
  <2>3. CASE ConnectOk
    BY <2>3 DEF ConnectOk, BackoffInv
  <2>4. CASE SendInitial \/ SendLoopRecv \/ Forward \/ MainShutdown
    BY <2>4 DEF SendInitial, SendLoopRecv, Forward, MainShutdown, BackoffInv,
                recvVars
  <2>5. CASE SendLoopJoin
    <3>1. recv' = "None" /\ UNCHANGED <<streamResponded, recvBackoff>>
      BY <2>5 DEF SendLoopJoin
    <3>2. CASE recvResult = "ok"
      BY <2>5, <3>1, <3>2 DEF SendLoopJoin, BackoffInv
    <3>3. CASE recvResult # "ok"
      <4>1. LogErrorAndBackoff(recvBackoff)
        BY <2>5, <3>3 DEF SendLoopJoin
      <4>2. streamResponded => recvBackoff.cur = InitialInterval
        BY DEF BackoffInv, FreshBackoff
      <4>3. QED
        BY <3>1, <4>1, <4>2, LogErrorAndBackoffDelay DEF BackoffInv
    <3>4. QED BY <3>2, <3>3
  <2>6. CASE RecvResponse
    <3>1. /\ recv # "None" /\ streamResponded' = TRUE
          /\ recvBackoff' = FreshBackoff
          /\ UNCHANGED <<pc, backoff, delay>>
      BY <2>6 DEF RecvResponse
    <3>2. recv' # "None"
      BY <2>6 DEF RecvResponse, OnResponse
    <3>3. pc \notin {"Loop", "Backoff", "Connecting"}
      BY <3>1 DEF BackoffInv
    <3>4. QED
      BY <3>1, <3>2, <3>3 DEF BackoffInv
  <2>7. CASE RecvOpenFails \/ RecvOpenOk \/ RecvAck \/ RecvStreamEnds
             \/ RecvShutdown
    <3>1. /\ recv # "None" /\ recv' # "None"
          /\ UNCHANGED <<pc, backoff, delay, streamResponded, recvBackoff>>
      BY <2>7 DEF RecvOpenFails, RecvOpenOk, RecvAck, RecvStreamEnds,
                  RecvShutdown
    <3>2. QED
      BY <3>1 DEF BackoffInv
  <2>8. CASE Deliver \/ DropRequestStream \/ SignalShutdown \/ Done
             \/ UNCHANGED vars
    BY <2>8 DEF Deliver, DropRequestStream, SignalShutdown, Done, vars,
                recvVars, BackoffInv
  <2>9. QED
    BY <2>1, <2>2, <2>3, <2>4, <2>5, <2>6, <2>7, <2>8 DEF Next
<1>3. QED
  BY <1>1, <1>2, TypeCorrect, PTL DEF Spec

\* The condition BackoffDelays puts on one step.
BackoffStepOK ==
    pc' = "Backoff" =>
        IF streamResponded THEN delay' = InitialInterval ELSE delay' >= delay

\* Every step meets it.
LEMMA BackoffDelaysStep ==
    TypeOK /\ BackoffInv /\ [Next]_vars => BackoffStepOK
  <1> SUFFICES ASSUME TypeOK, BackoffInv, [Next]_vars, pc' = "Backoff"
               PROVE  IF streamResponded THEN delay' = InitialInterval
                      ELSE delay' >= delay
    BY DEF BackoffStepOK
  <1> USE DEF TypeOK, TypeData, TypeFlags
  <1>1. CASE ConnectFails
    <2>1. ~streamResponded /\ server \notin BadUrl
      BY <1>1 DEF ConnectFails, BackoffInv
    <2>2. delay' = backoff.cur
      BY <1>1, <2>1, LogErrorAndBackoffDelay DEF ConnectFails
    <2>3. delay' >= delay
      BY <2>2 DEF BackoffInv
    <2>4. QED
      BY <2>1, <2>3
  <1>2. CASE SendLoopJoin
    <2>1. delay' = recvBackoff.cur /\ recv = "Exited"
      BY <1>2, LogErrorAndBackoffDelay DEF SendLoopJoin
    <2>2. CASE streamResponded
      <3>1. delay' = InitialInterval
        BY <2>1, <2>2 DEF BackoffInv, FreshBackoff
      <3>2. QED BY <2>2, <3>1
    <2>3. CASE ~streamResponded
      <3>1. delay' >= delay
        BY <2>1, <2>3 DEF BackoffInv
      <3>2. QED BY <2>3, <3>1
    <2>4. QED BY <2>2, <2>3
  <1>3. CASE ~ConnectFails /\ ~SendLoopJoin
    <2>1. pc = "Backoff"
      BY <1>3
      DEF Next, vars, recvVars, StartAttempt, ConnectOk, SendInitial,
          SendLoopRecv, Forward, MainShutdown, RecvOpenFails, RecvOpenOk,
          RecvResponse, RecvAck, RecvStreamEnds, RecvShutdown, Deliver,
          DropRequestStream, SignalShutdown, Done
    <2>2. recv = "None"
      BY <2>1 DEF BackoffInv
    <2>3. SignalShutdown \/ DropRequestStream \/ UNCHANGED vars
      BY <1>3, <2>1, <2>2
      DEF Next, StartAttempt, ConnectOk, SendInitial, SendLoopRecv, Forward,
          MainShutdown, RecvOpenFails, RecvOpenOk, RecvResponse, RecvAck,
          RecvStreamEnds, RecvShutdown, Deliver, Done
    <2>4. UNCHANGED <<delay, streamResponded>>
      BY <2>3 DEF SignalShutdown, DropRequestStream, vars, recvVars
    <2>5. streamResponded => delay' = InitialInterval
      BY <2>1, <2>4 DEF BackoffInv
    <2>6. QED
      BY <2>4, <2>5
  <1>4. QED BY <1>1, <1>2, <1>3

\* Spec 4.5 step 6 and property 7, for every value of the constants: the
\* sleep after an attempt that received a response lasts the initial
\* interval (the receive task reset the backoff it hands back), and
\* otherwise no sleep is shorter than the one before.
THEOREM BackoffDelaysHold == Spec => BackoffDelays
  BY BackoffDelaysStep, BackoffInductive, TypeCorrect, PTL
  DEF Spec, BackoffDelays, BackoffStepOK
-----------------------------------------------------------------------------
(* The client implements the abstract discovery client AdsDiscovery.       *)

\* The stream number is at least one while a receive task exists.
LEMMA StreamInductive == Spec => []StreamInv
<1>1. Init => StreamInv
  BY DEF Init, StreamInv
<1>2. TypeData /\ StreamInv /\ [Next]_vars => StreamInv'
  <2> SUFFICES ASSUME TypeData, StreamInv, [Next]_vars PROVE StreamInv'
    OBVIOUS
  <2>1. CASE ConnectOk
    BY <2>1 DEF ConnectOk, StreamInv, TypeData
  <2>2. CASE SendLoopJoin
    BY <2>2 DEF SendLoopJoin, StreamInv
  <2>3. CASE RecvOpenFails \/ RecvOpenOk \/ RecvResponse \/ RecvAck
             \/ RecvStreamEnds \/ RecvShutdown
    BY <2>3 DEF RecvOpenFails, RecvOpenOk, RecvResponse, RecvAck,
                RecvStreamEnds, RecvShutdown, StreamInv
  <2>4. CASE StartAttempt \/ ConnectFails \/ SendInitial \/ SendLoopRecv
             \/ Forward \/ MainShutdown \/ Deliver \/ DropRequestStream
             \/ SignalShutdown \/ Done \/ UNCHANGED vars
    BY <2>4 DEF StartAttempt, ConnectFails, SendInitial, SendLoopRecv, Forward,
                MainShutdown, Deliver, DropRequestStream, SignalShutdown, Done,
                vars, recvVars, StreamInv
  <2>5. QED
    BY <2>1, <2>2, <2>3, <2>4 DEF Next
<1>3. QED
  BY <1>1, <1>2, TypeCorrect, PTL DEF Spec, TypeOK

\* Why the ClusterManager's requests map onto one queue: a live stream
\* holds rpc_rx (ConnectOk opens both; rpc_rx is dropped only once the
\* receive task is over), and nothing has been received on a stream before
\* send_initial_cds_request runs on it.
QueueInv ==
    /\ StreamLive => rpcRxOpen
    /\ pc = "SendInitial" => ~SentOn(stream)

\* QueueInv holds in every reachable state.
LEMMA QueueInductive == Spec => []QueueInv
<1>1. Init => QueueInv
  BY DEF Init, QueueInv, StreamLive
<1>2. TypeData /\ WildcardInv /\ QueueInv /\ [Next]_vars => QueueInv'
  <2> SUFFICES ASSUME TypeData, WildcardInv, QueueInv, [Next]_vars
               PROVE  QueueInv'
    OBVIOUS
  <2>1. CASE ConnectOk
    <3>1. \A i \in 1 .. Len(delivered) : delivered[i][1] # stream + 1
      BY DEF WildcardInv, TypeData
    <3>2. QED BY <2>1, <3>1 DEF ConnectOk, QueueInv, StreamLive, SentOn
  <2>2. CASE Deliver
    BY <2>2 DEF Deliver, QueueInv, StreamLive, SentOn, WildcardInv
  <2>3. CASE SendInitial
    BY <2>3 DEF SendInitial, QueueInv, StreamLive, SentOn, recvVars
  <2>7. CASE SendLoopJoin
    BY <2>7, LogErrorAndBackoffPc DEF SendLoopJoin, QueueInv, StreamLive
  <2>8. CASE DropRequestStream
    BY <2>8 DEF DropRequestStream, QueueInv, StreamLive, SentOn, recvVars
  <2>4. CASE RecvOpenFails \/ RecvOpenOk \/ RecvResponse \/ RecvAck
             \/ RecvStreamEnds \/ RecvShutdown
    BY <2>4 DEF RecvOpenFails, RecvOpenOk, RecvResponse, RecvAck,
                RecvStreamEnds, RecvShutdown, QueueInv, StreamLive, SentOn
  <2>5. CASE StartAttempt \/ ConnectFails \/ SendLoopRecv \/ Forward
             \/ MainShutdown \/ SignalShutdown \/ Done \/ UNCHANGED vars
    <3>1. CASE ConnectFails
      BY <3>1, LogErrorAndBackoffPc DEF ConnectFails, QueueInv, StreamLive,
                                        SentOn, recvVars
    <3>2. CASE ~ConnectFails
      BY <2>5, <3>2 DEF StartAttempt, SendLoopRecv, Forward, MainShutdown,
                        SignalShutdown, Done, vars, recvVars, QueueInv,
                        StreamLive, SentOn
    <3>3. QED BY <3>1, <3>2
  <2>6. QED
    BY <2>1, <2>2, <2>3, <2>4, <2>5, <2>7, <2>8 DEF Next
<1>3. QED
  BY <1>1, <1>2, TypeCorrect, WildcardInductive, PTL DEF Spec, TypeOK

\* Losing the first requests of a queue is a cut.
LEMMA CutPrefix ==
    ASSUME NEW S, NEW p \in Seq(S), NEW t \in Seq(S), p # << >>
    PROVE  Abstract!IsCut(p \o t, t)
  <1> DEFINE x == p \o t
  <1>1. Len(x) = Len(p) + Len(t) /\ x \in Seq(S)
    BY ConcatProperties
  <1>2. SubSeq(x, 1, 0) = << >>
    BY SubSeqEmpty
  <1>3. SubSeq(x, Len(p) + 1, Len(x)) = t
    <2>1. CASE t = << >>
      BY <1>1, <2>1, SubSeqEmpty
    <2>2. CASE t # << >>
      <3>1. SubSeq(x, Len(p) + 1, Len(p) + Len(t)) = SubSeq(t, 1, Len(t))
        BY <2>2, SubSeqOfConcat2
      <3>2. QED BY <1>1, <3>1, SubSeqFull
    <2>3. QED BY <2>1, <2>2
  <1>4. Abstract!Cut(x, 1, Len(p)) = t
    BY <1>2, <1>3, ConcatEmptySeq DEF Abstract!Cut
  <1>5. 1 <= Len(p) /\ Len(p) <= Len(x)
    BY <1>1, EmptySeq
  <1>6. QED BY <1>4, <1>5 DEF Abstract!IsCut

\* Losing one request in the middle of a queue is a cut.
LEMMA CutMiddle ==
    ASSUME NEW S, NEW p \in Seq(S), NEW e \in S, NEW t \in Seq(S)
    PROVE  Abstract!IsCut(p \o << e >> \o t, p \o t)
  <1> DEFINE x == p \o << e >> \o t
             k == Len(p) + 1
  <1>1. /\ x \in Seq(S) /\ Len(x) = Len(p) + 1 + Len(t)
        /\ \A i \in 1 .. Len(x) :
              x[i] = IF i <= Len(p) THEN p[i]
                     ELSE IF i = k THEN e ELSE t[i - k]
    BY ConcatProperties
  <1>2. Abstract!Cut(x, k, k) = p \o t
    <2>0. \A i \in 1 .. k - 1 : x[i] \in S
      BY <1>1
    <2>10. /\ SubSeq(x, 1, k - 1) \in Seq(S)
           /\ Len(SubSeq(x, 1, k - 1)) = IF 1 <= k - 1 THEN (k - 1) - 1 + 1 ELSE 0
           /\ \A i \in 1 .. (k - 1) - 1 + 1 : SubSeq(x, 1, k - 1)[i] = x[1 + i - 1]
      BY <2>0, SubSeqProperties
    <2>1. SubSeq(x, 1, k - 1) \in Seq(S) /\ Len(SubSeq(x, 1, k - 1)) = Len(p)
          /\ \A i \in 1 .. Len(p) : SubSeq(x, 1, k - 1)[i] = p[i]
      BY <1>1, <2>10
    <2>2. SubSeq(x, 1, k - 1) = p
      BY <2>1, SeqEqual
    <2>3. \A i \in k + 1 .. Len(x) : x[i] \in S
      BY <1>1
    <2>8. /\ SubSeq(x, k + 1, Len(x)) \in Seq(S)
          /\ Len(SubSeq(x, k + 1, Len(x)))
               = IF k + 1 <= Len(x) THEN Len(x) - (k + 1) + 1 ELSE 0
          /\ \A i \in 1 .. Len(x) - (k + 1) + 1 :
               SubSeq(x, k + 1, Len(x))[i] = x[(k + 1) + i - 1]
      BY <2>3, SubSeqProperties
    <2>4. /\ SubSeq(x, k + 1, Len(x)) \in Seq(S)
          /\ Len(SubSeq(x, k + 1, Len(x))) = Len(t)
          /\ \A i \in 1 .. Len(t) : SubSeq(x, k + 1, Len(x))[i] = x[k + i]
      BY <1>1, <2>8
    <2>6. \A i \in 1 .. Len(t) : x[k + i] = t[i]
      BY <1>1
    <2>9. \A i \in 1 .. Len(t) : SubSeq(x, k + 1, Len(x))[i] = t[i]
      BY <2>4, <2>6
    <2>7. SubSeq(x, k + 1, Len(x)) = t
      BY <2>4, <2>9, SeqEqual, Zenon
    <2>5. QED BY <2>2, <2>7, Zenon DEF Abstract!Cut
  <1>3. k \in 1 .. Len(x) /\ k <= k
    BY <1>1
  <1>4. QED BY <1>2, <1>3, Zenon DEF Abstract!IsCut

\* A non-empty sequence is its head followed by its tail.
LEMMA HeadThenTail ==
    ASSUME NEW S, NEW d \in Seq(S), d # << >>
    PROVE  << Head(d) >> \o Tail(d) = d
  <1>1. /\ Head(d) \in S /\ Tail(d) \in Seq(S) /\ Len(Tail(d)) = Len(d) - 1
        /\ \A i \in 1 .. Len(Tail(d)) : Tail(d)[i] = d[i + 1]
    BY HeadTailProperties
  <1>2. /\ << Head(d) >> \o Tail(d) \in Seq(S)
        /\ Len(<< Head(d) >> \o Tail(d)) = Len(d)
        /\ \A i \in 1 .. Len(d) : (<< Head(d) >> \o Tail(d))[i] = d[i]
    BY <1>1, ConcatProperties, EmptySeq
  <1>3. QED BY <1>2, SeqEqual

\* The head and tail of a concatenation whose first part is not empty.
LEMMA HeadTailConcat ==
    ASSUME NEW S, NEW s \in Seq(S), NEW f \in Seq(S), NEW d \in Seq(S),
           s # << >>
    PROVE  /\ s \o f \o d # << >>
           /\ Head(s \o f \o d) = Head(s)
           /\ Tail(s \o f \o d) = Tail(s) \o f \o d
  <1> DEFINE x == s \o f \o d
             y == Tail(s) \o f \o d
  <1>1. /\ x \in Seq(S) /\ Len(x) = Len(s) + Len(f) + Len(d)
        /\ \A i \in 1 .. Len(x) :
             x[i] = IF i <= Len(s) THEN s[i]
                    ELSE IF i <= Len(s) + Len(f) THEN f[i - Len(s)]
                    ELSE d[i - Len(s) - Len(f)]
    BY ConcatProperties
  <1>2. /\ Tail(s) \in Seq(S) /\ Len(Tail(s)) = Len(s) - 1
        /\ \A i \in 1 .. Len(Tail(s)) : Tail(s)[i] = s[i + 1]
    BY HeadTailProperties
  <1>3. /\ y \in Seq(S) /\ Len(y) = Len(s) - 1 + Len(f) + Len(d)
        /\ \A i \in 1 .. Len(y) :
             y[i] = IF i <= Len(s) - 1 THEN s[i + 1]
                    ELSE IF i <= Len(s) - 1 + Len(f) THEN f[i - Len(s) + 1]
                    ELSE d[i - Len(s) + 1 - Len(f)]
    BY <1>2, ConcatProperties
  <1>4. x # << >> /\ Head(x) = Head(s)
    BY <1>1, EmptySeq
  <1>5. /\ Tail(x) \in Seq(S) /\ Len(Tail(x)) = Len(x) - 1
        /\ \A i \in 1 .. Len(Tail(x)) : Tail(x)[i] = x[i + 1]
    BY <1>1, <1>4, HeadTailProperties
  <1>6. \A i \in 1 .. Len(y) : Tail(x)[i] = y[i]
    BY <1>1, <1>3, <1>5, EmptySeq
  <1>7. Tail(x) = y
    BY <1>1, <1>3, <1>5, <1>6, SeqEqual
  <1>8. QED BY <1>4, <1>7

\* A step that changes none of the mapped variables is an abstract stutter.
LEMMA AbstractStutter ==
    ASSUME UNCHANGED <<stream, delivered, result, shutdown>>,
           QueuedRequests' = QueuedRequests,
           (pc' = "Stopped") = (pc = "Stopped")
    PROVE  UNCHANGED Abstract!vars
  BY DEF Abstract!vars

\* A step that stops run with an outcome, losing at most a run of queued
\* requests and touching nothing else mapped, is the abstract Stop.
LEMMA AbstractStop ==
    ASSUME pc # "Stopped", pc' = "Stopped",
           result' \in Results \ {"none"},
           Abstract!IsCut(QueuedRequests, QueuedRequests')
             \/ QueuedRequests' = QueuedRequests,
           UNCHANGED <<stream, delivered, shutdown>>
    PROVE  Abstract!Next
  BY DEF Abstract!Next, Abstract!Stop

\* A step that loses a run of queued requests and touches nothing else
\* mapped is the abstract Lose.
LEMMA AbstractLose ==
    ASSUME Abstract!IsCut(QueuedRequests, QueuedRequests'),
           (pc' = "Stopped") = (pc = "Stopped"),
           UNCHANGED <<stream, delivered, result, shutdown>>
    PROVE  Abstract!Next
  BY DEF Abstract!Next, Abstract!Lose

\* The mapped queue only depends on whether the stream is live, rpc_tx, the
\* stream, the deliveries, discovery_req and the request being forwarded.
LEMMA QueueFrame ==
    ASSUME StreamLive' = StreamLive,
           UNCHANGED <<rpcTx, stream, delivered, discReq>>,
           (pc' = "Forwarding") = (pc = "Forwarding"),
           pc = "Forwarding" => forwardReq' = forwardReq
    PROVE  QueuedRequests' = QueuedRequests
  <1>1. RpcTxQueued' = RpcTxQueued
    BY DEF RpcTxQueued, SentOn
  <1>2. InForward' = InForward
    BY DEF InForward
  <1>3. QED BY <1>1, <1>2 DEF QueuedRequests

\* log_error_and_backoff either stops run with BackoffLimitExceeded or
\* leaves every mapped variable alone.
LEMMA BackoffStep ==
    ASSUME NEW b, LogErrorAndBackoff(b), pc # "Stopped",
           QueuedRequests' = QueuedRequests,
           UNCHANGED <<stream, delivered, shutdown>>
    PROVE  [Abstract!Next]_Abstract!vars
  <1>1. CASE BackoffExhausted(b)
    BY <1>1, AbstractStop DEF LogErrorAndBackoff, Results
  <1>2. CASE ~BackoffExhausted(b)
    BY <1>2, AbstractStutter DEF LogErrorAndBackoff
  <1>3. QED BY <1>1, <1>2

\* The parts of the mapped queue are sequences of DiscoveryRequests.
LEMMA QueuedType ==
    ASSUME TypeOK
    PROVE  /\ RpcTxQueued \in Seq(Request)
           /\ InForward \in Seq(Request)
           /\ discReq \in Seq(Request)
  <1>1. rpcTx \in Seq(Request) /\ discReq \in Seq(Request)
    BY DEF TypeOK, TypeData
  <1>2. rpcTx # << >> => Tail(rpcTx) \in Seq(Request)
    BY <1>1, HeadTailProperties
  <1>3. pc = "Forwarding" => forwardReq \in Request
    BY DEF TypeOK, TypeData
  <1>4. QED BY <1>1, <1>2, <1>3 DEF RpcTxQueued, InForward

\* Every step of the client is a step of AdsDiscovery or leaves its state
\* alone.
LEMMA RefinementStep ==
    TypeOK /\ WildcardInv /\ StreamInv /\ QueueInv /\ BackoffInv /\ [Next]_vars
        => [Abstract!Next]_Abstract!vars
  <1> SUFFICES ASSUME TypeOK, WildcardInv, StreamInv, QueueInv, BackoffInv,
                      [Next]_vars
               PROVE  [Abstract!Next]_Abstract!vars
    OBVIOUS
  <1> DEFINE R == RpcTxQueued
             F == InForward
             Q == QueuedRequests
  <1>0. R \in Seq(Request) /\ F \in Seq(Request) /\ discReq \in Seq(Request)
    BY QueuedType
  <1>1. CASE StartAttempt
    <2>1. Q' = Q BY <1>1, QueueFrame DEF StartAttempt, StreamLive
    <2>2. QED BY <1>1, <2>1, AbstractStutter DEF StartAttempt
  <1>2. CASE ConnectFails
    <2>1. Q' = Q
      BY <1>2, QueueFrame, LogErrorAndBackoffPc DEF ConnectFails, StreamLive,
                                                    recvVars
    <2>2. CASE server \in BadUrl
      BY <1>2, <2>1, <2>2, AbstractStop DEF ConnectFails, Results
    <2>3. CASE server \notin BadUrl
      BY <1>2, <2>1, <2>3, BackoffStep DEF ConnectFails
    <2>4. QED BY <2>2, <2>3
  <1>3. CASE ConnectOk
    <2>1. recv = "None"
      BY <1>3 DEF ConnectOk, BackoffInv
    <2>2. R = << >> /\ R' = << >>
      BY <1>3, <2>1 DEF ConnectOk, RpcTxQueued, StreamLive
    <2>3. F = << >> /\ F' = << >>
      BY <1>3 DEF ConnectOk, InForward
    <2>4. Q' = Q
      BY <1>3, <2>2, <2>3 DEF ConnectOk, QueuedRequests
    <2>5. QED
      BY <1>3, <2>4 DEF ConnectOk, Abstract!Next, Abstract!OpenStream
  <1>4. CASE SendInitial
    <2>1. CASE pc' = "SendLoop"
      <3>1. rpcTx = << >> /\ rpcTx' = << InitialRequest >>
            /\ UNCHANGED <<recv, stream, delivered, discReq>>
        BY <1>4, <2>1 DEF SendInitial, WildcardInv, recvVars
      <3>2. ~SentOn(stream) /\ ~SentOn(stream)'
        BY <1>4, <3>1 DEF SendInitial, QueueInv, SentOn
      <3>3. R = << >> /\ R' = << >>
        BY <3>1, <3>2 DEF RpcTxQueued
      <3>4. F = << >> /\ F' = << >>
        BY <1>4, <2>1 DEF SendInitial, InForward
      <3>5. Q' = Q
        BY <3>1, <3>3, <3>4 DEF QueuedRequests
      <3>6. QED
        BY <1>4, <2>1, <3>5, AbstractStutter DEF SendInitial
    <2>2. CASE pc' # "SendLoop"
      <3>1. Q' = Q
        BY <1>4, <2>2, QueueFrame DEF SendInitial, StreamLive, recvVars
      <3>2. QED
        BY <1>4, <2>2, <3>1, AbstractStop DEF SendInitial, Results
    <2>3. QED BY <2>1, <2>2
  <1>5. CASE SendLoopJoin
    <2>1. Q' = Q
      BY <1>5, QueueFrame, LogErrorAndBackoffPc DEF SendLoopJoin, StreamLive
    <2>2. CASE recvResult = "ok"
      BY <1>5, <2>1, <2>2, AbstractStop DEF SendLoopJoin, Results
    <2>3. CASE recvResult # "ok"
      BY <1>5, <2>1, <2>3, BackoffStep DEF SendLoopJoin
    <2>4. QED BY <2>2, <2>3
  <1>6. CASE SendLoopRecv
    <2>1. R' = R
      BY <1>6 DEF SendLoopRecv, RpcTxQueued, StreamLive, SentOn, recvVars
    <2>2. F = << >> /\ F' = << Head(discReq) >>
      BY <1>6 DEF SendLoopRecv, InForward
    <2>3. discReq # << >> /\ discReq' = Tail(discReq)
      BY <1>6 DEF SendLoopRecv
    <2>4. << Head(discReq) >> \o Tail(discReq) = discReq
      BY <1>0, <2>3, HeadThenTail
    <2>5. Tail(discReq) \in Seq(Request) /\ << Head(discReq) >> \in Seq(Request)
      BY <1>0, <2>3, HeadTailProperties
    <2>6. Q' = Q
      BY <1>0, <2>1, <2>2, <2>3, <2>4, <2>5, ConcatAssociative,
         ConcatEmptySeq DEF QueuedRequests
    <2>7. QED
      BY <1>6, <2>6, AbstractStutter DEF SendLoopRecv
  <1>7. CASE Forward
    <2>0. pc = "Forwarding" /\ forwardReq \in Request /\ F = << forwardReq >>
          /\ F' = << >> /\ UNCHANGED <<recv, stream, delivered, discReq>>
      BY <1>7 DEF Forward, TypeOK, TypeData, InForward, recvVars
    <2>1. CASE pc' = "SendLoop" /\ StreamLive
      <3>1. rpcTx' = Append(rpcTx, forwardReq) /\ rpcTx \in Seq(Request)
        BY <1>7, <2>1 DEF Forward, TypeOK, TypeData
      <3>2. R' = Append(R, forwardReq)
        <4>1. CASE SentOn(stream)
          BY <2>0, <2>1, <3>1, <4>1 DEF RpcTxQueued, StreamLive, SentOn
        <4>2. CASE ~SentOn(stream)
          <5>1. rpcTx # << >>
            BY <2>0, <4>2 DEF WildcardInv
          <5>2. Tail(Append(rpcTx, forwardReq)) = Append(Tail(rpcTx), forwardReq)
            BY <3>1, <5>1, HeadTailAppend
          <5>3. QED
            BY <2>0, <2>1, <3>1, <4>2, <5>1, <5>2
            DEF RpcTxQueued, StreamLive, SentOn
        <4>3. QED BY <4>1, <4>2
      <3>3. Append(R, forwardReq) = R \o << forwardReq >>
        BY <1>0, <2>0, AppendIsConcat
      <3>4. Q' = Q
        BY <1>0, <2>0, <3>2, <3>3, ConcatEmptySeq DEF QueuedRequests
      <3>5. QED
        BY <1>7, <2>1, <3>4, AbstractStutter DEF Forward
    <2>2. CASE ~(pc' = "SendLoop" /\ StreamLive)
      <3>1. ~StreamLive /\ ~StreamLive'
        BY <1>7, <2>0, <2>2 DEF Forward, QueueInv, StreamLive
      <3>2. R = << >> /\ R' = << >>
        BY <3>1 DEF RpcTxQueued
      <3>3. Q = << forwardReq >> \o discReq /\ Q' = discReq
        BY <1>0, <2>0, <3>2, ConcatEmptySeq DEF QueuedRequests
      <3>8. << forwardReq >> \in Seq(Request) /\ << forwardReq >> # << >>
        BY <2>0
      <3>9. Abstract!IsCut(<< forwardReq >> \o discReq, discReq)
        BY <1>0, <3>8, CutPrefix, Zenon
      <3>4. Abstract!IsCut(Q, Q')
        BY <3>3, <3>9, Zenon
      <3>5. CASE pc' = "SendLoop"
        BY <1>7, <2>0, <3>4, <3>5, AbstractLose DEF Forward
      <3>6. CASE pc' # "SendLoop"
        BY <1>7, <2>0, <3>4, <3>6, AbstractStop DEF Forward, Results
      <3>7. QED BY <3>5, <3>6
    <2>3. QED BY <2>1, <2>2
  <1>8. CASE MainShutdown
    <2>1. CASE pc = "Forwarding"
      <3>1. R' = R
        BY <1>8 DEF MainShutdown, RpcTxQueued, StreamLive, SentOn, recvVars
      <3>2. forwardReq \in Request /\ F = << forwardReq >> /\ F' = << >>
        BY <1>8, <2>1 DEF MainShutdown, InForward, TypeOK, TypeData
      <3>3. Q = R \o << forwardReq >> \o discReq /\ Q' = R \o discReq
        BY <1>0, <1>8, <3>1, <3>2, ConcatEmptySeq DEF MainShutdown, QueuedRequests
      <3>4. Abstract!IsCut(Q, Q')
        BY <1>0, <3>2, <3>3, CutMiddle
      <3>5. QED
        BY <1>8, <2>1, <3>4, AbstractStop DEF MainShutdown, Results
    <2>2. CASE pc # "Forwarding"
      <3>1. Q' = Q
        BY <1>8, <2>2, QueueFrame DEF MainShutdown, StreamLive, recvVars
      <3>2. QED
        BY <1>8, <2>2, <3>1, AbstractStop DEF MainShutdown, Results
    <2>3. QED BY <2>1, <2>2
  <1>9. CASE RecvOpenOk \/ RecvResponse \/ DropRequestStream
             \/ (RecvAck /\ pc = "Stopped")
    <2>3. /\ StreamLive' = StreamLive
          /\ UNCHANGED <<rpcTx, stream, delivered, discReq, pc, forwardReq>>
      BY <1>9
      DEF RecvOpenOk, RecvResponse, DropRequestStream, RecvAck, StreamLive,
          OnResponse, recvVars
    <2>1. Q' = Q
      BY <2>3, QueueFrame
    <2>2. QED
      BY <1>9, <2>1, AbstractStutter
      DEF RecvOpenOk, RecvResponse, DropRequestStream, RecvAck
  <1>10. CASE RecvAck /\ pc # "Stopped"
    <2>1. /\ pendingAck \in Request
          /\ discReq' = Append(discReq, pendingAck)
          /\ UNCHANGED <<pc, rpcTx, stream, delivered, forwardReq, result,
                         shutdown>>
          /\ StreamLive' = StreamLive
      BY <1>10 DEF RecvAck, TypeOK, TypeData, StreamLive
    <2>2. R' = R /\ F' = F
      BY <2>1 DEF RpcTxQueued, InForward, SentOn
    <2>11. << pendingAck >> \in Seq(Request)
      BY <2>1
    <2>6. R \o F \in Seq(Request) /\ << pendingAck >> \in Seq(Request)
      BY <1>0, <2>11, ConcatProperties
    <2>7. Append(discReq, pendingAck) = discReq \o << pendingAck >>
      BY <1>0, <2>1, AppendIsConcat
    <2>8. Q' = (R \o F) \o (discReq \o << pendingAck >>)
      BY <2>1, <2>2, <2>7 DEF QueuedRequests
    <2>9. (R \o F) \o (discReq \o << pendingAck >>)
            = ((R \o F) \o discReq) \o << pendingAck >>
      BY <1>0, <2>6, ConcatAssociative
    <2>10. ((R \o F) \o discReq) \o << pendingAck >> = Append(Q, pendingAck)
      <3>1. (R \o F) \o discReq \in Seq(Request)
        BY <1>0, <2>6, ConcatProperties
      <3>2. QED BY <2>1, <3>1, AppendIsConcat DEF QueuedRequests
    <2>3. Q' = Append(Q, pendingAck)
      BY <2>8, <2>9, <2>10
    <2>4. Abstract!Issue(pendingAck)
      BY <1>10, <2>1, <2>3 DEF Abstract!Issue
    <2>5. QED BY <2>1, <2>4 DEF Abstract!Next
  <1>11. CASE RecvOpenFails \/ RecvStreamEnds \/ RecvShutdown
    <2>1. /\ StreamLive /\ ~StreamLive'
          /\ UNCHANGED <<pc, rpcTx, stream, delivered, discReq, forwardReq,
                         result, shutdown>>
      BY <1>11 DEF RecvOpenFails, RecvStreamEnds, RecvShutdown, StreamLive
    <2>2. R' = << >> /\ F' = F
      BY <2>1 DEF RpcTxQueued, InForward
    <2>7. F \o discReq \in Seq(Request)
      BY <1>0, ConcatProperties
    <2>8. Q' = << >> \o (F \o discReq)
      BY <2>1, <2>2, ConcatEmptySeq DEF QueuedRequests
    <2>9. (R \o F) \o discReq = R \o (F \o discReq)
      BY <1>0, ConcatAssociative
    <2>3. Q' = F \o discReq /\ Q = R \o (F \o discReq)
      BY <2>7, <2>8, <2>9, ConcatEmptySeq DEF QueuedRequests
    <2>4. CASE R = << >>
      <3>1. Q' = Q BY <1>0, <2>3, <2>4, ConcatEmptySeq, ConcatProperties
      <3>2. QED BY <2>1, <3>1, AbstractStutter
    <2>5. CASE R # << >>
      <3>1. Abstract!IsCut(R \o (F \o discReq), F \o discReq)
        BY <1>0, <2>5, <2>7, CutPrefix, Zenon
      <3>2. Abstract!IsCut(Q, Q')
        BY <2>3, <3>1, Zenon
      <3>3. QED BY <2>1, <3>2, AbstractLose
    <2>6. QED BY <2>4, <2>5
  <1>12. CASE Deliver
    <2>1. /\ StreamLive /\ rpcTx # << >> /\ rpcTx \in Seq(Request)
          /\ delivered' = Append(delivered, <<stream, Head(rpcTx)>>)
          /\ rpcTx' = Tail(rpcTx)
          /\ StreamLive' = StreamLive
          /\ UNCHANGED <<stream, pc, result, shutdown, discReq, forwardReq>>
      BY <1>12 DEF Deliver, StreamLive, recvVars, TypeOK, TypeData
    <2>2. stream > 0
      BY <2>1 DEF StreamInv, StreamLive, TypeOK, TypeData
    <2>3. SentOn(stream)'
      BY <2>1 DEF SentOn
    <2>4. F' = F
      BY <2>1 DEF InForward
    <2>5. Head(rpcTx) \in Request /\ Tail(rpcTx) \in Seq(Request)
      BY <2>1, HeadTailProperties
    <2>6. Abstract!Opened(stream) = SentOn(stream)
      BY DEF Abstract!Opened, SentOn
    <2>7. CASE ~SentOn(stream)
      <3>1. Head(rpcTx) = InitialRequest
        BY <2>1, <2>7 DEF WildcardInv
      <3>2. R = Tail(rpcTx) /\ R' = Tail(rpcTx)
        BY <2>1, <2>3, <2>7 DEF RpcTxQueued
      <3>3. Q' = Q
        BY <2>1, <2>4, <3>2 DEF QueuedRequests
      <3>4. Abstract!Send(Head(rpcTx))
        BY <2>1, <2>2, <2>6, <2>7, <3>1, <3>3 DEF Abstract!Send
      <3>5. QED BY <2>5, <3>4 DEF Abstract!Next
    <2>8. CASE SentOn(stream)
      <3>1. R = rpcTx /\ R' = Tail(rpcTx)
        BY <2>1, <2>3, <2>8 DEF RpcTxQueued
      <3>6. Q = rpcTx \o F \o discReq
        BY <3>1 DEF QueuedRequests
      <3>7. /\ rpcTx \o F \o discReq # << >>
            /\ Head(rpcTx \o F \o discReq) = Head(rpcTx)
            /\ Tail(rpcTx \o F \o discReq) = Tail(rpcTx) \o F \o discReq
        <4>1. rpcTx \in Seq(Request) /\ rpcTx # << >>
          BY <2>1
        <4>2. InForward \in Seq(Request) /\ discReq \in Seq(Request)
          BY <1>0
        <4>3. QED BY <4>1, <4>2, HeadTailConcat, SMTT(30)
      <3>2. /\ Q # << >> /\ Head(Q) = Head(rpcTx)
            /\ Tail(Q) = Tail(rpcTx) \o F \o discReq
        BY <3>6, <3>7
      <3>3. Q' = Tail(Q)
        BY <2>1, <2>4, <3>1, <3>2 DEF QueuedRequests
      <3>4. Abstract!Send(Head(rpcTx))
        BY <2>1, <2>2, <2>6, <2>8, <3>2, <3>3 DEF Abstract!Send
      <3>5. QED BY <2>5, <3>4 DEF Abstract!Next
    <2>9. QED BY <2>7, <2>8
  <1>13. CASE SignalShutdown
    <2>1. Q' = Q
      BY <1>13, QueueFrame DEF SignalShutdown, StreamLive, recvVars
    <2>2. QED
      BY <1>13, <2>1 DEF SignalShutdown, Abstract!Next, Abstract!Signal
  <1>14. CASE Done \/ UNCHANGED vars
    <2>1. Q' = Q
      BY <1>14, QueueFrame DEF Done, vars, StreamLive
    <2>2. QED BY <1>14, <2>1, AbstractStutter DEF Done, vars
  <1>15. QED
    BY <1>1, <1>2, <1>3, <1>4, <1>5, <1>6, <1>7, <1>8, <1>9, <1>10, <1>11,
       <1>12, <1>13, <1>14 DEF Next

\* The xDS client implements AdsDiscovery under the refinement mapping of
\* AdsClient: it opens streams only while run loops, every stream starts
\* with the wildcard CDS request, the ClusterManager's requests reach the
\* servers in the order they were queued and at most once each, losing
\* only runs of consecutive requests, and run returns once.
THEOREM Refinement == Spec => DiscoveryRefinement
<1>1. Init => Abstract!Init
  BY DEF Init, Abstract!Init, Results, QueuedRequests, RpcTxQueued,
         InForward, StreamLive
<1>2. QED
  BY <1>1, RefinementStep, TypeCorrect, WildcardInductive, StreamInductive,
     QueueInductive, BackoffInductive,
     PTL DEF Spec, DiscoveryRefinement, Abstract!Spec
=============================================================================
