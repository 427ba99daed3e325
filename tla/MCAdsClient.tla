----------------------------- MODULE MCAdsClient -----------------------------
(* Model-checking instance of AdsClient: two management servers, one       *)
(* resource version, channels of capacity one so that the ClusterManager   *)
(* and the send loop block, and a backoff that runs out after two sleeps.  *)
EXTENDS AdsClient

MCNumServers == 2
MCVersions == {1}
MCChanCap == 1
MCMaxFaults == 3
MCMaxResponses == 2
MCInitialInterval == 1
MCMultiplier == 2
MCMaxInterval == 2
MCMaxElapsed == 2
=============================================================================
