---------------------------- MODULE MCNetworkRun ----------------------------
(* Instance of NetworkRun: every fault profile.                            *)
EXTENDS NetworkRun

MCFaults == {"none", "latency", "timeout", "dependency-unavailable",
             "response-lost", "pre-side-effect-failure"}
=============================================================================
