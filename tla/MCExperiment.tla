---------------------------- MODULE MCExperiment ----------------------------
(* Two servers, one of which is also the client, with a flow to each; for   *)
(* MServerRR_1 two clients of one server.                                   *)
EXTENDS Experiment

CONSTANTS a, b, c

OneServer == <<a>>
TwoServers == <<a, b>>
FirstClient == <<b>>
OneClient == <<c>>
NoClient == <<>>

(* The instance of MServerRR is one that the theorems are about.            *)
ASSUME InstanceTimely == Function = "MServerRR" => Timely
=============================================================================
