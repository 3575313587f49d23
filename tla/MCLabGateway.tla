---------------------------- MODULE MCLabGateway ----------------------------
(* Instance of LabGateway for TLC.                                         *)
EXTENDS LabGateway, TLC

Identities == 1 .. Quota + Rounds
=============================================================================
