---------------------------- MODULE MC_IOExecutor ----------------------------
(***************************************************************************)
(* IOExecutor for TLC: submitters and cores are model values.              *)
(***************************************************************************)
EXTENDS IOExecutor

CONSTANTS s1, s2, s3, c1, c2

MCSubmitters == {s1, s2}
MCCores      == {c1}
MCTwoCores   == {c1, c2}
MCThreeSubmitters == {s1, s2, s3}
==============================================================================
