----------------------------- MODULE MCLinearScan -----------------------------
(* The instances of LinearScan that TLC checks. *)
EXTENDS LinearScan

CONSTANTS rbx, r12

MC_Pool == <<rbx, r12>>
=============================================================================
