-------------------------- MODULE MCWorkflowControl --------------------------
(***************************************************************************)
(* WorkflowControl with three calls and two chains, as many as the         *)
(* starts and stops can make.                                              *)
(***************************************************************************)
EXTENDS WorkflowControl

MCCalls == 1..2
MCChains == 1..2
=============================================================================
