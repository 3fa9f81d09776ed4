------------------------------ MODULE MCWorkflow -------------------------------
(* Instances of Workflow for TLC. *)
EXTENDS Workflow
================================================================================
