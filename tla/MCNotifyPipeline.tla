-------------------------- MODULE MCNotifyPipeline --------------------------
(* Small instances of NotifyPipeline for TLC. *)
EXTENDS NotifyPipeline
=============================================================================
