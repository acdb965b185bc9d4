-------------------------- MODULE MCActionPipeline --------------------------
(* A small instance of ActionPipeline for TLC.                             *)
EXTENDS ActionPipeline

MaskSet == {Permissive, [Permissive EXCEPT !.allowed_builtins = @ \ {"MOVE"}]}
=============================================================================
