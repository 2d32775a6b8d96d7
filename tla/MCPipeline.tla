----------------------------- MODULE MCPipeline -----------------------------
(***************************************************************************)
(* Small instances of RequestPipeline for TLC.                             *)
(***************************************************************************)
EXTENDS RequestPipeline
=============================================================================
