--------------------------- MODULE MCIusbSession ----------------------------
(* IusbSession for TLC: headers of two units and payloads that are empty,  *)
(* shorter than a header, longer than a header, and longer than the limit. *)
EXTENDS TraceLog
=============================================================================
