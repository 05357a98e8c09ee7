-------------------------- MODULE MCConsoleCapture --------------------------
(* Instances of ConsoleCapture for TLC.                                     *)
EXTENDS ConsoleCapture
=============================================================================
