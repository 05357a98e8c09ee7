---------------------------- MODULE MCImageCache ----------------------------
(* Instances of ImageCache for TLC.                                         *)
EXTENDS ImageCache

CONSTANT r1

=============================================================================
