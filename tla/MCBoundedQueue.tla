--------------------------- MODULE MCBoundedQueue ---------------------------
(* Small instances of BoundedQueue for TLC.                                *)
EXTENDS BoundedQueue
=============================================================================
