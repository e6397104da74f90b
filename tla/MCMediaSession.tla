--------------------------- MODULE MCMediaSession ---------------------------
(* Model values for MediaSession.                                             *)
EXTENDS MediaSession

CONSTANTS r1, r2

=============================================================================
