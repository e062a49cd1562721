----------------------- MODULE MCSorobanGetTransaction -----------------------
(***************************************************************************)
(* Two ticks to a second, an envelope valid until second 4, and calls from *)
(* time 0 to after it expired.                                             *)
(***************************************************************************)
EXTENDS SorobanGetTransaction

MCStarts == 0..10

=============================================================================
