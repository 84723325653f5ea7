--------------------------- MODULE MCHlsDelivery ---------------------------
(***************************************************************************)
(* Two viewers of one video, one of whom the core may serve.               *)
(***************************************************************************)
EXTENDS HlsDelivery

CONSTANTS v1, v2
=============================================================================
