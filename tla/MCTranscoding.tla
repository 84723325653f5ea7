--------------------------- MODULE MCTranscoding ---------------------------
(***************************************************************************)
(* Up to three profiles, the attempts of the code, one stall as BullMQ has *)
(* it by default.                                                          *)
(***************************************************************************)
EXTENDS Transcoding
=============================================================================
