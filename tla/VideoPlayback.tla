--------------------------- MODULE VideoPlayback ---------------------------
(***************************************************************************)
(* A video that is played while it is transcoded: the job of Transcoding   *)
(* composed with the edge, the core and the players of HlsDelivery.  They  *)
(* meet in the object store, which the job writes and the endpoints read,  *)
(* and in the row of the file, whose removal both see.                     *)
(***************************************************************************)
EXTENDS Transcoding

CONSTANTS Viewers, CoreViewers, MaxMishaps
VARIABLES atCore, urlOnly, kept, ram, coreRam, disk, view, fill, mishaps, cut

D == INSTANCE HlsDelivery

delivery == <<atCore, urlOnly, kept, ram, coreRam, disk, view, fill, mishaps, cut>>
everything == <<vars, delivery>>

PlaybackInit == Init /\ D!Init

PlaybackNext ==
    \/ Next /\ UNCHANGED delivery
    \/ D!Deliver /\ UNCHANGED vars

PlaybackSpec == PlaybackInit /\ [][PlaybackNext]_everything
=============================================================================
