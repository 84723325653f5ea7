----------------------------- MODULE HlsOutput -----------------------------
(***************************************************************************)
(* What the transcoding of one version promises to those who play it:      *)
(* objects only ever appear in the object store, the master playlist       *)
(* before anything it lists, and video.transcoded is sent when all of them *)
(* are there.  Transcoding implements it; HlsDelivery relies on it.        *)
(***************************************************************************)
EXTENDS Naturals

CONSTANT MaxProfiles  \* quality profiles: 6 in the code

ASSUME OutputAssumption == MaxProfiles \in Nat

Profiles == 1 .. MaxProfiles
Master == 0             \* master.m3u8 among the objects

VARIABLES
    applicable,  \* profiles that the master playlist lists: 1 .. applicable
    objects,     \* HLS output in the object store
    announced,   \* video.transcoded has been emitted
    removed      \* the file has been deleted, and its rows with it

output == <<applicable, objects, announced, removed>>

Complete == {Master} \cup 1 .. applicable

OutputInit ==
    /\ applicable \in 0 .. MaxProfiles
    /\ objects = {} /\ announced = FALSE /\ removed = FALSE

\* Whether or not the file has been removed meanwhile.
Add(x) ==
    /\ x \in Complete
    /\ x # Master => Master \in objects
    /\ objects' = objects \cup {x}
    /\ UNCHANGED <<applicable, announced, removed>>

AnnounceOutput ==
    /\ objects = Complete
    /\ announced' = TRUE
    /\ UNCHANGED <<applicable, objects, removed>>

\* The HLS objects of a removed file stay in the object store.
RemoveVideo ==
    /\ removed' = TRUE
    /\ UNCHANGED <<applicable, objects, announced>>

OutputNext == (\E x \in Complete : Add(x)) \/ AnnounceOutput \/ RemoveVideo

OutputSpec == OutputInit /\ [][OutputNext]_output
=============================================================================
