---------------------------- MODULE HlsDelivery ----------------------------
(***************************************************************************)
(* HLS playback composed with what the transcoding promises (HlsOutput):   *)
(* the HLS endpoints of an edge (content/edge-content.controller.ts) and   *)
(* of the core (edge-content/edge-content.controller.ts), the HLS part of  *)
(* their caches (RAM in Redis, at the edge segments also on disk), the     *)
(* purge of the file, and viewers that ask again for what they did not     *)
(* get.                                                                    *)
(*                                                                         *)
(* Item 0 is master.m3u8, item p the files of profile p; of a profile the  *)
(* segments are what the edge also keeps on disk.  A response is cached    *)
(* after it has been sent, by a task nobody waits for.                     *)
(*                                                                         *)
(* Of the HTTP caches between a player and an endpoint (the browser's, and *)
(* nginx at the edge) the model has what hurts: a 404 or 500 carries the   *)
(* Cache-Control header of the content, a year and immutable for a segment *)
(* and a minute for the master playlist, and may be kept.  Of credentials  *)
(* it has that the edge signs every line of a playlist and the core none.  *)
(***************************************************************************)
EXTENDS HlsOutput

CONSTANTS
    Viewers,      \* players, each with one request at a time
    CoreViewers,  \* players that may be sent to the core instead of an edge
    MaxMishaps    \* bound on failed calls and crashes

ASSUME DeliveryAssumption == MaxMishaps \in Nat /\ CoreViewers \subseteq Viewers

Items == {Master} \cup Profiles

VARIABLES
    atCore,   \* viewers whose playlist URLs lead to the core, the others to the edge
    urlOnly,  \* of them, those whose credentials are in the URL of the master playlist
    kept,     \* <<v, i>>: an HTTP cache holds a refusal of item i for viewer v
    ram,      \* hls:{file}:{version}:{subpath} in the Redis of the edge
    coreRam,  \* the same keys in the Redis of the core
    disk,     \* segments under diskCachePath
    view,     \* what each viewer asks for, and where its request is
    fill,     \* the task that caches the last answer to the viewer
    mishaps,  \* failures so far
    cut       \* history: segments whose write was cut short since the last purge

links == <<atCore, urlOnly>>
caches == <<ram, coreRam, disk>>
delivery == <<links, kept, caches, view, fill, mishaps, cut>>
vars == <<output, delivery>>

Nothing == [pc |-> "none", item |-> Master]

Init ==
    /\ OutputInit
    /\ atCore \in SUBSET CoreViewers /\ urlOnly \in SUBSET atCore /\ kept = {}
    /\ ram = {} /\ coreRam = {}
    /\ disk = [p \in Profiles |-> "none"]
    /\ view = [v \in Viewers |-> [pc |-> "refused", item |-> Master]]
    /\ fill = [v \in Viewers |-> Nothing]
    /\ mishaps = 0 /\ cut = {}

-----------------------------------------------------------------------------
In(v, label) == view[v].pc = label
Move(v, label) == view' = [view EXCEPT ![v].pc = label]
Serve(v) == view' = [view EXCEPT ![v] = [pc |-> "served", item |-> Master]]
Mishap == mishaps < MaxMishaps /\ mishaps' = mishaps + 1
Segment(i) == i # Master
KeptOnDisk(v, i) == Segment(i) /\ v \notin atCore

\* The caches of v, and those that others at the same endpoint share with it.
Neighbours(v) == {u \in Viewers : u \in atCore <=> v \in atCore}

\* A 404 or 500, sent with the headers set for the content, that caches may keep.
Refuse(v) ==
    /\ Move(v, "refused")
    /\ \E S \in SUBSET Neighbours(v) :
          (S = {} \/ v \in S) /\ kept' = kept \cup (S \X {view[v].item})

\* The core does not rewrite playlists: the relative URLs of the profiles have neither
\* signature nor token, and a player without an Authorization header gets a 401.
Unauthorised(v, i) == v \in urlOnly /\ Segment(i)

\* Where a request starts.
FirstStop(v, i) ==
    IF <<v, i>> \in kept \/ Unauthorised(v, i) THEN "refused"
    ELSE IF KeptOnDisk(v, i) THEN "disk" ELSE "ram"

\* A player that has what it asked for asks for something else, one that has not
\* asks again: for the master playlist first and then for what it lists.  Bound: the
\* task that caches a viewer's last answer is over; it overlaps with other viewers.
Asks(v) ==
    /\ fill[v] = Nothing
    /\ \E i \in Complete :
          /\ In(v, "served") \/ (In(v, "refused") /\ i = view[v].item)
          /\ view' = [view EXCEPT ![v] = [item |-> i, pc |-> FirstStop(v, i)]]
    /\ UNCHANGED <<kept, caches, fill, mishaps, cut>>

\* getHlsContent of the edge and of the core.
Ask(v) == v \notin atCore /\ Asks(v)
AskCore(v) == v \in atCore /\ Asks(v)

\* readFile: whatever the file holds by now is a hit.
ReadDisk(v) ==
    /\ In(v, "disk")
    /\ IF disk[view[v].item] = "none" THEN Move(v, "ram") ELSE Serve(v)
    /\ UNCHANGED <<kept, caches, fill, mishaps, cut>>

\* getBuffer, and a 500 when it fails.
GetBuffer(v, cached) ==
    /\ In(v, "ram")
    /\ \/ view[v].item \in cached /\ Serve(v) /\ UNCHANGED <<kept, mishaps>>
       \/ view[v].item \notin cached /\ Move(v, "version") /\ UNCHANGED <<kept, mishaps>>
       \/ Mishap /\ Refuse(v)
    /\ UNCHANGED <<caches, fill, cut>>

\* Mutant: no fallback to the origin.
ReadRamOnly(v) ==
    /\ v \notin atCore /\ In(v, "ram")
    /\ IF view[v].item \in ram THEN Serve(v) ELSE Move(v, "refused")
    /\ UNCHANGED <<kept, caches, fill, mishaps, cut>>

ReadRam(v) == v \notin atCore /\ GetBuffer(v, ram)
ReadCoreRam(v) == v \in atCore /\ GetBuffer(v, coreRam)

\* The version row: the edge asks the core's internal API for it, the core reads it.
VersionFound(v) ==
    /\ In(v, "version")
    /\ \/ ~removed /\ Move(v, "origin") /\ UNCHANGED <<kept, mishaps>>
       \/ removed /\ Refuse(v) /\ UNCHANGED mishaps
       \/ Mishap /\ Refuse(v)
    /\ UNCHANGED <<caches, fill, cut>>

FindVersion(v) == v \notin atCore /\ VersionFound(v)
FindVersionRow(v) == v \in atCore /\ VersionFound(v)

\* 200 and a task that caches the bytes, or 404.
Fetches(v) ==
    LET i == view[v].item IN
    /\ In(v, "origin")
    /\ \/ /\ i \in objects
          /\ Serve(v)
          /\ fill' = [fill EXCEPT ![v] =
                        [pc |-> IF KeptOnDisk(v, i) THEN "open" ELSE "set", item |-> i]]
          /\ UNCHANGED <<kept, mishaps>>
       \/ i \notin objects /\ Refuse(v) /\ UNCHANGED <<fill, mishaps>>
       \/ Mishap /\ Refuse(v) /\ UNCHANGED fill
    /\ UNCHANGED <<caches, cut>>

FetchObject(v) == v \notin atCore /\ Fetches(v)
FetchObjectAtCore(v) == v \in atCore /\ Fetches(v)

\* A refusal of the master playlist is out of date after a minute.
RefusalExpires(v) ==
    /\ <<v, Master>> \in kept
    /\ kept' = kept \ {<<v, Master>>}
    /\ UNCHANGED <<caches, view, fill, mishaps, cut>>

\* A fresh link: the edge signs the lines of the playlists with the expiry of the link,
\* so that all of the viewer's URLs are new.  URLs at the core stay the same.
NewLink(v) ==
    /\ v \notin atCore
    /\ kept' = {x \in kept : x[1] # v}
    /\ UNCHANGED <<caches, view, fill, mishaps, cut>>

-----------------------------------------------------------------------------
(* cacheHlsContent                                                         *)

Writing(i) == {v \in Viewers : fill[v].pc = "write" /\ fill[v].item = i}

\* Mutant: nobody waits for writeFile.
OpenUnawaited(v) ==
    /\ fill[v].pc = "open"
    /\ disk' = [disk EXCEPT ![fill[v].item] = "torn"]
    /\ fill' = [fill EXCEPT ![v].pc = "set"]
    /\ UNCHANGED <<kept, ram, coreRam, view, mishaps, cut>>

\* mkdir and writeFile up to the truncation of the file.
OpenFile(v) ==
    /\ fill[v].pc = "open"
    /\ disk' = [disk EXCEPT ![fill[v].item] = "torn"]
    /\ fill' = [fill EXCEPT ![v].pc = "write"]
    /\ UNCHANGED <<kept, ram, coreRam, view, mishaps, cut>>

\* Of two writers the one that truncated the file last makes it whole; a file that
\* was removed meanwhile stays removed.
WriteFile(v) ==
    LET i == fill[v].item IN
    /\ fill[v].pc = "write"
    /\ \E d \in {"torn", "whole"} :
          /\ Writing(i) = {v} => d = "whole" \/ i \in cut
          /\ disk' = [disk EXCEPT ![i] = IF @ = "none" THEN "none" ELSE d]
    /\ fill' = [fill EXCEPT ![v].pc = "set"]
    /\ UNCHANGED <<kept, ram, coreRam, view, mishaps, cut>>

SetRam(v) ==
    /\ fill[v].pc = "set" /\ v \notin atCore
    /\ ram' = ram \cup {fill[v].item}
    /\ fill' = [fill EXCEPT ![v] = Nothing]
    /\ UNCHANGED <<kept, coreRam, disk, view, mishaps, cut>>

SetCoreRam(v) ==
    /\ fill[v].pc = "set" /\ v \in atCore
    /\ coreRam' = coreRam \cup {fill[v].item}
    /\ fill' = [fill EXCEPT ![v] = Nothing]
    /\ UNCHANGED <<kept, ram, disk, view, mishaps, cut>>

\* mkdir, writeFile or Redis fails: the error is logged and the task is over.
FillFails(v) ==
    /\ fill[v] # Nothing /\ Mishap
    /\ cut' = IF fill[v].pc = "write" THEN cut \cup {fill[v].item} ELSE cut
    /\ fill' = [fill EXCEPT ![v] = Nothing]
    /\ UNCHANGED <<kept, caches, view>>

\* 86400 s for a segment, 60 s for a playlist.
RamExpires(i) ==
    /\ i \in ram \cup coreRam
    /\ \/ ram' = ram \ {i} /\ UNCHANGED coreRam
       \/ coreRam' = coreRam \ {i} /\ UNCHANGED ram
    /\ UNCHANGED <<kept, disk, view, fill, mishaps, cut>>

\* evictFile, when it knows a version of the file: the directory of the file goes,
\* the keys hls:* stay.
Purge ==
    /\ disk' = [p \in Profiles |-> "none"]
    /\ cut' = {}
    /\ UNCHANGED <<kept, ram, coreRam, view, fill, mishaps>>

\* A process is killed and restarted, and with it go the requests and tasks of gone
\* (a connection reset, or a 502 of nginx that no cache keeps).
Crash(gone) ==
    /\ Mishap
    /\ view' = [v \in Viewers |-> IF v \in gone /\ ~In(v, "served")
                                 THEN [view[v] EXCEPT !.pc = "refused"] ELSE view[v]]
    /\ fill' = [v \in Viewers |-> IF v \in gone THEN Nothing ELSE fill[v]]
    /\ UNCHANGED <<kept, caches>>

EdgeCrash ==
    /\ Crash(Viewers \ atCore)
    /\ cut' = cut \cup {i \in Profiles : Writing(i) # {}}

CoreCrash == Crash(atCore) /\ UNCHANGED cut

-----------------------------------------------------------------------------
Watch(v) ==
    \/ Ask(v) \/ ReadDisk(v) \/ ReadRam(v) \/ FindVersion(v) \/ FetchObject(v)
    \/ AskCore(v) \/ ReadCoreRam(v) \/ FindVersionRow(v) \/ FetchObjectAtCore(v)
Fill(v) == OpenFile(v) \/ WriteFile(v) \/ SetRam(v) \/ SetCoreRam(v)

Deliver ==
    /\ \/ \E v \in Viewers : Watch(v) \/ Fill(v) \/ FillFails(v)
       \/ \E i \in Items : RamExpires(i)
       \/ \E v \in Viewers : RefusalExpires(v) \/ NewLink(v)
       \/ Purge \/ EdgeCrash \/ CoreCrash
    /\ UNCHANGED <<output, links>>

Next == (OutputNext /\ UNCHANGED delivery) \/ Deliver

Spec == Init /\ [][Next]_vars

\* A player asks again, every call of a request and of a task settles, and a minute
\* passes; a fresh link and the end of a year are not waited for.
FairSpec ==
    /\ Spec
    /\ \A v \in Viewers : /\ WF_vars(Watch(v) /\ UNCHANGED <<output, links>>)
                          /\ WF_vars(Fill(v) /\ UNCHANGED <<output, links>>)
                          /\ WF_vars(RefusalExpires(v) /\ UNCHANGED <<output, links>>)

-----------------------------------------------------------------------------
(* Properties                                                              *)

\* An incomplete segment is served only while a task is writing it, or after such a
\* write was cut short: once a segment is whole no later fill or purge spoils it.
\* (A player or nginx that took such an answer keeps it longer than the edge does.)
TornOnlyAfterCut ==
    [][\A v \in Viewers :
          LET i == view[v].item IN
          In(v, "disk") /\ view'[v].pc = "served" /\ disk[i] = "torn" =>
              i \in cut \/ Writing(i) # {}]_vars

\* What no asking again gets past: a refusal of the segment in an HTTP cache, which
\* stays there for a year, and a playlist URL of the core without credentials.
ShutOut(v) ==
    LET i == view[v].item IN Segment(i) /\ (<<v, i>> \in kept \/ v \in urlOnly)

\* Once video.transcoded is out, a player that keeps asking for the master playlist
\* or for a profile gets it, also when it asked too early before, unless it is shut
\* out: no refusal of the master playlist stays, the endpoints themselves remember
\* none, and no cached playlist leads to a profile that is not there.
AnnouncedIsServed ==
    \A v \in Viewers :
        announced /\ ~In(v, "served") ~> In(v, "served") \/ removed \/ ShutOut(v)
=============================================================================
