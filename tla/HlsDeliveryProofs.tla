------------------------- MODULE HlsDeliveryProofs --------------------------
(***************************************************************************)
(* What holds of HlsDelivery for any number of viewers, profiles, failures *)
(* and crashes.                                                            *)
(***************************************************************************)
EXTENDS HlsDelivery, TLAPS

ViewType == [pc : {"refused", "served", "disk", "ram", "version", "origin"}, item : Items]
FillType == [pc : {"none", "open", "write", "set"}, item : Items]

\* A viewer with request q and caching task f: while it waits for an answer it has no
\* task, and only the edge writes files, those of profiles.
Fits(v, q, f) ==
    /\ q \in ViewType /\ f \in FillType
    /\ q.pc \in {"disk", "ram", "version", "origin"} => f = Nothing
    /\ q.pc = "disk" => q.item \in Profiles
    /\ f.pc \in {"open", "write"} => f.item \in Profiles /\ v \notin atCore

TypeInv ==
    /\ applicable \in 0 .. MaxProfiles
    /\ disk \in [Profiles -> {"none", "torn", "whole"}]
    /\ view = [v \in Viewers |-> view[v]] /\ fill = [v \in Viewers |-> fill[v]]
    /\ \A v \in Viewers : Fits(v, view[v], fill[v])

\* What TornOnlyAfterCut says of a served segment holds of every file at any time.
TornExplained ==
    \A p \in Profiles : disk[p] = "torn" => p \in cut \/ Writing(p) # {}

LEMMA ItemFacts ==
  ASSUME applicable \in 0 .. MaxProfiles
  PROVE  /\ Complete \subseteq Items /\ Master \in Items
         /\ \A i \in Items : Segment(i) => i \in Profiles
         /\ Master \notin Profiles
  BY OutputAssumption DEF Complete, Items, Profiles, Master, Segment

LEMMA NothingFits ==
  ASSUME applicable \in 0 .. MaxProfiles
  PROVE  /\ Nothing \in FillType /\ Nothing.pc = "none"
         /\ \A i \in Items, l \in {"refused", "served"} : [pc |-> l, item |-> i] \in ViewType
  BY ItemFacts DEF Nothing, FillType, ViewType

\* Two ways to keep an explanation: no writer leaves, or the files are as before.
LEMMA TornKept ==
  ASSUME TornExplained,
         \A p \in Profiles : /\ disk'[p] = "torn" => disk[p] = "torn"
                             /\ p \in cut => p \in cut'
                             /\ Writing(p) # {} => p \in cut' \/ Writing(p)' # {}
  PROVE  TornExplained'
  BY DEF TornExplained

\* One viewer moves on, with its request or with its task.
LEMMA OneMoves ==
  ASSUME TypeInv, NEW v \in Viewers, NEW q, NEW f, Fits(v, q, f),
         view' = [view EXCEPT ![v] = q], fill' = [fill EXCEPT ![v] = f],
         disk' \in [Profiles -> {"none", "torn", "whole"}], UNCHANGED <<applicable, atCore>>
  PROVE  /\ TypeInv'
         /\ view'[v] = q /\ fill'[v] = f
         /\ \A u \in Viewers \ {v} : fill'[u] = fill[u]
  <1>1. /\ view'[v] = q /\ fill'[v] = f
        /\ \A u \in Viewers \ {v} : view'[u] = view[u] /\ fill'[u] = fill[u]
    BY DEF TypeInv
  <1>2. \A u \in Viewers : Fits(u, view'[u], fill'[u])
    BY <1>1 DEF TypeInv
  <1>3. \A u \in Viewers : Fits(u, view[u], fill[u])'
    BY <1>2 DEF Fits
  <1>4. view' = [u \in Viewers |-> view'[u]] /\ fill' = [u \in Viewers |-> fill'[u]]
    BY DEF TypeInv
  <1> QED
    BY <1>1, <1>3, <1>4 DEF TypeInv

\* A step of a request leaves files alone; it may start a task, which opens its file
\* in a later step.
LEMMA WatchStep ==
  ASSUME TypeInv, TornExplained, NEW v \in Viewers, Watch(v), UNCHANGED <<output, links>>
  PROVE  TypeInv' /\ TornExplained'
  <1>t. applicable \in 0 .. MaxProfiles /\ Fits(v, view[v], fill[v])
    BY DEF TypeInv
  <1>0. UNCHANGED <<disk, cut, applicable, atCore>>
    BY DEF Watch, Ask, ReadDisk, ReadRam, FindVersion, FetchObject, AskCore, ReadCoreRam,
       FindVersionRow, FetchObjectAtCore, Asks, GetBuffer, VersionFound, Fetches, caches, output,
       links
  <1>d. disk' \in [Profiles -> {"none", "torn", "whole"}]
    BY <1>0 DEF TypeInv
  <1>1. ASSUME NEW q, NEW f, Fits(v, q, f), f.pc # "write", fill[v].pc # "write",
               view' = [view EXCEPT ![v] = q], fill' = [fill EXCEPT ![v] = f]
        PROVE  TypeInv' /\ TornExplained'
    <2>1. TypeInv' /\ fill'[v] = f /\ \A u \in Viewers \ {v} : fill'[u] = fill[u]
      BY <1>0, <1>1, <1>d, OneMoves
    <2>2. \A p \in Profiles : Writing(p)' = Writing(p)
      BY <1>1, <2>1 DEF Writing
    <2> QED
      BY <1>0, <2>1, <2>2, TornKept
  \* The task of a viewer that waits for an answer.
  <1>2. ASSUME NEW q \in ViewType, view' = [view EXCEPT ![v] = q], UNCHANGED fill,
               fill[v] = Nothing, q.pc = "disk" => q.item \in Profiles
        PROVE  TypeInv' /\ TornExplained'
    <2>1. Fits(v, q, fill[v]) /\ fill[v].pc = "none"
      BY <1>t, <1>2, NothingFits DEF Fits
    <2>2. fill' = [fill EXCEPT ![v] = fill[v]]
      BY <1>2 DEF TypeInv
    <2> QED
      BY <1>1, <1>2, <2>1, <2>2
  <1>3. ASSUME Asks(v) PROVE TypeInv' /\ TornExplained'
    <2>1. PICK k \in Complete :
            view' = [view EXCEPT ![v] = [item |-> k, pc |-> FirstStop(v, k)]]
      BY <1>3 DEF Asks
    <2>0. FirstStop(v, k) \in {"refused", "disk", "ram"}
      BY DEF FirstStop
    <2>2. PICK q : q = [item |-> k, pc |-> FirstStop(v, k)]
      OBVIOUS
    <2>3. q \in ViewType /\ q.item = k
      BY <1>t, <2>0, <2>2, ItemFacts DEF ViewType
    <2>4. q.pc = "disk" => q.item \in Profiles
      BY <1>t, <2>2, <2>3, ItemFacts DEF KeptOnDisk, FirstStop
    <2>5. UNCHANGED fill /\ fill[v] = Nothing
      BY <1>3 DEF Asks
    <2> QED
      BY <1>2, <2>1, <2>2, <2>3, <2>4, <2>5
  <1>4. ASSUME Serve(v), UNCHANGED fill, fill[v] = Nothing PROVE TypeInv' /\ TornExplained'
    <2>1. PICK q \in ViewType : q = [pc |-> "served", item |-> Master]
      BY <1>t, ItemFacts, NothingFits
    <2> QED
      BY <1>2, <1>4, <2>1 DEF Serve
  <1>5. ASSUME NEW l \in {"refused", "ram", "version", "origin"}, Move(v, l), UNCHANGED fill,
               fill[v] = Nothing
        PROVE  TypeInv' /\ TornExplained'
    <2>1. PICK q : q = [view[v] EXCEPT !.pc = l]
      OBVIOUS
    <2>2. q \in ViewType /\ q.pc = l
      BY <1>t, <1>5, <2>1 DEF Fits, ViewType
    <2>3. view' = [view EXCEPT ![v] = q]
      BY <1>5, <2>1 DEF Move
    <2> QED
      BY <1>2, <1>5, <2>2, <2>3
  <1>6. ASSUME Fetches(v) PROVE TypeInv' /\ TornExplained'
    <2>0. fill[v] = Nothing
      BY <1>6, <1>t DEF Fetches, In, Fits
    <2>1. CASE UNCHANGED fill
      BY <1>5, <1>6, <2>0, <2>1, <1>4 DEF Fetches, Refuse
    <2>2. CASE ~UNCHANGED fill
      <3>0. PICK i \in Items : i = view[v].item
        BY <1>t DEF Fits, ViewType
      <3>1. PICK f : f = [pc |-> IF KeptOnDisk(v, i) THEN "open" ELSE "set", item |-> i]
        OBVIOUS
      <3>2. Serve(v) /\ fill' = [fill EXCEPT ![v] = f]
        BY <1>6, <2>2, <3>0, <3>1 DEF Fetches
      <3>3. f \in FillType /\ f.pc \in {"open", "set"} /\ f.item = i
        BY <3>1 DEF FillType
      <3>4. f.pc = "open" => i \in Profiles /\ v \notin atCore
        BY <1>t, <3>1, ItemFacts DEF KeptOnDisk
      <3>5. PICK q \in ViewType : q = [pc |-> "served", item |-> Master]
        BY <1>t, ItemFacts, NothingFits
      <3>6. q.pc = "served"
        BY <3>5
      <3>7. Fits(v, q, f)
        BY <3>3, <3>4, <3>6 DEF Fits
      <3>8. fill[v].pc # "write"
        BY <1>t, <2>0, NothingFits
      <3> QED
        BY <1>1, <3>2, <3>3, <3>5, <3>7, <3>8 DEF Serve
    <2> QED
      BY <2>1, <2>2
  <1>7. ASSUME ReadDisk(v) \/ (\E c : GetBuffer(v, c)) \/ VersionFound(v)
        PROVE  TypeInv' /\ TornExplained'
    <2>1. UNCHANGED fill /\ fill[v] = Nothing
      BY <1>7, <1>t DEF ReadDisk, GetBuffer, VersionFound, In, Fits
    <2> QED
      BY <1>4, <1>5, <1>7, <2>1 DEF ReadDisk, GetBuffer, VersionFound, Refuse
  <1> QED
    BY <1>3, <1>6, <1>7 DEF Watch, Ask, ReadRam, FindVersion, FetchObject, AskCore, ReadCoreRam,
       FindVersionRow, FetchObjectAtCore

\* A step of a caching task: truncation makes the task the writer of its file, and
\* the last writer makes the file whole.
LEMMA FillStep ==
  ASSUME TypeInv, TornExplained, NEW v \in Viewers, Fill(v) \/ FillFails(v),
         UNCHANGED <<output, links>>
  PROVE  TypeInv' /\ TornExplained'
  <1>t. /\ applicable \in 0 .. MaxProfiles /\ Fits(v, view[v], fill[v]) /\ fill[v] \in FillType
        /\ disk \in [Profiles -> {"none", "torn", "whole"}]
    BY DEF TypeInv, Fits
  <1>0. UNCHANGED <<view, applicable, atCore>>
    BY DEF Fill, OpenFile, WriteFile, SetRam, SetCoreRam, FillFails, output, links
  <1>v. view' = [view EXCEPT ![v] = view[v]]
    BY <1>0 DEF TypeInv
  <1>1. ASSUME NEW f, Fits(v, view[v], f), fill' = [fill EXCEPT ![v] = f],
               disk' \in [Profiles -> {"none", "torn", "whole"}]
        PROVE  /\ TypeInv' /\ fill'[v] = f
               /\ \A p \in Profiles : Writing(p)' \ {v} = Writing(p) \ {v}
    <2>1. TypeInv' /\ fill'[v] = f /\ \A u \in Viewers \ {v} : fill'[u] = fill[u]
      BY <1>0, <1>1, <1>v, OneMoves
    <2> QED
      BY <2>1 DEF Writing
  <1>2. Fits(v, view[v], Nothing)
    BY <1>t, NothingFits DEF Fits
  <1>3. ASSUME NEW l \in {"write", "set"}, fill[v].pc \in {"open", "write"}
        PROVE  \E f : /\ f = [fill[v] EXCEPT !.pc = l] /\ f.pc = l /\ f.item = fill[v].item
                      /\ Fits(v, view[v], f)
    <2>1. PICK f : f = [fill[v] EXCEPT !.pc = l]
      OBVIOUS
    <2>2. f \in FillType /\ f.pc = l /\ f.item = fill[v].item
      BY <1>t, <1>3, <2>1 DEF FillType
    <2>3. view[v].pc \notin {"disk", "ram", "version", "origin"}
      BY <1>t, <1>3, NothingFits DEF Fits
    <2>4. Fits(v, view[v], f)
      BY <1>t, <1>3, <2>2, <2>3 DEF Fits
    <2> QED
      BY <2>1, <2>2, <2>4
  <1>4. CASE OpenFile(v)
    <2>0. fill[v].pc = "open"
      BY <1>4 DEF OpenFile
    <2>1. PICK i \in Profiles : i = fill[v].item
      BY <1>t, <2>0 DEF Fits
    <2>2. PICK f : /\ f = [fill[v] EXCEPT !.pc = "write"] /\ f.pc = "write" /\ f.item = i
                   /\ Fits(v, view[v], f)
      BY <1>3, <2>0, <2>1
    <2>3. /\ fill' = [fill EXCEPT ![v] = f] /\ disk' = [disk EXCEPT ![i] = "torn"]
          /\ UNCHANGED cut
      BY <1>4, <2>1, <2>2 DEF OpenFile
    <2>4. /\ disk' \in [Profiles -> {"none", "torn", "whole"}]
          /\ \A p \in Profiles \ {i} : disk'[p] = disk[p]
      BY <1>t, <2>3
    <2>5. TypeInv' /\ fill'[v] = f /\ \A p \in Profiles : Writing(p)' \ {v} = Writing(p) \ {v}
      BY <1>1, <2>2, <2>3, <2>4
    <2>6. v \in Writing(i)'
      BY <2>2, <2>5 DEF Writing
    <2>7. \A p \in Profiles : v \notin Writing(p)
      BY <2>0 DEF Writing
    <2>8. TornExplained'
      BY <2>3, <2>4, <2>5, <2>6, <2>7 DEF TornExplained
    <2> QED
      BY <2>5, <2>8
  <1>5. CASE WriteFile(v)
    <2>0. fill[v].pc = "write"
      BY <1>5 DEF WriteFile
    <2>1. PICK i \in Profiles : i = fill[v].item
      BY <1>t, <2>0 DEF Fits
    <2>2. PICK f : /\ f = [fill[v] EXCEPT !.pc = "set"] /\ f.pc = "set" /\ f.item = i
                   /\ Fits(v, view[v], f)
      BY <1>3, <2>0, <2>1
    <2>3. PICK d \in {"torn", "whole"} :
              /\ Writing(i) = {v} => d = "whole" \/ i \in cut
              /\ disk' = [disk EXCEPT ![i] = IF @ = "none" THEN "none" ELSE d]
      BY <1>5, <2>1 DEF WriteFile
    <2>4. fill' = [fill EXCEPT ![v] = f] /\ UNCHANGED cut
      BY <1>5, <2>2 DEF WriteFile
    <2>5. /\ disk' \in [Profiles -> {"none", "torn", "whole"}]
          /\ disk'[i] = "torn" => d = "torn"
          /\ \A p \in Profiles \ {i} : disk'[p] = disk[p]
      BY <1>t, <2>3
    <2>6. TypeInv' /\ fill'[v] = f /\ \A p \in Profiles : Writing(p)' \ {v} = Writing(p) \ {v}
      BY <1>1, <2>2, <2>4, <2>5
    <2>7. \A p \in Profiles \ {i} : Writing(p)' = Writing(p)
      <3>1. \A p \in Profiles \ {i} : v \notin Writing(p) /\ v \notin Writing(p)'
        BY <2>1, <2>2, <2>6 DEF Writing
      <3> QED
        BY <2>6, <3>1
    <2>8. v \in Writing(i)
      BY <2>0, <2>1 DEF Writing
    <2>9. disk'[i] = "torn" => i \in cut' \/ Writing(i)' # {}
      BY <2>3, <2>4, <2>5, <2>6, <2>8
    <2>10. TornExplained'
      BY <2>4, <2>5, <2>7, <2>9 DEF TornExplained
    <2> QED
      BY <2>6, <2>10
  <1>6. CASE SetRam(v) \/ SetCoreRam(v) \/ FillFails(v)
    <2>1. fill' = [fill EXCEPT ![v] = Nothing] /\ UNCHANGED disk
      BY <1>6 DEF SetRam, SetCoreRam, FillFails, caches
    <2>2. TypeInv' /\ \A p \in Profiles : Writing(p)' \ {v} = Writing(p) \ {v}
      BY <1>1, <1>2, <1>t, <2>1
    <2>3. ASSUME NEW p \in Profiles
          PROVE  /\ p \in cut => p \in cut'
                 /\ v \in Writing(p) => p \in cut'
      <3>1. CASE FillFails(v)
        BY <3>1 DEF FillFails, Writing
      <3>2. CASE SetRam(v) \/ SetCoreRam(v)
        BY <3>2 DEF SetRam, SetCoreRam, Writing
      <3> QED
        BY <1>6, <3>1, <3>2
    <2>4. \A p \in Profiles : Writing(p) # {} => p \in cut' \/ Writing(p)' # {}
      BY <2>2, <2>3
    <2>5. TornExplained'
      BY <2>1, <2>3, <2>4, TornKept
    <2> QED
      BY <2>2, <2>5
  <1> QED
    BY <1>4, <1>5, <1>6 DEF Fill

\* A process dies: those who wrote at the edge leave their files cut short; no viewer
\* of the core writes a file.
LEMMA CrashStep ==
  ASSUME TypeInv, TornExplained, EdgeCrash \/ CoreCrash, UNCHANGED <<output, links>>
  PROVE  TypeInv' /\ TornExplained'
  <1>t. /\ applicable \in 0 .. MaxProfiles /\ \A v \in Viewers : Fits(v, view[v], fill[v])
        /\ disk \in [Profiles -> {"none", "torn", "whole"}]
    BY DEF TypeInv
  <1>1. PICK gone : Crash(gone) /\ ((gone = atCore /\ UNCHANGED cut)
                       \/ cut' = cut \cup {i \in Profiles : Writing(i) # {}})
    BY DEF EdgeCrash, CoreCrash
  <1>2. UNCHANGED <<disk, applicable, atCore>>
    BY <1>1 DEF Crash, caches, output, links
  <1>3. ASSUME NEW v \in Viewers
        PROVE  /\ Fits(v, view'[v], fill'[v])
               /\ fill'[v] = IF v \in gone THEN Nothing ELSE fill[v]
    <2>0. view[v] \in ViewType
      BY <1>t DEF Fits
    <2>1. PICK q : q = [view[v] EXCEPT !.pc = "refused"]
      OBVIOUS
    <2>2. q \in ViewType /\ q.pc = "refused"
      BY <2>0, <2>1 DEF ViewType
    <2>3. /\ view'[v] = IF v \in gone /\ ~In(v, "served") THEN q ELSE view[v]
          /\ fill'[v] = IF v \in gone THEN Nothing ELSE fill[v]
      BY <1>1, <2>1 DEF Crash
    <2>4. Fits(v, view[v], fill[v]) /\ Nothing \in FillType /\ Nothing.pc = "none"
      BY <1>t, NothingFits
    <2> QED
      BY <2>2, <2>3, <2>4 DEF Fits
  <1>4. view' = [v \in Viewers |-> view'[v]] /\ fill' = [v \in Viewers |-> fill'[v]]
    BY <1>1 DEF Crash
  <1>5. TypeInv'
    <2>1. \A v \in Viewers : Fits(v, view[v], fill[v])'
      BY <1>2, <1>3 DEF Fits
    <2> QED
      BY <1>2, <1>4, <1>t, <2>1 DEF TypeInv
  <1>6. ASSUME NEW p \in Profiles
        PROVE  /\ p \in cut => p \in cut'
               /\ Writing(p) # {} => p \in cut' \/ Writing(p)' # {}
    <2>1. CASE cut' = cut \cup {i \in Profiles : Writing(i) # {}}
      BY <2>1
    <2>2. CASE gone = atCore /\ UNCHANGED cut
      <3>1. ASSUME NEW v \in Writing(p) PROVE v \in Writing(p)'
        <4>1. v \in Viewers /\ v \notin atCore
          BY <1>t DEF Writing, Fits
        <4> QED
          BY <1>3, <2>2, <4>1 DEF Writing
      <3> QED
        BY <2>2, <3>1
    <2> QED
      BY <1>1, <2>1, <2>2
  <1>7. TornExplained'
    BY <1>2, <1>6, TornKept
  <1> QED
    BY <1>5, <1>7

LEMMA TornNext == TypeInv /\ TornExplained /\ [Next]_vars => TypeInv' /\ TornExplained'
  <1> SUFFICES ASSUME TypeInv, TornExplained, [Next]_vars PROVE TypeInv' /\ TornExplained'
    OBVIOUS
  <1>1. ASSUME UNCHANGED <<view, fill, atCore, applicable>>,
               disk' \in [Profiles -> {"none", "torn", "whole"}],
               \A p \in Profiles : disk'[p] = "torn" => disk[p] = "torn" /\ cut' = cut
        PROVE  TypeInv' /\ TornExplained'
    <2>1. \A p \in Profiles : Writing(p)' = Writing(p)
      BY <1>1 DEF Writing
    <2>2. \A v \in Viewers : Fits(v, view[v], fill[v])'
      BY <1>1 DEF TypeInv, Fits
    <2>3. TypeInv'
      BY <1>1, <2>2 DEF TypeInv
    <2> QED
      BY <1>1, <2>1, <2>3 DEF TornExplained
  <1>2. CASE (OutputNext /\ UNCHANGED delivery) \/ UNCHANGED vars
    <2>1. UNCHANGED <<view, fill, atCore, disk, cut, applicable>>
      BY <1>2 DEF OutputNext, Add, AnnounceOutput, RemoveVideo, delivery, vars, output,
         links, caches
    <2> QED
      BY <1>1, <2>1 DEF TypeInv
  <1>3. ASSUME UNCHANGED <<output, links>>,
               \/ Purge \/ \E i \in Items : RamExpires(i)
               \/ \E v \in Viewers : RefusalExpires(v) \/ NewLink(v)
        PROVE  TypeInv' /\ TornExplained'
    <2>1. /\ UNCHANGED <<view, fill, atCore, applicable>>
          /\ UNCHANGED <<disk, cut>> \/ disk' = [p \in Profiles |-> "none"]
      BY <1>3 DEF Purge, RamExpires, RefusalExpires, NewLink, caches, output, links
    <2> QED
      BY <1>1, <2>1 DEF TypeInv
  <1> QED
    BY <1>2, <1>3, WatchStep, FillStep, CrashStep DEF Next, Deliver

LEMMA TornAlways == Spec => [](TypeInv /\ TornExplained)
  <1>1. Init => TypeInv /\ TornExplained
    <2> SUFFICES ASSUME Init PROVE TypeInv /\ TornExplained
      OBVIOUS
    <2>1. applicable \in 0 .. MaxProfiles
      BY DEF Init, OutputInit
    <2>2. ASSUME NEW v \in Viewers PROVE Fits(v, view[v], fill[v])
      <3>1. view[v] = [pc |-> "refused", item |-> Master] /\ fill[v] = Nothing
        BY DEF Init
      <3>2. PICK q : q = [pc |-> "refused", item |-> Master]
        OBVIOUS
      <3>m. Master \in Items
        BY <2>1, ItemFacts
      <3>q. q \in ViewType /\ q.pc = "refused"
        BY <3>2, <3>m DEF ViewType
      <3>3. fill[v] \in FillType /\ fill[v].pc = "none"
        BY <2>1, <3>1, NothingFits
      <3> QED
        BY <3>1, <3>2, <3>3, <3>q DEF Fits
    <2> QED
      BY <2>1, <2>2 DEF Init, TypeInv, TornExplained
  <1> QED
    BY <1>1, TornNext, PTL DEF Spec

\* A segment that is not whole is served from disk only while a task writes it or
\* after a write of it was cut short, however many viewers fetch, write and read the
\* same file while others purge it, fail or die.
THEOREM TornIsExplained == Spec => TornOnlyAfterCut
  <1>1. TypeInv /\ TornExplained /\ [Next]_vars =>
          [\A v \in Viewers :
             LET i == view[v].item IN
             In(v, "disk") /\ view'[v].pc = "served" /\ disk[i] = "torn" =>
                 i \in cut \/ Writing(i) # {}]_vars
    BY DEF TypeInv, Fits, TornExplained, In
  <1> QED
    BY <1>1, TornAlways, PTL DEF Spec, TornOnlyAfterCut

-----------------------------------------------------------------------------
(* What a player is refused once the video is announced                    *)

\* Players ask for what the master playlist lists, and when video.transcoded is out
\* all of it is stored.
Listed == \A v \in Viewers : view[v].item \in Complete
Promised == announced => objects = Complete

\* Once the video is announced the origin has an answer for every player: a request
\* that got so far is refused only when a call fails or the process dies.
RefusedByMishapOnly ==
    [][\A v \in Viewers :
          announced /\ In(v, "origin") /\ view'[v].pc = "refused" => Mishap]_vars

\* And no refusal gets into an HTTP cache from then on, as long as the video is there:
\* what is kept dates from before or from a failed call.
KeptByMishapOnly ==
    [][announced /\ ~removed /\ ~(kept' \subseteq kept) => Mishap]_vars

LEMMA PromisedNext == Promised /\ [Next]_vars => Promised'
  <1> SUFFICES ASSUME Promised, [Next]_vars PROVE Promised'
    OBVIOUS
  <1>1. CASE OutputNext
    <2>1. ASSUME NEW x \in Complete, Add(x) PROVE Promised'
      BY <2>1 DEF Add, Promised, Complete
    <2>2. CASE AnnounceOutput \/ RemoveVideo
      BY <2>2 DEF AnnounceOutput, RemoveVideo, Promised, Complete
    <2> QED
      BY <1>1, <2>1, <2>2 DEF OutputNext
  <1>2. CASE UNCHANGED output
    BY <1>2 DEF output, Promised, Complete
  <1> QED
    BY <1>1, <1>2 DEF Next, Deliver, vars

\* A step of a request by the place it was at.
LEMMA WatchMoves ==
  ASSUME TypeInv, Listed, NEW v \in Viewers, Watch(v)
  PROVE  /\ \A u \in Viewers \ {v} : view'[u] = view[u]
         /\ view'[v].item \in Complete
         /\ In(v, "origin") => Fetches(v)
  <1>t. view = [u \in Viewers |-> view[u]] /\ \A u \in Viewers : view[u] \in ViewType
    BY DEF TypeInv, Fits
  <1>m. Master \in Complete
    BY DEF Complete
  <1>1. ASSUME NEW l, Move(v, l)
        PROVE  (\A u \in Viewers \ {v} : view'[u] = view[u]) /\ view'[v].item \in Complete
    BY <1>t, <1>1 DEF Move, Listed, ViewType
  <1>2. ASSUME Serve(v)
        PROVE  (\A u \in Viewers \ {v} : view'[u] = view[u]) /\ view'[v].item \in Complete
    BY <1>t, <1>m, <1>2 DEF Serve
  <1>3. CASE Asks(v)
    <2>1. PICK i \in Complete :
             /\ In(v, "served") \/ In(v, "refused")
             /\ view' = [view EXCEPT ![v] = [item |-> i, pc |-> FirstStop(v, i)]]
      BY <1>3 DEF Asks
    <2> QED
      BY <1>t, <2>1 DEF In
  <1>4. CASE ReadDisk(v)
    BY <1>1, <1>2, <1>4 DEF ReadDisk, In
  <1>5. CASE GetBuffer(v, ram) \/ GetBuffer(v, coreRam)
    BY <1>1, <1>2, <1>5 DEF GetBuffer, In, Refuse
  <1>6. CASE VersionFound(v)
    BY <1>1, <1>6 DEF VersionFound, In, Refuse
  <1>7. CASE Fetches(v)
    BY <1>1, <1>2, <1>7 DEF Fetches, Refuse
  <1> QED
    BY <1>3, <1>4, <1>5, <1>6, <1>7
       DEF Watch, Ask, AskCore, ReadRam, ReadCoreRam, FindVersion, FindVersionRow, FetchObject,
           FetchObjectAtCore

\* The other steps of the delivery leave requests where they are, or end them by a crash.
LEMMA OtherMoves ==
  ASSUME TypeInv, [Next]_vars, ~ \E v \in Viewers : Watch(v)
  PROVE  /\ \A v \in Viewers : view'[v].item = view[v].item
         /\ UNCHANGED view \/ Mishap
  <1>1. CASE OutputNext /\ UNCHANGED delivery
    BY <1>1 DEF delivery
  <1>2. CASE UNCHANGED vars
    BY <1>2 DEF vars, delivery
  <1>3. ASSUME NEW v \in Viewers, Fill(v) \/ FillFails(v) PROVE UNCHANGED view
    BY <1>3 DEF Fill, FillFails, OpenFile, WriteFile, SetRam, SetCoreRam
  <1>4. ASSUME (\E i \in Items : RamExpires(i))
               \/ \E v \in Viewers : RefusalExpires(v) \/ NewLink(v)
        PROVE  UNCHANGED view
    BY <1>4 DEF RamExpires, RefusalExpires, NewLink
  <1>5. CASE Purge
    BY <1>5 DEF Purge
  <1>6. CASE EdgeCrash \/ CoreCrash
    BY <1>6 DEF EdgeCrash, CoreCrash, Crash, TypeInv, Fits, ViewType
  <1> QED
    BY <1>1, <1>2, <1>3, <1>4, <1>5, <1>6 DEF Next, Deliver

LEMMA ListedNext == TypeInv /\ Listed /\ [Next]_vars => Listed'
  <1> SUFFICES ASSUME TypeInv, Listed, [Next]_vars PROVE Listed'
    OBVIOUS
  <1>1. applicable' = applicable
    BY DEF Next, Deliver, OutputNext, Add, AnnounceOutput, RemoveVideo, output, vars
  <1>2. \A v \in Viewers : view'[v].item \in Complete
    BY WatchMoves, OtherMoves DEF Listed
  <1> QED
    BY <1>1, <1>2 DEF Listed, Complete

\* Once video.transcoded is out no player gets a 404 from the origin and no HTTP cache
\* gets one to keep, whatever was asked for too early before and whoever else plays,
\* purges or fails.
THEOREM AnnouncedIsFound == Spec => RefusedByMishapOnly /\ KeptByMishapOnly
  <1>1. Init => Listed /\ Promised
    BY DEF Init, OutputInit, Listed, Promised, Complete
  <1>2. TypeInv /\ Listed /\ Promised /\ [Next]_vars =>
          [\A v \in Viewers :
             announced /\ In(v, "origin") /\ view'[v].pc = "refused" => Mishap]_vars
    <2> SUFFICES ASSUME TypeInv, Listed, Promised, [Next]_vars, NEW v \in Viewers,
                        announced, In(v, "origin"), view'[v].pc = "refused"
                 PROVE  Mishap
      OBVIOUS
    <2>1. CASE \E u \in Viewers : Watch(u)
      <3>1. PICK u \in Viewers : Watch(u)
        BY <2>1
      <3>2. u = v /\ Fetches(v)
        BY <3>1, WatchMoves DEF In
      <3>3. view[v].item \in objects
        BY DEF Listed, Promised
      <3>4. view'[v].pc = "served" \/ Mishap
        BY <3>2, <3>3 DEF Fetches, Serve, TypeInv
      <3> QED
        BY <3>4
    <2>2. CASE ~ \E u \in Viewers : Watch(u)
      BY <2>2, OtherMoves DEF In
    <2> QED
      BY <2>1, <2>2
  <1>3. TypeInv /\ Listed /\ Promised /\ [Next]_vars =>
          [announced /\ ~removed /\ ~(kept' \subseteq kept) => Mishap]_vars
    <2> SUFFICES ASSUME TypeInv, Listed, Promised, [Next]_vars, announced, ~removed,
                        ~(kept' \subseteq kept)
                 PROVE  Mishap
      OBVIOUS
    <2>1. PICK v \in Viewers : Watch(v)
      BY DEF Next, Deliver, OutputNext, Fill, FillFails, OpenFile, WriteFile, SetRam, SetCoreRam,
         RamExpires, RefusalExpires, NewLink, Purge, EdgeCrash, CoreCrash, Crash, vars, delivery
    <2>2. GetBuffer(v, ram) \/ GetBuffer(v, coreRam) \/ VersionFound(v) \/ Fetches(v)
      BY <2>1 DEF Watch, Ask, AskCore, Asks, ReadDisk, ReadRam, ReadCoreRam, FindVersion,
         FindVersionRow, FetchObject, FetchObjectAtCore
    <2>3. view[v].item \in objects
      BY DEF Listed, Promised
    <2> QED
      BY <2>2, <2>3 DEF GetBuffer, VersionFound, Fetches
  <1> QED
    BY <1>1, <1>2, <1>3, TornAlways, ListedNext, PromisedNext,
       PTL DEF Spec, RefusedByMishapOnly, KeptByMishapOnly
=============================================================================
