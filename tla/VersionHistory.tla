--------------------------- MODULE VersionHistory ---------------------------
(***************************************************************************)
(* What the versions of a file are to those who read them: a list that is  *)
(* only ever appended to, of contents that never change, each the whole of *)
(* the payload its checksum names, until the file is removed.              *)
(***************************************************************************)
EXTENDS Naturals, Sequences

CONSTANTS Payloads, ChunksOf

VARIABLES
    contents,  \* checksum and bytes of version 1, 2, ...
    removed    \* the objects of the file have been deleted

Version(p) == [checksum |-> p, bytes |-> [i \in 1 .. ChunksOf[p] |-> p]]

Init == contents = << >> /\ removed = FALSE

AddVersion(p) ==
    /\ ~removed
    /\ contents' = Append(contents, Version(p))
    /\ UNCHANGED removed

Remove ==
    /\ removed' = TRUE
    /\ contents' = << >>

Next == Remove \/ \E p \in Payloads : AddVersion(p)

Spec == Init /\ [][Next]_<<contents, removed>>
=============================================================================
