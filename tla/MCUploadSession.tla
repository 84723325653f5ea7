-------------------------- MODULE MCUploadSession --------------------------
(***************************************************************************)
(* Small instances of UploadSession: a payload of two chunks and one of    *)
(* one chunk, so that a new session may have fewer chunks than the last.   *)
(***************************************************************************)
EXTENDS UploadSession, TLC

CONSTANTS p1, p2

MCPayloads == {p1, p2}
MCChunksOf == (p1 :> 2) @@ (p2 :> 1)
MCSingleChunks == (p1 :> 1) @@ (p2 :> 1)
Symmetry == Permutations(Handlers)
=============================================================================
