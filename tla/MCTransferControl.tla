-------------------------- MODULE MCTransferControl --------------------------
(***************************************************************************)
(* Two callers and two torrents.                                           *)
(***************************************************************************)
EXTENDS TransferControl, TLC

\* Torrents and callers are interchangeable.
Symmetric == Permutations(Hashes) \cup Permutations(Requests)
=============================================================================
