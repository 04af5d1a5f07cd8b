--------------------------- MODULE MCHistorySync ---------------------------
(***************************************************************************)
(* Instances of HistorySync for TLC.  Contents of one kind and the spawn   *)
(* slots are interchangeable, so safety runs take their permutations as    *)
(* symmetry; the runs of temporal properties use none.                     *)
(***************************************************************************)
EXTENDS HistorySync, TLC

Symmetry ==
    Permutations(BlobContent) \cup Permutations(Content \ BlobContent)
        \cup Permutations(Spawned)
=============================================================================
