------------------------- MODULE MCThumbnailCache -------------------------
(* Instances of ThumbnailCache for TLC.                                   *)
EXTENDS ThumbnailCache, TLC

CONSTANTS i1, i2, v1   \* two images and a video

MCTypeOf == [k \in Keys |-> IF k = v1 THEN "video" ELSE "image"]

\* The striped request locks: one for each key, or the same one for all.
OwnStripe == [k \in Keys |-> k]
SharedStripe == [k \in Keys |-> i1]

\* Requests of one kind are interchangeable, and so are the executor's threads.
Symmetry == Permutations(LoadRequests) \cup Permutations(Workers)
===========================================================================
