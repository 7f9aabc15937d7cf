---------------------------- MODULE MCVideoFrame ----------------------------
(* Instances of VideoFrame for TLC.                                        *)
EXTENDS VideoFrame

\* One shape inside the limit, a very flat one outside it.
MCShapes == {<<2, 3>>, <<7, 1>>}

\* An angle that is no turn, and the turns, one from below and one from above.
MCAngles == {45, 87, -180, 273}

\* The listing does not know the size, is behind the file, or is ahead of it.
MCSizes == {-1, 2, 4}

NoPtsValue == -1
=============================================================================
