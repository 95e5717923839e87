----------------------------- MODULE MCRecvPath -----------------------------
EXTENDS RecvPath

\* Sizes that parse rejects, that keep it in its loop or make it lose its place.
AnySizes == {-1, 0, 1, 2, 3, 5}

\* One or two packets of any size, or three of sizes from the header's on.
Two == UNION {[1..n -> Packets] : n \in 1..2}
Three == [1..3 -> [size : {2, 3, 5}, kind : Kinds]]
TwoOrThree == Two \cup Three
=============================================================================
