----------------------------- MODULE MCByteBuf -----------------------------
(* A small instance of ByteBuf for TLC: see the README for the bounds. *)
EXTENDS ByteBuf

MCInts == {-1, 3}
MCTexts == {<<>>, <<7, 0, 7>>, <<7, 8, 9>>}
MCVectors == {<<2, 1>>}
MCMaps == {[k \in {1, 3} |-> 4 - k]}
=============================================================================
