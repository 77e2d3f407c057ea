---------------------------- MODULE MCFlashUsers ----------------------------
(* Values for the constants of FlashUsers that a .cfg cannot write.        *)
EXTENDS FlashUsers

\* A device behind the image, one that is not aligned to the sectors, and
\* one over the image, which is refused.
SomeStartLengths == {<<9, 6>>, <<7, 6>>, <<0, 6>>}
SomePieces == {<<1, 2>>, <<0, 0>>}
=============================================================================
