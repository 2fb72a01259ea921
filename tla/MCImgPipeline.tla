--------------------------- MODULE MCImgPipeline ----------------------------
(* Small instances of the image pipeline for TLC.                          *)
EXTENDS ImgPipeline, TLC

Perms == Permutations(Key)
=============================================================================
