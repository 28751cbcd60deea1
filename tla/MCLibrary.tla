----------------------------- MODULE MCLibrary -----------------------------
(* Two files whose versions alternate between two albums of one artist and  *)
(* a third by another, so that edits move songs between albums.             *)
EXTENDS Library, TLC

MCAlbumOf  == [v \in 1..MaxVersion |-> IF v % 2 = 1 THEN "al1" ELSE "al2"]
MCArtistOf == [a \in Album |-> IF a = "al1" THEN "ar1" ELSE "ar2"]
Symmetry   == Permutations(Path)
=============================================================================
