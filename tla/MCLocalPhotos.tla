--------------------------- MODULE MCLocalPhotos ---------------------------
(* LocalPhotos for TLC: a folder is empty, holds one photo of the owner's, *)
(* or both, in the order of their names.                                   *)
EXTENDS LocalPhotos

CONSTANTS o1, o2

MCFolders == {<<>>, <<o2>>, <<o2, o1>>}
=============================================================================
