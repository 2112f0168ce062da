------------------------------ MODULE MCVfsFile ------------------------------
(* The handle on a file of a few bytes, with pages that hold two.           *)
EXTENDS VfsFile

MCModes == {<<"r">>, <<"r", "+">>, <<"r", "b", "+">>, <<"w">>}

=============================================================================
