--------------------------- MODULE MCVfsEncryption ---------------------------
(* The encrypted file on the smallest layout with all cases: chunks of two  *)
(* bytes, chunk headers of two bytes (so that one can be cut), up to two    *)
(* chunks, the last one possibly partial.                                  *)
EXTENDS VfsEncryption

=============================================================================
