----------------------------- MODULE MCVxi11Io ------------------------------
(* Transfers of one chunk, of exactly two and of a chunk and a half.        *)
EXTENDS Vxi11Io, TLC
=============================================================================
