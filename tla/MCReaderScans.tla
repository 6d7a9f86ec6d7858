---------------------------- MODULE MCReaderScans ----------------------------
(* An instance of ReaderScans for TLC: two coded tags and a plain one. *)
EXTENDS ReaderScans
=============================================================================
