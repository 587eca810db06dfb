---------------------------- MODULE MCReaderTools ----------------------------
(* The reader tools on a small instance.                                   *)
EXTENDS ReaderTools
=============================================================================
