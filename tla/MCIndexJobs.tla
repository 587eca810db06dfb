---------------------------- MODULE MCIndexJobs ----------------------------
(* The reading-index builds on a small instance.                           *)
EXTENDS IndexJobs
=============================================================================
