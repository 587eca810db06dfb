---------------------------- MODULE MCExtraction ----------------------------
(* Instances of Extraction for TLC.                                        *)
EXTENDS Extraction, TLC

TwoFeatures == <<"analysis", "glossary">>
=============================================================================
