---------------------------- MODULE MCFieldMerge ----------------------------
(* Instances of FieldMerge for TLC.                                        *)
EXTENDS FieldMerge
=============================================================================
