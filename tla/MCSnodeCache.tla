---------------------------- MODULE MCSnodeCache ----------------------------
(* The instances of SnodeCache that TLC checks; their bounds are in the    *)
(* .cfg files.                                                             *)
EXTENDS SnodeCache
=============================================================================
