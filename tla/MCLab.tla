-------------------------------- MODULE MCLab --------------------------------
(* A node of the lab 3 program with one peer, for TLC.                       *)
EXTENDS LabNetwork

CONSTANTS n, p1
=============================================================================
