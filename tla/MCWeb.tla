-------------------------------- MODULE MCWeb --------------------------------
(* The chat program with two browsers, one that sends and is slow, and one that only
   listens and may leave, for TLC. *)
EXTENDS Hub

CONSTANTS b1, b2

MCMaxFrames == [c \in Client |-> IF c = b1 THEN 2 ELSE 0]
MCMaxPings == [c \in Client |-> IF c = b1 THEN 0 ELSE 1]
=============================================================================
