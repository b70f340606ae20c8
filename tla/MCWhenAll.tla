------------------------------ MODULE MCWhenAll -------------------------------
(* Small instances of WhenAll for TLC.                                     *)
EXTENDS WhenAll

CONSTANTS a, b, c, d
===============================================================================
