---------------------------- MODULE MCJsonlWriter -----------------------------
(* A small instance of JsonlWriter for TLC; its .cfg gives the constants.  *)
EXTENDS JsonlWriter
===============================================================================
