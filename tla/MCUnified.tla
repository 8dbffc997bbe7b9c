------------------------------ MODULE MCUnified ------------------------------
(* A small instance of Unified for TLC.                                    *)
EXTENDS MCInference, Unified

=============================================================================
