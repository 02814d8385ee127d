----------------------------- MODULE MCDevText -----------------------------
(***************************************************************************)
(* A small instance of DevText for TLC.                                    *)
(***************************************************************************)
EXTENDS DevText

\* Keys are the script's numbers, negative ones included.
MCIndices == {-1, 1}
=============================================================================
