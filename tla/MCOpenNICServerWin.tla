-------------------------- MODULE MCOpenNICServerWin --------------------------
(* One T1 resolver, one of dig, and one server of the interface's own. *)
EXTENDS OpenNICServerWin

CONSTANTS a, b, o

MCOriginal == <<o>>
=============================================================================
