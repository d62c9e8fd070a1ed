------------------------------- MODULE MCCgi -------------------------------
(* Cgi with scripts that run or not, and outputs below, at and (in one run) *)
(* above the capacity of the pipe.                                          *)
EXTENDS CgiProperties

CONSTANTS SIZES

MCScripts == [runs : BOOLEAN, size : SIZES]
=============================================================================
