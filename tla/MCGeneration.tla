---------------------------- MODULE MCGeneration ----------------------------
(***************************************************************************)
(* Small instances of Generation: a native API, a reverse-engineered       *)
(* adapter over HTTP and a browser-driven source.                          *)
(***************************************************************************)
EXTENDS Generation, TLC

CONSTANTS api, reverse, web

Prices == [s \in Sources |-> IF s = web THEN 1 ELSE 2]
=============================================================================
