----------------------------- MODULE MCBrowser -----------------------------
(* Two vaults; the first holds two folders at its root, one of them with a *)
(* folder inside.                                                          *)
EXTENDS Browser, TLC

CONSTANTS v1, v2, a, b, c

MCVaultOf == [f \in Folder |-> v1]
MCUp == [f \in Folder |-> IF f = b THEN a ELSE Root]
=============================================================================
