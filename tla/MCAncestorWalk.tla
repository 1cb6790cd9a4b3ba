---------------------------- MODULE MCAncestorWalk ----------------------------
(* AncestorWalk over every hierarchy on a few identifiers, sound or not.   *)
EXTENDS AncestorWalk

MCDisplay == [r \in RawName |-> r]
MCFold == [n \in Name |-> n]
=============================================================================
