------------------------------- MODULE MCJobs -------------------------------
(* A job whose workers read it in their transactions and one whose workers *)
(* do not, in a store with two vaults.                                     *)
EXTENDS Jobs, TLC

CONSTANTS w1, w2, j1, j2, v1, v2, a

MCEntryVault == a :> v1
MCIdentity == {[type |-> "upload", vault |-> v1, entry |-> a],
               [type |-> "upload", vault |-> v2, entry |-> a],
               [type |-> "cleanup", vault |-> v2, entry |-> NoEntry]}
MCProgress == {[total |-> 2, completed |-> 0], [total |-> 2, completed |-> 2],
               [total |-> 1, completed |-> 2], [total |-> 1, completed |-> -1]}
=============================================================================
