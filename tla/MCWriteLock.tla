----------------------------- MODULE MCWriteLock -----------------------------
(***************************************************************************)
(* Model-checking instance of WriteLock: three cosigner connections, so a  *)
(* waiter can have two others ahead of or overtaking it.                   *)
(***************************************************************************)
EXTENDS WriteLock

CONSTANTS c1, c2, c3

MCClients == {c1, c2, c3}

=============================================================================
