------------------------------ MODULE MCRootKey ------------------------------
(***************************************************************************)
(* Model-checking instance of RootKey: the bytes at both ends of each hex  *)
(* digit range and their neighbours outside it ('/', '0', '9', ':', '@',   *)
(* 'A', 'F', 'G', '`', 'a', 'f', 'g'), strings of up to three bytes, and a *)
(* one-byte key, so that odd lengths around the key length are reached.   *)
(***************************************************************************)
EXTENDS RootKey

MCAlphabet == {47, 48, 57, 58, 64, 65, 70, 71, 96, 97, 102, 103}

=============================================================================
