----------------------------- MODULE MCStartup ------------------------------
(***************************************************************************)
(* Model-checking instance of Startup.  Two xpubs; the config files are   *)
(* the one of the first start (Orig), the same cosigners listed in the    *)
(* other order (Reord), a changed colored threshold (ThrChanged), a list   *)
(* repeating an xpub (Dup, which passes validation), and five that do not *)
(* pass it: one cosigner (TooFew), a zero threshold (ZeroThr), an rgb-lib  *)
(* version above the range (Lib04), one with a patch part ("0.3.1",       *)
(* LibPatch) and one whose major does not parse (LibBad).                  *)
(***************************************************************************)
EXTENDS Startup

CONSTANTS x1, x2

MCXpubs == {x1, x2}
Orig == [xpubs |-> <<x1, x2>>, tc |-> 2, tv |-> 1, ver |-> <<0, 3>>]
Reord == [xpubs |-> <<x2, x1>>, tc |-> 2, tv |-> 1, ver |-> <<0, 3>>]
ThrChanged == [xpubs |-> <<x1, x2>>, tc |-> 1, tv |-> 1, ver |-> <<0, 3>>]
Dup == [xpubs |-> <<x1, x2, x2>>, tc |-> 2, tv |-> 1, ver |-> <<0, 3>>]
TooFew == [xpubs |-> <<x1>>, tc |-> 1, tv |-> 1, ver |-> <<0, 3>>]
ZeroThr == [xpubs |-> <<x1, x2>>, tc |-> 0, tv |-> 1, ver |-> <<0, 3>>]

Lib04 == [xpubs |-> <<x1, x2>>, tc |-> 2, tv |-> 1, ver |-> <<0, 4>>]
LibPatch == [xpubs |-> <<x1, x2>>, tc |-> 2, tv |-> 1, ver |-> <<0, 3, 1>>]
LibBad == [xpubs |-> <<x1, x2>>, tc |-> 2, tv |-> 1, ver |-> <<NaN, 3>>]

MCConfigsAll == {Orig, Reord, ThrChanged, Dup, TooFew, ZeroThr, Lib04, LibPatch, LibBad}
MCConfigsDupThenFixed == {Dup, Orig}

=============================================================================
