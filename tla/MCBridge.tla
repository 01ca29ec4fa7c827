------------------------------ MODULE MCBridge ------------------------------
(***************************************************************************)
(* Model-checking instance of Bridge: three cosigners, thresholds 2 for    *)
(* vanilla and 3 (unanimity) for colored operations, the operation types   *)
(* CreateUtxos (vanilla), Issuance (auto-approved) and SendRgb (colored)   *)
(* (the safety run posts only the last two), one reader, and one          *)
(* uploadable byte string, so that every upload after the first one of it *)
(* is deduplicated against the file store.                                 *)
(***************************************************************************)
EXTENDS Bridge, TLC

CONSTANTS a, b, c, r1, b1, f1

MCCosigners == {a, b, c}
MCReaders == {r1}
MCContents == {b1}
MCFileIds == {f1}
MCHash == b1 :> f1
MCOpTypes == {1, 2, 3}

\* bridge_safety: Issuance (auto-approved) and SendRgb (unanimity), where a
\* response leaves the operation pending, approves it or discards it
MCOpTypesSafety == {2, 3}

MCSymmetry == Permutations(MCCosigners)

=============================================================================
