--------------------------- MODULE MCAddressIndex ---------------------------
(* Two clients bumping counters three bits wide by 1 or 3 (and by 0),     *)
(* so that checked_add overflows after a few bumps.                        *)
EXTENDS AddressIndex

CONSTANTS p, q

MCCosigners == {p, q}

=============================================================================
