------------------------------- MODULE RootKey -------------------------------
(***************************************************************************)
(* hex_str_to_vec (src/src/utils.rs) and check_auth_args (src/src/auth.rs) *)
(* applied to the root_public_key of the config file at each start.  A     *)
(* string is its sequence of byte values; the decoder's loop is a          *)
(* recursive operator over the index, the u8 accumulator b and the output. *)
(* KeyLen is the byte length check_auth_args demands (32 in the code).     *)
(***************************************************************************)
EXTENDS Integers, Sequences, Bitwise

CONSTANTS
  Alphabet,   \* byte values a config string may contain
  MaxLen,     \* bound: length of the configured string
  KeyLen,     \* required key length in bytes
  None        \* model value: hex_str_to_vec returned None

ASSUME Alphabet \subseteq 0..255 /\ MaxLen \in Nat /\ KeyLen \in Nat \ {0}

Strings == UNION {[1..n -> Alphabet] : n \in 0..MaxLen}

VARIABLES
  rootKey,    \* cfg.root_public_key
  key         \* the result of check_auth_args: the key bytes or "InvalidRootKey"

vars == <<rootKey, key>>

\* the match of hex_str_to_vec on one byte: its value, or -1 for `return None`
Nibble(c) ==
  CASE c \in 65..70  -> c - 65 + 10
    [] c \in 97..102 -> c - 97 + 10
    [] c \in 48..57  -> c - 48
    [] OTHER         -> -1

(* The loop body at 1-based position i: b <<= 4 on the u8 accumulator,    *)
(* b |= nibble, and after every odd 0-based index push b and clear it.     *)
(* The bytes after the last odd index are dropped.                         *)
RECURSIVE HexLoop(_, _, _, _)
HexLoop(s, i, b, out) ==
  IF i > Len(s) THEN out
  ELSE LET n  == Nibble(s[i])
           b1 == ((b * 16) % 256) | n
       IN IF n = -1 THEN None
          ELSE IF (i - 1) % 2 = 1
                 THEN HexLoop(s, i + 1, 0, Append(out, b1))
                 ELSE HexLoop(s, i + 1, b1, out)

\* hex_str_to_vec
hex_str_to_vec(s) == HexLoop(s, 1, 0, <<>>)

\* check_auth_args: decode, then the length check (the Ed25519 point check
\* of PublicKey::from_bytes is not modelled)
check_auth_args(s) ==
  LET v == hex_str_to_vec(s) IN
  IF v = None \/ Len(v) # KeyLen THEN "InvalidRootKey" ELSE v

Init ==
  /\ rootKey \in Strings
  /\ key = check_auth_args(rootKey)

\* the operator edits root_public_key and restarts the bridge
restart_with(s) ==
  /\ rootKey' = s
  /\ key' = check_auth_args(s)

Next == \E s \in Strings : restart_with(s)

Spec == Init /\ [][Next]_vars

-----------------------------------------------------------------------------
\* a hex string: an even number of hex digits
IsHexDigit(c) == c \in (48..57) \cup (65..70) \cup (97..102)

IsHexString(s) == Len(s) % 2 = 0 /\ \A i \in DOMAIN s : IsHexDigit(s[i])

(* The bridge accepts a root key only when it is the hex string of exactly *)
(* KeyLen bytes (spec section 6: "root_public_key: hex string of 32        *)
(* bytes").                                                                *)
RootKeyWellFormed ==
  key # "InvalidRootKey" => IsHexString(rootKey) /\ Len(rootKey) = 2 * KeyLen

=============================================================================
