-------------------------- MODULE AddressAllocator --------------------------
(***************************************************************************)
(* What the address-index service promises (spec section 4.3.6): two       *)
(* independent counters, internal and external, that hand out blocks of    *)
(* fresh indices.  An allocation of a block of count indices moves its     *)
(* counter up by exactly count, atomically, and never past the largest     *)
(* value the counter can hold; nothing else changes a counter.             *)
(***************************************************************************)
EXTENDS Naturals

CONSTANTS Counts, IndexMax

VARIABLE next   \* next[chain]: the first index not yet handed out

Chains == {"internal", "external"}

Init == next = [ch \in Chains |-> 0]

Allocate(ch, count) ==
  /\ next[ch] + count <= IndexMax
  /\ next' = [next EXCEPT ![ch] = @ + count]

Next == \E ch \in Chains, count \in Counts : Allocate(ch, count)

Spec == Init /\ [][Next]_next

=============================================================================
