---------------------------- MODULE AddressIndex ----------------------------
(***************************************************************************)
(* bump_address_indices and get_current_address_indices of                 *)
(* src/src/routes.rs over the NextAddressIndex row.  A bump takes the      *)
(* write lock, checks the count, and in one transaction reads the counter, *)
(* adds the count with checked_add and writes it back.  The handler is not *)
(* wrapped in no_cancel: a client that goes away drops it at any await,    *)
(* which rolls the transaction back and releases the lock.  The counter is *)
(* a u32; its width is the constant IndexWidth.                            *)
(***************************************************************************)
EXTENDS Integers, FiniteSets

CONSTANTS
  Cosigners,    \* clients that bump (model values)
  Counts,       \* the u8 counts the clients send, including 0
  IndexWidth    \* bit width of the counters (32 in the code); bounds the model

IndexMax == 2^IndexWidth - 1

ASSUME Counts \subseteq 0..255 /\ IndexWidth \in Nat \ {0}

NoOne == "no_one"
Chains == {"internal", "external"}

VARIABLES
  next,     \* NextAddressIndex row: next[chain]
  lock,     \* holder of state.write_lock, or NoOne
  cl,       \* in-flight bump of each client
  handed,   \* history: the blocks committed so far, [chain, first, count]
  commits   \* history: the number of bumps committed so far

vars == <<next, lock, cl, handed, commits>>

Idle == [pc |-> "idle", chain |-> "internal", count |-> 0, first |-> 0]

Init ==
  /\ next = [ch \in Chains |-> 0]
  /\ lock = NoOne
  /\ cl = [c \in Cosigners |-> Idle]
  /\ handed = {}
  /\ commits = 0

\* get_next_address_index: the counter of a chain in the NextAddressIndex row
get_next_address_index(ch) == next[ch]

\* update_next_address_index: writes a chain's counter back
update_next_address_index(ch, v) == [next EXCEPT ![ch] = v]

\* Variant of bump_address_indices that reads the counter without the lock.
bump_address_indices_unlocked(c, count, internal) ==
  LET ch == IF internal THEN "internal" ELSE "external" IN
  /\ cl[c].pc = "idle"
  /\ count # 0
  /\ lock' = c
  /\ cl' = [cl EXCEPT ![c] = [pc |-> "txn", chain |-> ch, count |-> count,
                              first |-> get_next_address_index(ch)]]
  /\ UNCHANGED <<next, handed, commits>>

(* Lock, the count check, begin, and the read of the counter.  A count of  *)
(* 0 returns InvalidCount at once, which changes nothing.                  *)
bump_address_indices(c, count, internal) ==
  LET ch == IF internal THEN "internal" ELSE "external" IN
  /\ cl[c].pc = "idle"
  /\ lock = NoOne
  /\ count # 0
  /\ lock' = c
  /\ cl' = [cl EXCEPT ![c] = [pc |-> "txn", chain |-> ch, count |-> count,
                              first |-> get_next_address_index(ch)]]
  /\ UNCHANGED <<next, handed, commits>>

\* Variant of the checked add that is a plain, unchecked add.
checked_add_unchecked(first, count) == first + count

\* Variant of the checked add that wraps around instead of failing.
checked_add_wrapping(first, count) == (first + count) % 2^IndexWidth

\* u32::checked_add; -1 stands for None (overflow)
checked_add(first, count) ==
  IF first + count <= IndexMax THEN first + count ELSE -1

(* checked_add, the update and the commit, then unlock; on overflow the    *)
(* handler returns Unexpected and the transaction is rolled back.          *)
bump_commit(c) ==
  LET w == cl[c]
      new == checked_add(w.first, w.count)
  IN
  /\ w.pc = "txn"
  /\ IF new # -1
       THEN /\ next' = update_next_address_index(w.chain, new)
            /\ handed' = handed \cup {[chain |-> w.chain, first |-> w.first, count |-> w.count]}
            /\ commits' = commits + 1
       ELSE UNCHANGED <<next, handed, commits>>
  /\ lock' = NoOne
  /\ cl' = [cl EXCEPT ![c] = Idle]

(* The client goes away while the handler waits on the database: the      *)
(* future is dropped, the transaction rolled back, the guard released.     *)
bump_cancelled(c) ==
  /\ cl[c].pc = "txn"
  /\ lock' = NoOne
  /\ cl' = [cl EXCEPT ![c] = Idle]
  /\ UNCHANGED <<next, handed, commits>>

\* get_current_address_indices: counter - 1, or None (-1) when it is 0
get_current_address_indices(ch) == IF next[ch] = 0 THEN -1 ELSE next[ch] - 1

Next ==
  \E c \in Cosigners :
    \/ \E count \in Counts, internal \in BOOLEAN : bump_address_indices(c, count, internal)
    \/ bump_commit(c)
    \/ bump_cancelled(c)

Spec == Init /\ [][Next]_vars

-----------------------------------------------------------------------------
TypeOK ==
  /\ next \in [Chains -> 0..IndexMax]
  /\ lock \in Cosigners \cup {NoOne}
  /\ cl \in [Cosigners -> [pc : {"idle", "txn"}, chain : Chains,
                           count : Counts, first : 0..IndexMax]]
  /\ handed \subseteq [chain : Chains, first : 0..IndexMax, count : Counts]
  /\ commits \in Nat

Block(h) == {h.first + k : k \in 0..(h.count - 1)}

(* No address index is handed out twice: every committed bump returned a  *)
(* block of its own (two bumps that read the same counter and both commit  *)
(* would return the same block), the blocks committed on a chain are       *)
(* pairwise disjoint, and they lie below the counter, which                *)
(* get_current_address_indices reports as the last index handed out.      *)
BlocksDisjoint ==
  /\ Cardinality(handed) = commits
  /\ \A h1, h2 \in handed :
       /\ h1 # h2 /\ h1.chain = h2.chain => Block(h1) \cap Block(h2) = {}
       /\ \A i \in Block(h1) : i <= get_current_address_indices(h1.chain)

(* The bump handler implements the abstract allocator: its committed      *)
(* counters move exactly as atomic allocations of the requested counts,    *)
(* never past the counter width.                                           *)
Abstract == INSTANCE AddressAllocator WITH Counts <- Counts \ {0}
AllocatorRefinement == Abstract!Spec

=============================================================================
