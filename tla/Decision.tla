------------------------------ MODULE Decision ------------------------------
(***************************************************************************)
(* The vote counting and status decision of respond_to_operation           *)
(* (src/src/routes.rs) in the integer width of the code, for one operation *)
(* that needs a threshold.  The counts are folded in u8, the cosigner      *)
(* count is cast `as u8`, and `total_cosigners - threshold` is a u8        *)
(* subtraction; startup (src/src/startup.rs) bounds the threshold by the   *)
(* number of cosigners but not that number itself.  Width stands for the 8 *)
(* bits of u8.  Whether an overflow panics or wraps depends on the build   *)
(* (overflow checks on in debug, off in release), so the build is a        *)
(* nondeterministic choice of Init.  A panic unwinds the spawned handler:  *)
(* its transaction is dropped and nothing is written.                      *)
(***************************************************************************)
EXTENDS Integers

CONSTANTS
  Width,     \* bits of the counters (8 in the code)
  NRange,    \* numbers of cosigners the config may list
  Builds     \* the builds considered: "debug" and/or "release"

ASSUME Width \in Nat \ {0} /\ NRange \subseteq 2..1000
       /\ Builds \subseteq {"debug", "release"}

Pending == 1
Approved == 2
Discarded == 3

UMax == 2^Width - 1

VARIABLES
  build,     \* "debug" or "release"
  n,         \* cosigners_by_xpub.len()
  t,         \* the threshold of the operation's type (u8, 1..n)
  acks,      \* CosignerOpStatus rows with ack = Some(true), the initiator's included
  nacks,     \* rows with ack = Some(false)
  status,
  panicked   \* whether a response panicked

vars == <<build, n, t, acks, nacks, status, panicked>>

\* a u8 result: the value, or "overflow" where the operation leaves the range
Wrap(x) == x % 2^Width
Overflows(x) == x < 0 \/ x > UMax

(* The if-chain of respond_to_operation on the u8 values: ACKs first, and  *)
(* only when they fall short the subtraction, which may overflow.  The     *)
(* result is the status and whether an overflow happened.                 *)
Decide(ackc, nackc, total, thr) ==
  IF ackc >= thr THEN <<Approved, FALSE>>
  ELSE <<IF nackc > Wrap(total - thr) THEN Discarded ELSE Pending,
         Overflows(total - thr)>>

Init ==
  /\ build \in Builds
  /\ n \in NRange
  /\ t \in 1..(IF n < UMax THEN n ELSE UMax)
  /\ acks = 1
  /\ nacks = 0
  /\ status = Pending
  /\ panicked = FALSE

(* A cosigner that has not voted responds to the pending operation: its    *)
(* row is updated, the rows are folded into (ack_count, nack_count) in u8, *)
(* total_cosigners is n `as u8`, and the decision is taken.  In a debug    *)
(* build any overflow panics and the transaction is rolled back.           *)
respond_to_operation(ack) ==
  LET a1 == IF ack THEN acks + 1 ELSE acks
      n1 == IF ack THEN nacks ELSE nacks + 1
      d  == Decide(Wrap(a1), Wrap(n1), Wrap(n), t)
      overflow == Overflows(a1) \/ Overflows(n1) \/ d[2]
  IN
  /\ status = Pending
  /\ ~panicked
  /\ acks + nacks < n
  /\ IF build = "debug" /\ overflow
       THEN /\ panicked' = TRUE
            /\ UNCHANGED <<acks, nacks, status>>
       ELSE /\ acks' = a1
            /\ nacks' = n1
            /\ status' = d[1]
            /\ UNCHANGED panicked
  /\ UNCHANGED <<build, n, t>>

\* Voting ends when the operation is decided, every cosigner has voted, or a
\* response panicked: these states have no successor.
Next == \E ack \in BOOLEAN : respond_to_operation(ack)

Spec == Init /\ [][Next]_vars

-----------------------------------------------------------------------------
\* spec section 4.3.2 on unbounded integers
Rule(a, k) ==
  IF a >= t THEN Approved ELSE IF k > n - t THEN Discarded ELSE Pending

(* After the first response the status the bridge stores is what the     *)
(* threshold rule gives on the true numbers of ACKs, NACKs and cosigners:  *)
(* Approved once the ACKs reach the threshold, Discarded once the NACKs    *)
(* exceed n - threshold, Pending before.  (post_operation creates the      *)
(* operation Pending whatever the threshold, so before any response the    *)
(* rule is not applied.)  A response that panics is rolled back and does   *)
(* not break this.                                                         *)
StatusByRule ==
  acks + nacks > 1 => status = Rule(acks, nacks)

=============================================================================
