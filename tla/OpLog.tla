-------------------------------- MODULE OpLog --------------------------------
(***************************************************************************)
(* What the operation coordinator promises (spec sections 4.3.1 to 4.3.3 *)
(* and 5), with no lock, files, crashes or transactions: a log of          *)
(* operations, each cosigner's vote on each of them and whether it has     *)
(* processed it.  Posting, responding and marking processed are single     *)
(* atomic steps whose guards are the spec's preconditions; the status of   *)
(* an operation changes only in the response that crosses its threshold.  *)
(***************************************************************************)
EXTENDS Integers, Sequences, FiniteSets, FiniteSetsExt

CONSTANTS
  Cosigners,
  ThresholdVanilla,
  ThresholdColored,
  OpTypes,           \* OperationType values, 1..7
  MaxOps             \* bound: operations ever posted

Pending == 1
Approved == 2
Discarded == 3

\* Issuance, BlindReceive and WitnessReceive are approved when posted
AutoApproved == {2, 6, 7}

\* section 4.3.5: the threshold of an operation type (none for auto-approved)
Threshold(t) ==
  CASE t \in {1, 4} -> ThresholdVanilla
    [] t \in {3, 5} -> ThresholdColored
    [] OTHER        -> 0

VARIABLES
  ops,        \* ops[i]: [type, initiator, status] of operation i
  votes,      \* votes[i][k]: "none", "ack" or "nack"
  processed   \* processed[i][k]: whether k has marked i processed

vars == <<ops, votes, processed>>

Idxs == 1..Len(ops)

LastProcessed(c) == Max({0} \cup {i \in Idxs : processed[i][c]})

Init ==
  /\ ops = <<>>
  /\ votes = <<>>
  /\ processed = <<>>

\* section 4.3.1: no operation pending, the initiator has processed all
Post(c, t) ==
  /\ Len(ops) < MaxOps
  /\ \A i \in Idxs : ops[i].status # Pending
  /\ \A i \in Idxs : processed[i][c]
  /\ ops' = Append(ops, [type |-> t, initiator |-> c,
                         status |-> IF t \in AutoApproved THEN Approved ELSE Pending])
  /\ votes' = Append(votes, [k \in Cosigners |-> IF k = c THEN "ack" ELSE "none"])
  /\ processed' = Append(processed, [k \in Cosigners |-> FALSE])

(* section 4.3.2: the responder is not the initiator, has not voted, and   *)
(* has processed every earlier operation; approval is tested first.        *)
Respond(c, i, v) ==
  LET row  == [votes[i] EXCEPT ![c] = v]
      acks == Cardinality({k \in Cosigners : row[k] = "ack"})
      nacks == Cardinality({k \in Cosigners : row[k] = "nack"})
      T == Threshold(ops[i].type)
  IN
  /\ i \in Idxs
  /\ ops[i].initiator # c
  /\ ops[i].status = Pending
  /\ votes[i][c] = "none"
  /\ i = LastProcessed(c) + 1
  /\ votes' = [votes EXCEPT ![i] = row]
  /\ ops' = [ops EXCEPT ![i].status =
               IF acks >= T THEN Approved
               ELSE IF nacks > Cardinality(Cosigners) - T THEN Discarded
               ELSE Pending]
  /\ UNCHANGED processed

\* section 4.3.3: a decided operation the cosigner has not marked yet
MarkProcessed(c, i) ==
  /\ i \in Idxs
  /\ ops[i].status # Pending
  /\ ~processed[i][c]
  /\ processed' = [processed EXCEPT ![i][c] = TRUE]
  /\ UNCHANGED <<ops, votes>>

Next ==
  \E c \in Cosigners :
    \/ \E t \in OpTypes : Post(c, t)
    \/ \E i \in Idxs, v \in {"ack", "nack"} : Respond(c, i, v)
    \/ \E i \in Idxs : MarkProcessed(c, i)

Spec == Init /\ [][Next]_vars

=============================================================================
