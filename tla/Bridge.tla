------------------------------- MODULE Bridge -------------------------------
(***************************************************************************)
(* The operation coordinator of rgb-multisig-bridge (src/src/routes.rs,    *)
(* src/src/database/mod.rs, src/src/utils.rs) together with the            *)
(* content-addressed file store it writes into.                            *)
(*                                                                         *)
(* State is the committed database (tables Operation, CosignerOpStatus,    *)
(* OpFile), the files directory, the process-wide write lock, the          *)
(* in-flight mutating handlers (one slot per cosigner) and the in-flight   *)
(* read-only get_operation_by_idx handlers (one slot per reader).          *)
(*                                                                         *)
(* A mutating handler that writes files is split at the points where a    *)
(* crash or a failed step can separate its effects: the checks under the  *)
(* lock, the rename of each temp file into the store, the fsync of that    *)
(* file, and the commit of the database transaction.  Database writes made *)
(* inside the transaction are invisible until commit, so they are applied  *)
(* at commit.                                                              *)
(***************************************************************************)
EXTENDS Integers, Sequences, FiniteSets, FiniteSetsExt

CONSTANTS
  Cosigners,          \* the frozen cosigner set (model values)
  Readers,            \* concurrent read-only request slots (model values)
  ThresholdVanilla,   \* config.threshold_vanilla
  ThresholdColored,   \* config.threshold_colored
  OpTypes,            \* operation types the clients post, a subset of 1..7
  Contents,           \* byte strings the clients upload (model values)
  Hash,               \* SHA-256 of each content: [Contents -> FileIds]
  FileIds,            \* hex file ids
  MaxOps,             \* bound: operations ever posted
  MaxFaults,          \* bound: crashes and failed handler steps
  PowerLoss           \* whether a crash may also drop unsynced file data

N == Cardinality(Cosigners)

ASSUME N >= 2
ASSUME ThresholdVanilla \in 1..N /\ ThresholdColored \in 1..N
ASSUME OpTypes \subseteq 1..7
ASSUME Hash \in [Contents -> FileIds]
ASSUME \A b1, b2 \in Contents : Hash[b1] = Hash[b2] => b1 = b2
ASSUME MaxOps \in Nat /\ MaxFaults \in Nat /\ PowerLoss \in BOOLEAN

NoOne  == "no_one"
NoFile == "no_file"
\* the None of an Option<OperationStatus>
NoStatus == 0
\* OperationStatus
Pending == 1
Approved == 2
Discarded == 3

VARIABLES
  ops,      \* Operation table: sequence of [type, status, initiator], idx = position
  cos,      \* CosignerOpStatus table: cos[i][k] = [ack, processed, psbt] for op i, cosigner k
  opFiles,  \* OpFile table: sequence of [fileId, psbt, op]
  disk,     \* files_dir: disk[f] \in {"absent", "unsynced", "durable", "torn"}
  lock,     \* holder of state.write_lock, or NoOne
  wr,       \* in-flight mutating handler of each cosigner
  rd,       \* in-flight get_operation_by_idx handler of each reader
  faults   \* crashes and failed handler steps so far

vars == <<ops, cos, opFiles, disk, lock, wr, rd, faults>>

-----------------------------------------------------------------------------
(* Helpers translated from the source.                                     *)

\* AUTO_APPROVED_OPS: Issuance, BlindReceive, WitnessReceive
AUTO_APPROVED_OPS == {2, 6, 7}

\* get_threshold_for_operation; 0 stands for None
get_threshold_for_operation(t) ==
  IF t \in {1, 4} THEN ThresholdVanilla
  ELSE IF t \in {3, 5} THEN ThresholdColored
  ELSE 0

OpIdxs == 1..Len(ops)

\* get_operation_by_idx: the Operation row with that idx
get_operation_by_idx(i) == ops[i]

\* get_cosigner_op_status_entry(cosigner_idx, operation_idx)
get_cosigner_op_status_entry(c, i) == cos[i][c]

\* get_cosigner_op_status_with_cosigners_by_operation_idx: the operation's
\* status rows, each with its cosigner
get_cosigner_op_status_with_cosigners_by_operation_idx(i) == cos[i]

\* has_pending_operation
has_pending_operation == \E i \in OpIdxs : ops[i].status = Pending

\* has_unprocessed_operation(cosigner_idx)
has_unprocessed_operation(c) == \E i \in OpIdxs : ~cos[i][c].processed

\* get_last_cosigner_processed_op_idx: highest processed op idx, 0 if none
get_last_cosigner_processed_op_idx(c) ==
  Max({0} \cup {i \in OpIdxs : cos[i][c].processed})

AckCount(i)  ==
  Quantify(Cosigners, LAMBDA k : get_cosigner_op_status_with_cosigners_by_operation_idx(i)[k].ack = "ack")
NackCount(i) ==
  Quantify(Cosigners, LAMBDA k : get_cosigner_op_status_with_cosigners_by_operation_idx(i)[k].ack = "nack")

\* the status decision of respond_to_operation from the ACK/NACK counts
NewStatus(acks, nacks, threshold, old) ==
  IF acks >= threshold THEN Approved
  ELSE IF nacks > N - threshold THEN Discarded
  ELSE old

\* Variant of NextOpFileIdx that skips an id.
NextOpFileIdx_skip == Len(opFiles) + 2

\* set_op_file: the idx the next inserted OpFile row receives
NextOpFileIdx == Len(opFiles) + 1

\* the initial status post_operation gives a new operation
InitialStatus(t) == IF t \in AUTO_APPROVED_OPS THEN Approved ELSE Pending

\* set_operation: inserts the Operation row, whose idx is the next position
set_operation(row) == Append(ops, row)

\* set_op_file, once per row: the OpFile rows take the next idxs in order
set_op_file(rows) == opFiles \o rows

\* the op_file::ActiveModel of an uploaded file, none when it is absent
OpFileRows(b, isPsbt, i) ==
  IF b = NoFile THEN <<>> ELSE <<[fileId |-> Hash[b], psbt |-> isPsbt, op |-> i]>>

\* set_cosigner_op_status, once per cosigner: the operation's status rows
set_cosigner_op_status(rows) == Append(cos, rows)

\* the status rows post_operation creates: the initiator's ACK with its PSBT
InitiatorStatusRows(c, psbtIdx) ==
  [k \in Cosigners |-> IF k = c THEN [ack |-> "ack", processed |-> FALSE, psbt |-> psbtIdx]
                                ELSE [ack |-> "none", processed |-> FALSE, psbt |-> 0]]

\* update_cosigner_op_status: writes one changed status row
update_cosigner_op_status(i, c, row) == [cos EXCEPT ![i][c] = row]

\* update_operation: writes the operation's new status
update_operation(i, st) == [ops EXCEPT ![i].status = st]

\* iter_cosigner_op_status_by_operation_idx: the status rows of operation i
\* as the transaction whose rows are cs sees them
iter_cosigner_op_status_by_operation_idx(cs, i) == cs[i]

\* get_op_files_by_operation_idx: the idxs of the operation's OpFile rows
get_op_files_by_operation_idx(i) == {j \in DOMAIN opFiles : opFiles[j].op = i}

\* get_op_file_by_idx
get_op_file_by_idx(j) == opFiles[j]

(* The files get_operation_by_idx_with_files stats, each with the cosigner *)
(* it reports as poster: every OpFile row of the operation under the       *)
(* initiator, then each other cosigner's PSBT under that cosigner.  A      *)
(* responder's PSBT row belongs to the operation too, so it is listed      *)
(* twice, once under the initiator, as spec section 4.3.4 also prescribes.   *)
ViewFiles(i) ==
  { [fileId |-> get_op_file_by_idx(j).fileId, by |-> ops[i].initiator] :
      j \in get_op_files_by_operation_idx(i) }
  \cup
  { [fileId |-> get_op_file_by_idx(cos[i][k].psbt).fileId, by |-> k] :
      k \in {k \in Cosigners : k # ops[i].initiator /\ cos[i][k].psbt # 0} }

\* persisting a file is skipped when its final name already exists
FileExists(f) == disk[f] # "absent"

IdleWriter == [pc |-> "idle", kind |-> "none", op |-> 0, type |-> 0,
               ack |-> "none", data |-> NoFile, psbt |-> NoFile, todo |-> <<>>]
IdleReader == [pc |-> "idle", op |-> 0, status |-> 0, acks |-> 0, nacks |-> 0]

Init ==
  /\ ops = <<>>
  /\ cos = <<>>
  /\ opFiles = <<>>
  /\ disk = [f \in FileIds |-> "absent"]
  /\ lock = NoOne
  /\ wr = [c \in Cosigners |-> IdleWriter]
  /\ rd = [r \in Readers |-> IdleReader]
  /\ faults = 0

-----------------------------------------------------------------------------
(* post_operation: lock, the two state checks, the multipart parse.        *)
(* The uploaded files are one optional non-PSBT file and one optional      *)
(* PSBT; a body with neither is rejected before the transaction.           *)
post_operation(c, t, data, psbt) ==
  /\ wr[c].pc = "idle"
  /\ lock = NoOne
  /\ Len(ops) < MaxOps
  /\ ~has_pending_operation
  /\ ~has_unprocessed_operation(c)
  /\ data # NoFile \/ psbt # NoFile
  /\ lock' = c
  /\ wr' = [wr EXCEPT ![c] =
             [IdleWriter EXCEPT !.pc = "persist", !.kind = "post", !.type = t,
                                !.data = data, !.psbt = psbt,
                                !.todo = SelectSeq(<<data, psbt>>, LAMBDA b : b # NoFile)]]
  /\ UNCHANGED <<ops, cos, opFiles, disk, rd, faults>>

(* persist_temp_file, first half: the exists check, then rename of the     *)
(* temp file to its content address.  The data is not yet fsync'd.         *)
persist_rename(c) ==
  LET f == Hash[Head(wr[c].todo)] IN
  /\ wr[c].pc = "persist"
  /\ wr[c].todo # <<>>
  /\ IF FileExists(f)
       THEN /\ wr' = [wr EXCEPT ![c].todo = Tail(@)]
            /\ UNCHANGED disk
       ELSE /\ disk' = [disk EXCEPT ![f] = "unsynced"]
            /\ wr' = [wr EXCEPT ![c].pc = "sync"]
  /\ UNCHANGED <<ops, cos, opFiles, lock, rd, faults>>

(* persist_temp_file, second half: sync_all of the file and its directory. *)
persist_sync(c) ==
  LET f == Hash[Head(wr[c].todo)] IN
  /\ wr[c].pc = "sync"
  /\ disk' = [disk EXCEPT ![f] = "durable"]
  /\ wr' = [wr EXCEPT ![c].pc = "persist", ![c].todo = Tail(@)]
  /\ UNCHANGED <<ops, cos, opFiles, lock, rd, faults>>

\* Variant of post_operation_commit that commits before the files are persisted.
post_operation_commit_early(c) ==
  LET w == wr[c]
      i == Len(ops) + 1
      dataRows == OpFileRows(w.data, FALSE, i)
      psbtRows == OpFileRows(w.psbt, TRUE, i)
      psbtIdx  == IF w.psbt = NoFile THEN 0 ELSE NextOpFileIdx + Len(dataRows)
  IN
  /\ w.kind = "post" /\ w.pc = "persist"
  /\ ops' = set_operation([type |-> w.type, initiator |-> c, status |-> InitialStatus(w.type)])
  /\ opFiles' = set_op_file(dataRows \o psbtRows)
  /\ cos' = set_cosigner_op_status(InitiatorStatusRows(c, psbtIdx))
  /\ lock' = NoOne
  /\ wr' = [wr EXCEPT ![c] = IdleWriter]
  /\ UNCHANGED <<disk, rd, faults>>

\* Variant of post_operation_commit whose transaction inserts only the PSBT's OpFile row.
post_operation_commit_psbt_only(c) ==
  LET w == wr[c]
      i == Len(ops) + 1
      psbtRows == OpFileRows(w.psbt, TRUE, i)
      psbtIdx  == IF w.psbt = NoFile THEN 0 ELSE NextOpFileIdx
  IN
  /\ w.kind = "post" /\ w.pc = "persist" /\ w.todo = <<>>
  /\ ops' = set_operation([type |-> w.type, initiator |-> c, status |-> InitialStatus(w.type)])
  /\ opFiles' = set_op_file(psbtRows)
  /\ cos' = set_cosigner_op_status(InitiatorStatusRows(c, psbtIdx))
  /\ lock' = NoOne
  /\ wr' = [wr EXCEPT ![c] = IdleWriter]
  /\ UNCHANGED <<disk, rd, faults>>

(* post_operation, the transaction: Operation row, OpFile rows (non-PSBT   *)
(* first, then the PSBT), one CosignerOpStatus row per cosigner, commit.   *)
post_operation_commit(c) ==
  LET w == wr[c]
      i == Len(ops) + 1
      dataRows == OpFileRows(w.data, FALSE, i)
      psbtRows == OpFileRows(w.psbt, TRUE, i)
      psbtIdx  == IF w.psbt = NoFile THEN 0 ELSE NextOpFileIdx + Len(dataRows)
  IN
  /\ w.kind = "post" /\ w.pc = "persist" /\ w.todo = <<>>
  /\ ops' = set_operation([type |-> w.type, initiator |-> c, status |-> InitialStatus(w.type)])
  /\ opFiles' = set_op_file(dataRows \o psbtRows)
  /\ cos' = set_cosigner_op_status(InitiatorStatusRows(c, psbtIdx))
  /\ lock' = NoOne
  /\ wr' = [wr EXCEPT ![c] = IdleWriter]
  /\ UNCHANGED <<disk, rd, faults>>

-----------------------------------------------------------------------------
\* Variant of respond_to_operation without the sequential-processing check.
respond_to_operation_unsequenced(c, i, ack, psbt) ==
  /\ wr[c].pc = "idle"
  /\ lock = NoOne
  /\ ack = "ack" => psbt # NoFile
  /\ i \in OpIdxs
  /\ get_operation_by_idx(i).initiator # c
  /\ get_operation_by_idx(i).status = Pending
  /\ get_cosigner_op_status_entry(c, i).ack = "none"
  /\ lock' = c
  /\ wr' = [wr EXCEPT ![c] =
             [IdleWriter EXCEPT !.pc = "persist", !.kind = "respond", !.op = i,
                                !.ack = ack, !.psbt = psbt,
                                !.todo = IF psbt = NoFile THEN <<>> ELSE <<psbt>>]]
  /\ UNCHANGED <<ops, cos, opFiles, disk, rd, faults>>

(* respond_to_operation: lock, parse, and the checks in code order.        *)
respond_to_operation(c, i, ack, psbt) ==
  /\ wr[c].pc = "idle"
  /\ lock = NoOne
  /\ ack = "ack" => psbt # NoFile
  /\ i \in OpIdxs
  /\ get_operation_by_idx(i).initiator # c
  /\ get_operation_by_idx(i).status = Pending
  /\ get_cosigner_op_status_entry(c, i).ack = "none"
  /\ i = get_last_cosigner_processed_op_idx(c) + 1
  /\ lock' = c
  /\ wr' = [wr EXCEPT ![c] =
             [IdleWriter EXCEPT !.pc = "persist", !.kind = "respond", !.op = i,
                                !.ack = ack, !.psbt = psbt,
                                !.todo = IF psbt = NoFile THEN <<>> ELSE <<psbt>>]]
  /\ UNCHANGED <<ops, cos, opFiles, disk, rd, faults>>

(* respond_to_operation, the transaction: PSBT OpFile row, the responder's *)
(* status row, the ACK/NACK count and the status decision, commit.  The    *)
(* response view is then read under the lock and changes nothing.         *)
respond_to_operation_commit(c) ==
  LET w == wr[c]
      i == w.op
      psbtIdx == IF w.psbt = NoFile THEN cos[i][c].psbt ELSE NextOpFileIdx
      cos1 == update_cosigner_op_status(i, c,
                [cos[i][c] EXCEPT !.ack = w.ack, !.psbt = psbtIdx])
      rows  == iter_cosigner_op_status_by_operation_idx(cos1, i)
      acks  == Quantify(Cosigners, LAMBDA k : rows[k].ack = "ack")
      nacks == Quantify(Cosigners, LAMBDA k : rows[k].ack = "nack")
      new_status == NewStatus(acks, nacks, get_threshold_for_operation(ops[i].type), NoStatus)
  IN
  /\ w.kind = "respond" /\ w.pc = "persist" /\ w.todo = <<>>
  /\ opFiles' = set_op_file(OpFileRows(w.psbt, TRUE, i))
  /\ cos' = cos1
  /\ ops' = IF new_status = NoStatus THEN ops ELSE update_operation(i, new_status)
  /\ lock' = NoOne
  /\ wr' = [wr EXCEPT ![c] = IdleWriter]
  /\ UNCHANGED <<disk, rd, faults>>

-----------------------------------------------------------------------------
(* mark_operation_processed: lock, checks, one update outside a           *)
(* transaction, unlock.  Nothing in it can be separated by a crash.        *)
mark_operation_processed(c, i) ==
  /\ wr[c].pc = "idle"
  /\ lock = NoOne
  /\ i \in OpIdxs
  /\ get_operation_by_idx(i).status # Pending
  /\ ~get_cosigner_op_status_entry(c, i).processed
  /\ cos' = update_cosigner_op_status(i, c,
            [get_cosigner_op_status_entry(c, i) EXCEPT !.processed = TRUE])
  /\ UNCHANGED <<ops, opFiles, disk, lock, wr, rd, faults>>

-----------------------------------------------------------------------------
(* get_operation_by_idx_with_files: separate reads without a transaction  *)
(* or the lock: the Operation row, then the CosignerOpStatus rows, then    *)
(* the files' metadata.                                                    *)
read_operation(r, i) ==
  /\ rd[r].pc = "idle"
  /\ i \in OpIdxs
  /\ rd' = [rd EXCEPT ![r] = [IdleReader EXCEPT !.pc = "op", !.op = i,
                                                !.status = get_operation_by_idx(i).status]]
  /\ UNCHANGED <<ops, cos, opFiles, disk, lock, wr, faults>>

read_status_entries(r) ==
  LET i == rd[r].op IN
  /\ rd[r].pc = "op"
  /\ rd' = [rd EXCEPT ![r].pc = "votes", ![r].acks = AckCount(i),
                      ![r].nacks = NackCount(i)]
  /\ UNCHANGED <<ops, cos, opFiles, disk, lock, wr, faults>>

\* the metadata of every file of ViewFiles(op) is read (a missing file is an
\* IO error) and the view is returned
read_files(r) ==
  /\ rd[r].pc = "votes"
  /\ rd' = [rd EXCEPT ![r] = IdleReader]
  /\ UNCHANGED <<ops, cos, opFiles, disk, lock, wr, faults>>

-----------------------------------------------------------------------------
(* Environment.  A crash kills the process: uncommitted transactions are   *)
(* rolled back, the lock and every in-flight request vanish.  Renamed but  *)
(* unsynced files survive a process kill in the page cache; with           *)
(* PowerLoss, each may instead be gone or hold torn bytes under its name.  *)
Crash ==
  /\ faults < MaxFaults
  /\ faults' = faults + 1
  /\ lock' = NoOne
  /\ wr' = [c \in Cosigners |-> IdleWriter]
  /\ rd' = [r \in Readers |-> IdleReader]
  /\ \/ UNCHANGED disk
     \/ /\ PowerLoss
        /\ \E lost \in [FileIds -> {"absent", "durable", "torn"}] :
              disk' = [f \in FileIds |-> IF disk[f] = "unsynced" THEN lost[f] ELSE disk[f]]
  /\ UNCHANGED <<ops, cos, opFiles>>

(* A step between begin_transaction and commit fails: compute_file_id or  *)
(* the rename returns an IO error, the fsync of a renamed file fails, or   *)
(* an insert, the count query or the commit returns a Database error (a   *)
(* pool connection timeout included).  The `?` returns the error, the      *)
(* dropped transaction rolls back and no_cancel's task drops the guard.   *)
(* Files already renamed into the store stay there; one whose fsync        *)
(* failed stays unsynced.                                                  *)
handler_failed(c) ==
  /\ wr[c].pc \in {"persist", "sync"}
  /\ faults < MaxFaults
  /\ faults' = faults + 1
  /\ lock' = NoOne
  /\ wr' = [wr EXCEPT ![c] = IdleWriter]
  /\ UNCHANGED <<ops, cos, opFiles, disk, rd>>

\* the kernel writes an unsynced file back on its own
Writeback(f) ==
  /\ disk[f] = "unsynced"
  /\ disk' = [disk EXCEPT ![f] = "durable"]
  /\ UNCHANGED <<ops, cos, opFiles, lock, wr, rd, faults>>

Acks == {"ack", "nack"}
Uploads == Contents \cup {NoFile}

Next ==
  \/ \E c \in Cosigners :
       \/ \E t \in OpTypes, data, psbt \in Uploads : post_operation(c, t, data, psbt)
       \/ \E i \in OpIdxs, ack \in Acks, psbt \in Uploads :
             respond_to_operation(c, i, ack, psbt)
       \/ \E i \in OpIdxs : mark_operation_processed(c, i)
       \/ persist_rename(c)
       \/ persist_sync(c)
       \/ post_operation_commit(c)
       \/ respond_to_operation_commit(c)
       \/ handler_failed(c)
  \/ \E r \in Readers :
       \/ \E i \in OpIdxs : read_operation(r, i)
       \/ read_status_entries(r)
       \/ read_files(r)
  \/ Crash
  \/ \E f \in FileIds : Writeback(f)

Spec == Init /\ [][Next]_vars

-----------------------------------------------------------------------------
Statuses == {Pending, Approved, Discarded}
Writer == [pc : {"idle", "persist", "sync"}, kind : {"none", "post", "respond"},
           op : 0..MaxOps, type : 0..7, ack : {"none", "ack", "nack"},
           data : Uploads, psbt : Uploads, todo : Seq(Contents)]

TypeOK ==
  /\ ops \in Seq([type : 1..7, status : Statuses, initiator : Cosigners])
  /\ Len(cos) = Len(ops)
  /\ \A i \in OpIdxs : cos[i] \in [Cosigners -> [ack : {"none", "ack", "nack"},
                                                  processed : BOOLEAN,
                                                  psbt : 0..Len(opFiles)]]
  /\ opFiles \in Seq([fileId : FileIds, psbt : BOOLEAN, op : OpIdxs])
  /\ disk \in [FileIds -> {"absent", "unsynced", "durable", "torn"}]
  /\ lock \in Cosigners \cup {NoOne}
  /\ wr \in [Cosigners -> Writer]
  /\ rd \in [Readers -> [pc : {"idle", "op", "votes"}, op : 0..MaxOps,
                         status : 0..3, acks : 0..N, nacks : 0..N]]
  /\ faults \in 0..MaxFaults

-----------------------------------------------------------------------------
\* The status spec section 4.3.2 assigns to an operation of type t whose
\* rows hold the given ACKs and NACKs.
StatusForVotes(t, acks, nacks) ==
  LET T == get_threshold_for_operation(t) IN
  CASE t \in AUTO_APPROVED_OPS -> Approved
    [] acks >= T               -> Approved
    [] nacks > N - T           -> Discarded
    [] OTHER                   -> Pending

(* I5/I6.  Every file the operation view of get_operation_by_idx_with_files *)
(* stats, and so every file an OpFile row references, is on disk under its *)
(* content address with its bytes (never missing, never torn), whatever    *)
(* crash happened between a rename into the store and the commit.          *)
FilesIntact ==
  \A i \in OpIdxs : \A v \in ViewFiles(i) : disk[v.fileId] \in {"unsynced", "durable"}

(* A view returned by get_operation_by_idx shows a status consistent with  *)
(* the ACKs and NACKs it lists, as the status update of a response is      *)
(* committed atomically with the response.                                 *)
ViewConsistent ==
  \A r \in Readers :
    rd[r].pc = "votes" =>
      rd[r].status = StatusForVotes(ops[rd[r].op].type, rd[r].acks, rd[r].nacks)

(* I3.  A cosigner marks its operations processed in order, each one the   *)
(* successor of its last processed operation, so that its                  *)
(* last_processed_op_idx never skips an operation.                         *)
ProcessedInOrder ==
  [][\A c \in Cosigners, i \in OpIdxs :
       (~cos[i][c].processed /\ cos'[i][c].processed)
         => i = get_last_cosigner_processed_op_idx(c) + 1]_vars

(* The store holds no orphan file unless something failed: once every    *)
(* handler has returned, each file renamed into files_dir is named by a    *)
(* committed OpFile row.  no_cancel runs post and respond to their commit  *)
(* whatever the client does, so only a crash or a failed step between the  *)
(* rename (routes.rs:589, 605, 755) and the commit leaves a file behind.   *)
NoOrphanFiles ==
  (faults = 0 /\ \A c \in Cosigners : wr[c].pc = "idle") =>
    \A f \in FileIds : FileExists(f) => \E j \in DOMAIN opFiles : opFiles[j].fileId = f

(* The committed tables implement the operation log of the spec: every    *)
(* step that changes them is a post, a response or a mark of OpLog whose  *)
(* preconditions held, so the checks made under the lock before the files *)
(* are persisted still hold when the transaction commits, and the         *)
(* decision is taken on the votes the commit writes.  The lock, the files, *)
(* the readers and faults are invisible to the log.                       *)
Log == INSTANCE OpLog WITH
         votes <- [i \in OpIdxs |-> [k \in Cosigners |-> cos[i][k].ack]],
         processed <- [i \in OpIdxs |-> [k \in Cosigners |-> cos[i][k].processed]]

\* Log!Spec; a step that leaves the tables alone (most Bridge steps) leaves
\* the log alone, and is tested first
OpLogRefinement == Log!Init /\ [][UNCHANGED <<ops, cos>> \/ Log!Next]_Log!vars

=============================================================================
