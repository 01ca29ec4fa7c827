# TLA+ models of rgb-multisig-bridge

This directory holds TLA+ models of the daemon in `src/src/`, together with the TLC configurations that check them. `PROJECT.json` records several things:
- which definition models which source lines (`map`);
- every run and its expected outcome;
- the mutants that show each checked property can fail;
- the disagreements between code and spec the runs found (`findings`);
- the hazards of the code.

## The system

The bridge is one process: an axum/tokio HTTP server over one SQLite database and one files directory. Cosigners authenticate with Biscuit tokens.

| Part | Source | What it does |
|---|---|---|
| Startup | `startup.rs` | Validates the config. Runs the migrations. On first start it seeds the Config, Cosigner and NextAddressIndex rows; on later starts it checks that the thresholds and cosigner set are unchanged. Builds `AppState`. |
| Auth | `auth.rs`, `utils.rs` | `check_auth_args` decodes the configured root key at startup. A middleware checks each token's signature, expiry, role and xpub, and the watch-only route list; each handler's extractor (`AuthenticatedCosigner`, `AuthenticatedUser` or none) admits or refuses the request. |
| Operation coordinator | `routes.rs`, `database/mod.rs` | `/postoperation`, `/respondtooperation`, `/markoperationprocessed`, `/getoperationbyidx`, `/getlastprocessedopidx`, `/getfile`, `/info`. |
| File store | `utils.rs` (`persist_temp_file`, `compute_file_id`) | Uploads are written to a temp file, hashed, and renamed to their SHA-256. An existing name is never rewritten. |
| Address index | `routes.rs` (`bump_address_indices`, `get_current_address_indices`) | A pair of u32 counters (internal, external) that cosigners advance to reserve address indices. |

How the parts interact:
- Every mutating handler takes the process-wide `write_lock` before its checks, and holds it until its transaction commits. The mutating handlers are post, respond, mark processed and bump.
- post, respond and mark run inside `no_cancel`, so a client disconnect does not stop them. bump does not, and is dropped at its next await when the client goes away.
- The lock is a tokio `Mutex`, granted to its waiters in the order they queued. post and respond take it before they read their multipart body from the client.
- The read handlers take no lock and no transaction.
- An operation is decided by its votes:
  - **Approved** once the ACKs reach the threshold. The initiator's post counts as an ACK.
  - **Discarded** once the NACKs exceed `N - threshold`.
  - Issuance, BlindReceive and WitnessReceive are approved at creation.
- A new operation may be posted only when none is pending, and only by a cosigner that has processed every operation.
- A cosigner may respond only to the operation after its last processed one.

## Modules

### `Bridge.tla`: operation coordinator and file store (MC: `MCBridge.tla`)

**State:**
- `ops`, `cos` and `opFiles` are the committed Operation, CosignerOpStatus and OpFile tables.
- `disk` maps each content address to `absent`, `unsynced` (renamed, not yet fsynced), `durable` or `torn`.
- `lock` is the holder of `write_lock`.
- `wr[c]` is the in-flight mutating handler of cosigner `c`.
- `rd[r]` is an in-flight `get_operation_by_idx` of reader `r`.

**Actions.** Each handler is split where a crash, a failed step or another actor can get between its effects:
- `post_operation`: the lock, the `has_pending_operation` / `has_unprocessed_operation` checks, and the parsed upload.
- `persist_rename` / `persist_sync`: the two halves of `persist_temp_file`. `persist_rename` includes the `exists()` skip.
- `post_operation_commit`: the whole transaction, applied at commit. That is the Operation row, the OpFile rows (non-PSBT first, then the PSBT), one status row per cosigner, and the initiator's ACK.
- `respond_to_operation`: the lock and all of the checks in code order, including the sequential check.
- `respond_to_operation_commit`: the PSBT row, the responder's row, the ACK/NACK count, and the status decision `NewStatus`.
- `mark_operation_processed`: one step. It runs under the lock and is a single update.
- `read_operation`, `read_status_entries`, `read_files`: the separate reads of `get_operation_by_idx_with_files`.

**Database calls.** The actions are written with operators named after the `AppDatabase` methods of `src/src/database/mod.rs` they call:
- `set_operation`, `set_op_file`, `set_cosigner_op_status` are the inserts;
- `update_cosigner_op_status`, `update_operation` are the updates;
- `get_operation_by_idx`, `get_cosigner_op_status_entry`, `iter_cosigner_op_status_by_operation_idx`, `get_op_files_by_operation_idx`, `get_op_file_by_idx` and the `has_*` / `get_last_*` queries are the reads.

Inside `respond_to_operation_commit`, the count reads the status rows as the transaction sees them, its own update included. `update_operation` runs only when the decision is `Some` (`NoStatus` stands for `None`). `ViewFiles(i)` is the list of files that `get_operation_by_idx_with_files` stats, each with the poster it reports.

**Environment:**
- `Crash` kills the process. It rolls back uncommitted transactions and drops the lock and every request. With `PowerLoss`, every unsynced file becomes absent, durable or torn.
- `handler_failed` is a step between `begin_transaction` and commit that returns an error. The step may be `compute_file_id`, the rename, the fsync, an insert, the count query or the commit itself, and a pool connection timeout counts too. The transaction rolls back and the guard is dropped. Renamed files stay, and a file whose fsync failed stays unsynced. It stands for every `?` inside the transactions of post (`routes.rs` 567-640) and respond (748-817); its map entry names post's, and respond's has the same shape.
- Crashes and failed steps share one budget, `MaxFaults`.
- `Writeback` is the kernel flushing an unsynced file.

**Data abstraction:**
- An upload is a model value, and `Hash` maps it to a file id.
- The operation type is its number (1..7).
- Timestamps, xpubs and the request formats are left out.

### `Multipart.tla`: the forms of post and respond

- `post_form` and `respond_form` are the `while let Some(field) = next_field()` loops of `post_operation` and `respond_to_operation`, written as `RECURSIVE` operators over the field sequence. Each ends with the checks that follow its loop.
  - The first failing field returns its error.
  - An empty `operation_type` panics at `op_type[0]`.
- A field is `[name, bytes, json]`:
  - names are abstracted to those the code tells apart: `operation_type`, `request`, the four `file_<kind>` names, `file_invalid`, `other`, and `#error` for a failing `next_field()`;
  - `bytes` is a field's body;
  - `json` is what a request field's text parses to.
- `SpecPostAccepts` and `SpecRespondAccepts` are the form rules of spec sections 4.3.1 and 4.3.2, stated over the whole form rather than as a loop.
- `Auth` runs the loops in its handler and compares the resulting status with the rules (`AuthMatchesSpec`).

### `OpLog.tla`: what the operation coordinator promises

`OpLog` is the abstract operation log of spec sections 4.3.1 to 4.3.3. It has no lock, files, crashes or transactions.

**State:**
- `ops[i]` holds the type, initiator and status of operation `i`.
- `votes[i][k]` is `none`, `ack` or `nack`.
- `processed[i][k]` says whether cosigner `k` has marked operation `i` processed.

**Actions.** Each is one atomic step whose guard is the spec's precondition:
- `Post`: no operation is pending, and the initiator has processed every operation. An auto-approved type is Approved at once.
- `Respond`: the responder is not the initiator, has not voted, and has processed every earlier operation. Approval is tested before discard.
- `MarkProcessed`: a decided operation that the cosigner has not marked yet.

`Bridge` implements it through `Log == INSTANCE OpLog WITH ...`. The mapping reads `votes` and `processed` off the committed CosignerOpStatus rows, and `ops` maps to itself. The property `OpLogRefinement` is `Log!Spec`. It is written with the stuttering test `UNCHANGED <<ops, cos>>` first, because most `Bridge` steps leave the tables alone.

### `AddressIndex.tla` and `AddressAllocator.tla`: address index (MC: `MCAddressIndex.tla`)

**State:**
- `next`, the NextAddressIndex row;
- `lock`;
- `cl[c]`, an in-flight bump;
- `handed`, a history of committed blocks.
- `commits`, a history counter of committed bumps. `handed` is a set, so two commits that returned the same block would merge in it; comparing its size with `commits` exposes them.

**Actions:**
- `bump_address_indices`: the lock and the `count == 0` check.
- `bump_commit`: read, `checked_add`, write, commit. It releases the lock, and so does an overflow error.
- `bump_cancelled`: the future is dropped before commit, because the route is not under `no_cancel`.
- `get_next_address_index` and `update_next_address_index` are the read and the write of the row inside the transaction.

**Bounds and refinement:**
- The counter width is the constant `IndexWidth`: 32 in the code, 3 in the model, so overflow is reached.
- `AddressAllocator` is the abstract promise: a chain's counter only advances, by a positive count, and stays within the width.
- `AddressIndex` instantiates it with `Counts <- Counts \ {0}` and checks `AllocatorRefinement`.

### `Startup.tla`: first start and restarts (MC: `MCStartup.tla`)

**State:**
- `schema`, the tables and indexes that the init_db migration has created;
- `migrated`, whether `seaql_migrations` records init_db;
- the Config row, the Cosigner set and whether the NextAddressIndex row exists;
- the process phase `pc`, with `step`, the next migration statement;
- the config file the process started with;
- the `AppState` thresholds and cosigners of a running process.

**Actions:**
- `parse_startup_args_and_config(c, portFree)`: the validation. It checks the port, the cosigner count, both thresholds, and the rgb-lib version (`parse_version` and the range check). `Migrator::up` is skipped when init_db is recorded.
- `migrate`: one statement of init_db (`InitDb`, in source order), committed on its own.
  - The tables are created `if_not_exists`.
  - The five indexes are not, so creating one that exists fails the start.
- `record_migration`: the migrator records init_db once every statement has run.
- `start_daemon`: either the restart checks or the Config insert. It compares `get_config` and `iter_cosigners` with the file, or inserts `set_config`. The `idx != 1` check after the insert is left out: `get_config` found no row, so the row's id is always 1.
- `set_cosigners`: one `insert_many`. It fails on a repeated xpub because of the unique index.
- `set_next_address_index`: the last insert. The `AppState` is then built.
- `serve(bound)`: `TcpListener::bind(...).unwrap()` in `main`. The port may have been taken since validation, and then the process panics after its writes.
- `shutdown`: `shutdown_signal`.
- `Crash`: may happen between any two of these steps.

The operator may start with any of these configs:
- the original;
- the same xpubs reordered;
- a changed threshold;
- an xpub listed twice;
- too few cosigners;
- a zero threshold;
- rgb-lib version `0.4`, which is above the range;
- rgb-lib version `0.3.1`, which has three parts;
- an rgb-lib version whose major does not parse.

A version is given as the list of parts that `split('.')` yields. A part that does not parse as a u32 is the model value `NaN`.

**Assumption.** On SQLite, sea-orm-migration runs a migration's statements without a transaction, and inserts the `seaql_migrations` row after the last statement. It uses a transaction on Postgres only.

### `Auth.tla`: middleware, extractors and `get_file` (MC: `MCAuth.tla`)

**State:**
- `req`, the request being served: a token, a route, whether its body parses (for the routes that take one), for `/getfile` a file id, and for post and respond a multipart form.
- `stage`: `idle`, `authed` (past the middleware) or `done`.
- `user`, the `AuthenticatedUser` in the request extensions.
- `status`, the response status.
- `served`, the path `get_file` streams.

**Actions:**
- `conditional_auth_middleware`: the bearer header, the signature, the expiry, the role and xpub queries, the cosigner lookup and the watch-only allow-list, in code order.
- `handle`: the route's extractors in argument order, then the handler.
  - The `AuthenticatedCosigner` rejection is FORBIDDEN.
  - A body that `WithRejection<Json>` or `WithRejection<Multipart>` rejects is `InvalidRequest`.
  - `get_file` is kept in detail: `files_dir.join(file_id)`, the `exists()` check (`FileNotFound`), and the stream.
  - post and respond parse their form with `Multipart`'s loops. Their database checks are `Bridge`'s and are taken to pass here.
  - A panic inside `no_cancel`'s task closes the connection with no response, status 0 (`FormStatus`).
  - Errors become statuses through `APIErrorStatus` and `AuthErrorStatus`, the two `into_response` mappings of `error.rs`.
- `next_request`: the connection sends another request.

**Data abstraction:**
- A token is abstracted to how far it gets through the checks (`no_bearer`, `bad_signature`, `expired`, `ok`) and its sets of role and xpub facts.
- When a token carries several facts, `first()` of a query may be any of them, because the code does not fix the order.
- A path is a sequence of components. `Join` is `Path::join`: an absolute id replaces the base. `Resolve` is what the OS makes of `..`.

### `RootKey.tla`: the root key check (MC: `MCRootKey.tla`)

- `hex_str_to_vec` is a `RECURSIVE` loop over the string with the u8 accumulator. The `b <<= 4` is `(b * 16) % 256`, and `|=` is `Bitwise`'s `|`.
- `check_auth_args` is the decode plus the 32-byte length check. `KeyLen` stands for the 32 bytes. The Ed25519 point check is not modelled.
- `restart_with(s)` is the operator editing `root_public_key` and restarting.

### `Decision.tla`: u8 arithmetic of the decision (MC: `MCDecision.tla`)

This module models one operation with a threshold, in the integer width of the code:
- the fold counts ACKs and NACKs in u8;
- `total_cosigners` is `len() as u8`, a truncating cast;
- `total_cosigners - threshold` is a u8 subtraction.

The width is the constant `Width`: 8 in the code, 3 in the model. Overflow checks are on in a debug build and off in a release build. The source gives no build profile, so `build` is chosen nondeterministically in `Init`:
- in a debug build, an overflowing add or subtract panics and the transaction is dropped;
- in a release build, it wraps.

The cast truncates in both builds.

### `WriteLock.tla`: the write lock and its waiters (MC: `MCWriteLock.tla`)

**State:**
- `queue`: the lock's waiters.
- `holder`.
- For each client, `pc` (`idle`, `waiting`, `parsing`, `working`) and the `handler` of its request.

**Actions:**
- `request`: reach `lock().await`.
- `acquire`: the first waiter gets the guard.
- `upload_done` / `upload_failed`: the end of the multipart body, or an error in it. Only post and respond read the body under the lock.
- `finish`: the checks and the transaction, then the guard is dropped.
- `bump_cancelled`: bump is not under `no_cancel`, so its future is dropped at the wait or while it holds the lock.

What a handler does in the database is abstracted to `finish`; `Bridge` and `AddressIndex` model it.

## Runs

| Run | Config | Checks | Expect |
|---|---|---|---|
| bridge_safety | `MCBridge.cfg` | TypeOK, FilesIntact, NoOrphanFiles, OpLogRefinement | pass (904k states, ~1 min) |
| bridge_powerloss | `MCBridgePowerLoss.cfg` | FilesIntact | violation |
| bridge_torn_view | `MCBridgeView.cfg` | ViewConsistent | violation |
| bridge_processed_order | `MCBridgeOrder.cfg` | ProcessedInOrder | violation |
| address_blocks | `MCAddressIndex.cfg` | TypeOK, BlocksDisjoint, AllocatorRefinement | pass |
| startup_safety | `MCStartup.cfg` | TypeOK, RunningMatchesDb | pass |
| startup_seeding | `MCStartupSeeding.cfg` | FirstStartAtomic | violation |
| auth_routes | `MCAuth.cfg` | TypeOK, AuthMatchesSpec | pass |
| auth_getfile_traversal | `MCAuthGetFile.cfg` | GetFileConfined | violation |
| rootkey_odd_length | `MCRootKeyOdd.cfg` | RootKeyWellFormed | violation |
| decision_past_width | `MCDecisionWide.cfg` | StatusByRule | violation |
| lock_upload_stall | `MCWriteLockStall.cfg` | WaiterAcquires | violation |

What the properties of the passing runs say:
- **OpLogRefinement:** every change that the split, locked and crash-prone handlers make to the committed tables is one step of `OpLog`. This covers several requirements:
  - at most one operation is pending, so two concurrent posts never both pass the pending check;
  - a status changes only in the response that crosses its threshold, by the spec's rule;
  - a cosigner responds only to the operation after the last one it processed;
  - no vote is changed or cast twice;
  - a post comes only from a cosigner that has processed everything.
- **FilesIntact:** every file in an operation view (`ViewFiles`) is on disk and intact, so no read of an operation fails with an IO error. Every OpFile row belongs to an operation, so this covers every file an OpFile row names, including a file left by a failed handler that a later upload reuses through `exists()`.
- **NoOrphanFiles:** with no crash and no failed step, once every handler has returned, every file in the store is named by an OpFile row. `no_cancel` carries post and respond to their commit whatever the client does, so only a fault leaves a file behind.
- **BlocksDisjoint:** no address index is handed out twice, and none lies beyond the current counter. Every committed bump returned a block of its own, which also catches two bumps of the same count that read the same counter.
- **AllocatorRefinement:** the bump handler, with the lock, cancellation and `checked_add`, implements `AddressAllocator`.
- **RunningMatchesDb:** a running bridge uses the stored thresholds and cosigners, whatever config file it was restarted with.
- **AuthMatchesSpec:** take a token of the shape spec section 4.2 describes (one role fact, at most one xpub), and a plain file id where the route has one. The request then gets the status of the spec's middleware contract and error table (section 7):
  - 401 or 403 from the gate;
  - 400 for a body that does not parse, for a post or respond form the spec's rules refuse, or for a file id the store does not hold;
  - 200 otherwise.

  The forms are those whose `operation_type` is one byte. The code diverges on the other two kinds: an empty field panics (status 0), and a longer field is read by its first byte (status 200). The spec answers 400 to both. Both are listed as hazards in `PROJECT.json`.

  The middleware, the extractors in argument order, `get_file` and both `into_response` mappings produce it together. An admitted cosigner is the one its token names. The check covers bump too, which has no extractor and relies only on the allow-list.

### What the violations show

Each of these is a finding in `PROJECT.json`.

1. **Torn file after a power loss (`bridge_powerloss`).**
   - `persist_temp_file` renames before it fsyncs.
   - A power loss in between leaves torn bytes under the final name.
   - The next upload of the same content is skipped by `exists()`, and its OpFile row references the torn file.
2. **Self-contradicting view (`bridge_torn_view`).** `get_operation_by_idx` reads the operation and its votes separately, so a response that commits between the two reads is in the votes but not in the status. In TLC's trace:
   - `a` posts a SendRgb (type 3, threshold 3 of 3).
   - The reader reads the operation as `Pending`.
   - `b` NACKs, which discards the operation at once, because one NACK exceeds N − 3 = 0.
   - The reader then reads the votes: `acked_by = {a}`, `nacked_by = {b}`.
   - The view says `Pending` beside a NACK count that has already discarded the operation.

   A last ACK in the same place gives the mirror case: `Pending` with `acked_by` at the threshold.
3. **Processing out of order (`bridge_processed_order`).** `mark_operation_processed` has no sequential check, so operations can be marked processed out of order.
4. **A first start that cannot be completed (`startup_seeding`).** `FirstStartAtomic` says that whenever no start is in progress, two things hold. First, init_db is recorded, or can run again. Second, the Config, Cosigner and NextAddressIndex rows are all present or none is. The run's configs are an xpub listed twice, then the corrected file, with one crash. It breaks in two ways:
   - **The migration.** init_db creates its five indexes without `if_not_exists`, and the statements run outside a transaction. TLC's shortest counterexample is a crash right after `idx-operation-status` is created. Every later `Migrator::up` then fails on the existing index.
   - **The seeding.** The three rows are written in separate statements, with no transaction. With the migration conjunct removed, TLC finds the Cosigner insert failing on the repeated xpub after the Config row is written. The same conjunct also catches two crash cases:
     - a crash after the Config insert, after which every later start fails with `CannotChangeCosigners`;
     - a crash after the Cosigner insert, after which the bridge comes up without the row `bump_address_indices` expects.
5. **Path traversal in `get_file` (`auth_getfile_traversal`).**
   - `get_file` joins the client's `file_id` to `files_dir` unchecked.
   - `../rgb_multisig_bridge_db` resolves to the database next to the store, and TLC's trace serves it to cosigner `x1`. `get_file` has no user extractor and `/getfile` is on the watch-only allow-list, so a watch-only token gets the same answer. An absolute path does the same.
   - The spec has files addressed by their SHA-256 id.
6. **Odd-length root key (`rootkey_odd_length`).**
   - `hex_str_to_vec` pushes a byte only after an odd index, so the last nibble of an odd-length string is dropped.
   - Three hex digits decode to one byte in the model. In the code, 65 digits pass the 32-byte check.
7. **u8 decision past the width (`decision_past_width`).**
   - Startup bounds the thresholds by the number of cosigners, but not that number itself.
   - With 8 to 10 cosigners in the 3-bit model (256 to 258 in the code), `len() as u8` truncates, and one NACK discards an operation the rule keeps pending.
   - When the truncated count is below the threshold, the subtraction underflows. A debug build panics, which rolls the response back. A release build wraps, and the wrapped value equals the true N − threshold, so that case decides correctly.
   - The spec assumes "N ≤ 255", but nothing enforces it.
8. **Upload stall under the lock (`lock_upload_stall`).**
   - post and respond read their multipart body after taking `write_lock`. Nothing bounds how long that read may take.
   - A client that opens an upload and stops sending holds the lock, and every other writer waits forever.
   - This holds even though the runtime is fair to every step the server controls.

### Bounds

**Bridge:**
- 3 cosigners, so the initiator plus two responders are present.
- Thresholds: 2 for vanilla and 3 for colored, so both approval and discard are reachable. Approval at 2 means one responder's ACK decides; at 3, one NACK discards.
- Operation types: CreateUtxos (vanilla), Issuance (auto-approved) and SendRgb (colored) in the violation runs. The safety run has only Issuance and SendRgb, which keeps it within its time budget. The colored threshold of 3 still lets a response leave an operation pending, approve it or discard it.
- `MaxOps = 2`, which is enough for "post while the previous one is unprocessed" and for the order of two operations.
- One content and one file id, so every second upload is deduplicated.
- One fault (a crash or a failed step) and one reader.
- Symmetry over the cosigners: every cosigner plays the same role.

**AddressIndex:**
- 2 clients.
- Counts {0, 1, 3}, which include the rejected 0.
- A 3-bit counter, so overflow is reached after a few bumps.

**Startup:**
- Two crashes, which can fall between any two of the 11 migration statements and the three seeding inserts.
- The nine config files listed above, covering every validation error and both restart checks.
- The port free or taken, both at validation and at the bind.

**Auth:**
- One known and one unknown xpub.
- Every subset of the three roles and of the two xpubs, on every route.
- File ids: two plain ids (one stored, one not), a `..` id and an absolute id.
- A well-formed and a malformed body on every route that takes one.
- Every post and respond form of up to three fields, sent with a cosigner token. Three fields are enough for a complete form followed by a second PSBT.
  - Post fields: `operation_type` empty, valid, an invalid byte, or two bytes; a PSBT, empty or not; a media file; `file_invalid`; another name; a stream error.
  - Respond fields: a request whose JSON is an ACK, a NACK or bad; a PSBT, empty or not; another name; a stream error.

**RootKey:**
- Strings of up to 3 bytes over the digits at the ends of each hex range and the bytes just outside them.
- `KeyLen = 1`.

**Decision:**
- `Width = 3`.
- 2 to 10 cosigners, every threshold, both builds.

**WriteLock:**
- 3 clients, so a waiter can have two others ahead of it.

### Fairness

- **WriteLock:** weak fairness on `acquire` and `finish`. `no_cancel` spawns post, respond and mark as tasks that tokio keeps polling, and tokio hands a released lock to the first waiter. Nothing is assumed of the clients, because the server sets no deadline on reading a body.
- **Every other run is a safety check and assumes no fairness.**

## Not modelled

- **The JSON wording of errors, logging and the CLI.** The status of each error is modelled, in `Auth` and `Multipart`.
- **IO errors while writing a temp file, before the transaction.** They return 500 and change no state, because the temp files are deleted on drop.
- **Biscuit's cryptography.** A token is abstracted to the outcome of each check.
- **The Ed25519 point check of the root key.**
- **The database pool's queue.** A connection wait ends in a Database error after the timeout. That error is one of the failures `Bridge`'s `handler_failed` takes.
- **Column types and foreign keys of the schema.** No reachable state violates them.
- **`get_last_processed_op_idx` and `info`.** Each is a single read that changes no state, with no property of its own.
- **Removing orphaned files.** The code never deletes a file, and the spec leaves garbage collection open. `NoOrphanFiles` shows that only a fault leaves one behind.

**An observation from `ViewFiles`.** A responder's PSBT row has the operation's `operation_idx`, so `get_op_files_by_operation_idx` returns it too. The view therefore lists each responder PSBT twice: first attributed to the initiator, then to the responder. Spec section 4.3.4 prescribes the same two loops, so this is no divergence, but a client that counts files per poster sees the initiator credited with every counter-signed PSBT.

Next steps, most important first:
1. Lock release as a liveness property of `Bridge` (the `no_cancel` hazard at `utils.rs:23`). This needs an instance small enough to explore without symmetry, because symmetry is unsound with liveness.
2. A lost bump response (`routes.rs:310`): a client that retries after a timeout gets a new block, and the block that was committed first is never used.
3. The decision of `Decision` checked against the reference rule within the width, and `hex_str_to_vec` against a reference decoding. These were checked while building the models, but they are not part of the standing runs.
