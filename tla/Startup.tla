------------------------------- MODULE Startup -------------------------------
(***************************************************************************)
(* Startup of the daemon (src/src/startup.rs): the config validation of   *)
(* parse_args_and_config_internal, the init_db migration Migrator::up      *)
(* applies unless it is recorded (src/migration), and the database seeding *)
(* of start_daemon.  The first start inserts the Config row, then the      *)
(* Cosigner rows, then the NextAddressIndex row, each in its own statement *)
(* outside any transaction; a later start compares the config file with    *)
(* the stored Config and Cosigner rows.  The process may crash at any      *)
(* point and the operator restarts it, each time with one of Configs.      *)
(***************************************************************************)
EXTENDS Integers, Sequences, FiniteSets, SequencesExt

CONSTANTS
  Xpubs,        \* cosigner xpubs
  Configs,      \* config files the operator may start with: [xpubs, tc, tv, ver],
                \* ver the parts of rgb_lib_version split at '.' 
  MaxCrashes,   \* bound: crashes
  None,         \* model value: no row, no running process
  NaN           \* model value: a version part that does not parse as a u32

ASSUME /\ \A c \in Configs : c.xpubs \in Seq(Xpubs)
       /\ MaxCrashes \in Nat

VARIABLES
  schema,       \* the tables and indexes init_db has created
  migrated,     \* whether seaql_migrations records init_db
  step,         \* the next statement of init_db while migrating
  dbConfig,     \* the Config row: None or [tc, tv]
  dbCosigners,  \* the xpubs of the Cosigner rows
  dbNextIndex,  \* whether the NextAddressIndex row exists
  pc,           \* "down", "failed", "migrating", "migrated", "config",
                \* "cosigners", "started" or "up"
  cfg,          \* the config file the last process was started with
  running,      \* AppState of a process that is up: [tc, tv, cosigners], or None
  crashes

vars == <<schema, migrated, step, dbConfig, dbCosigners, dbNextIndex, pc, cfg,
          running, crashes>>

(* Migration::up of m20251201_150154_init_db, statement by statement: the *)
(* tables are created if_not_exists, the indexes are not.                 *)
InitDb ==
  << [obj |-> "config", ifNotExists |-> TRUE],
     [obj |-> "next_address_index", ifNotExists |-> TRUE],
     [obj |-> "cosigner", ifNotExists |-> TRUE],
     [obj |-> "operation", ifNotExists |-> TRUE],
     [obj |-> "idx-operation-status", ifNotExists |-> FALSE],
     [obj |-> "op_file", ifNotExists |-> TRUE],
     [obj |-> "idx-opfile-operationidx", ifNotExists |-> FALSE],
     [obj |-> "cosigner_op_status", ifNotExists |-> TRUE],
     [obj |-> "idx-cosigneropstatus-cosigneridx-operationidx", ifNotExists |-> FALSE],
     [obj |-> "idx-cosigneropstatus-operationidx", ifNotExists |-> FALSE],
     [obj |-> "idx-cosigneropstatus-cosigneridx-processedat", ifNotExists |-> FALSE] >>

\* the objects whose creation fails when they already exist
PlainCreates == {InitDb[k].obj : k \in {j \in 1..Len(InitDb) : ~InitDb[j].ifNotExists}}

\* MIN_RGB_LIB_VERSION and MAX_RGB_LIB_VERSION, "0.3" parsed
MIN_RGB_LIB_VERSION == <<0, 3>>
MAX_RGB_LIB_VERSION == <<0, 3>>

\* parse_version: exactly two parts, each parsing as a u32 (a part beyond
\* u32 is NaN in the input, like any other that does not parse)
parse_version(v) == Len(v) = 2 /\ \A j \in 1..2 : v[j] # NaN

\* (major, minor) <= (major', minor'), the order the two range checks use
VersionLeq(a, b) == a[1] < b[1] \/ (a[1] = b[1] /\ a[2] <= b[2])

\* validate_rgb_lib_version: parses, and is neither below the minimum nor
\* above the maximum
validate_rgb_lib_version(v) ==
  /\ parse_version(v)
  /\ VersionLeq(MIN_RGB_LIB_VERSION, v)
  /\ VersionLeq(v, MAX_RGB_LIB_VERSION)

\* Variant of the validation that lets a zero threshold through.
ValidConfig_zero(c, portFree) ==
  /\ portFree
  /\ Len(c.xpubs) >= 2
  /\ c.tc \in 0..Len(c.xpubs)
  /\ c.tv \in 0..Len(c.xpubs)
  /\ validate_rgb_lib_version(c.ver)

(* parse_args_and_config_internal, given whether check_port_is_available   *)
(* found the port free: at least MIN_COSIGNERS entries, both thresholds    *)
(* positive and at most the number of entries, a supported rgb-lib         *)
(* version.  The root key check is RootKey's; every config here has a      *)
(* valid key.                                                              *)
ValidConfig(c, portFree) ==
  /\ portFree
  /\ Len(c.xpubs) >= 2
  /\ c.tc \in 1..Len(c.xpubs)
  /\ c.tv \in 1..Len(c.xpubs)
  /\ validate_rgb_lib_version(c.ver)

\* get_config: the Config row, None before the first start
get_config == dbConfig

\* iter_cosigners: the xpubs of the Cosigner rows
iter_cosigners == dbCosigners

(* set_config: inserts the Config row of the file's thresholds.  Its idx   *)
(* is 1 whenever get_config found no row, so the InconsistentState check  *)
(* on it never fires and is left out.                                      *)
set_config(c) == [tc |-> c.tc, tv |-> c.tv]

\* AppState: thresholds of the config file, cosigner maps of the Cosigner rows
Up(c) == [tc |-> c.tc, tv |-> c.tv, cosigners |-> iter_cosigners]

Init ==
  /\ schema = {}
  /\ migrated = FALSE
  /\ step = 0
  /\ dbConfig = None
  /\ dbCosigners = {}
  /\ dbNextIndex = FALSE
  /\ pc = "down"
  /\ cfg \in Configs
  /\ running = None
  /\ crashes = 0

(* main: parse_startup_args_and_config and its validation, then app()     *)
(* and start_daemon: the directories, the pool, Migrator::up, which does   *)
(* nothing once seaql_migrations records init_db.                          *)
parse_startup_args_and_config(c, portFree) ==
  /\ pc \in {"down", "failed"}
  /\ cfg' = c
  /\ pc' = CASE ~ValidConfig(c, portFree) -> "failed"
              [] migrated                  -> "migrated"
              [] OTHER                     -> "migrating"
  /\ step' = 1
  /\ UNCHANGED <<schema, migrated, dbConfig, dbCosigners, dbNextIndex, running, crashes>>

(* One statement of init_db, committed on its own: SQLite migrations run   *)
(* outside a transaction.  Creating an index that exists is an error, and *)
(* the start fails with it.                                                *)
migrate ==
  LET s == InitDb[step] IN
  /\ pc = "migrating"
  /\ step <= Len(InitDb)
  /\ IF s.obj \in schema /\ ~s.ifNotExists
       THEN /\ pc' = "failed"
            /\ UNCHANGED <<schema, step>>
       ELSE /\ schema' = schema \cup {s.obj}
            /\ step' = step + 1
            /\ UNCHANGED pc
  /\ UNCHANGED <<migrated, dbConfig, dbCosigners, dbNextIndex, cfg, running, crashes>>

\* the migrator inserts the seaql_migrations row once init_db has returned
record_migration ==
  /\ pc = "migrating"
  /\ step = Len(InitDb) + 1
  /\ migrated' = TRUE
  /\ pc' = "migrated"
  /\ UNCHANGED <<schema, step, dbConfig, dbCosigners, dbNextIndex, cfg, running, crashes>>

\* Variant of start_daemon that does not compare the stored thresholds.
start_daemon_no_threshold_check ==
  /\ pc = "migrated"
  /\ IF get_config # None
       THEN IF iter_cosigners # ToSet(cfg.xpubs)
              THEN /\ pc' = "failed"
                   /\ UNCHANGED <<dbConfig, running>>
              ELSE /\ pc' = "started"
                   /\ running' = Up(cfg)
                   /\ UNCHANGED dbConfig
       ELSE /\ dbConfig' = set_config(cfg)
            /\ pc' = "config"
            /\ UNCHANGED running
  /\ UNCHANGED <<schema, migrated, step, dbCosigners, dbNextIndex, cfg, crashes>>

(* start_daemon after the migration: either the checks of an already      *)
(* configured service (thresholds unchanged, same cosigner set) or the     *)
(* insertion of the Config row of a first start.                          *)
start_daemon ==
  /\ pc = "migrated"
  /\ IF get_config # None
       THEN IF \/ get_config.tc # cfg.tc \/ get_config.tv # cfg.tv
               \/ iter_cosigners # ToSet(cfg.xpubs)
              THEN /\ pc' = "failed"
                   /\ UNCHANGED <<dbConfig, running>>
              ELSE /\ pc' = "started"
                   /\ running' = Up(cfg)
                   /\ UNCHANGED dbConfig
       ELSE /\ dbConfig' = set_config(cfg)
            /\ pc' = "config"
            /\ UNCHANGED running
  /\ UNCHANGED <<schema, migrated, step, dbCosigners, dbNextIndex, cfg, crashes>>

(* set_cosigners: one insert_many of the configured xpubs; the unique      *)
(* index on xpub fails the whole statement when an xpub is repeated.       *)
set_cosigners ==
  /\ pc = "config"
  /\ IF IsInjective(cfg.xpubs)
       THEN /\ dbCosigners' = ToSet(cfg.xpubs)
            /\ pc' = "cosigners"
       ELSE /\ pc' = "failed"
            /\ UNCHANGED dbCosigners
  /\ UNCHANGED <<schema, migrated, step, dbConfig, dbNextIndex, cfg, running, crashes>>

\* set_next_address_index, then the AppState is built
set_next_address_index ==
  /\ pc = "cosigners"
  /\ dbNextIndex' = TRUE
  /\ pc' = "started"
  /\ running' = Up(cfg)
  /\ UNCHANGED <<schema, migrated, step, dbConfig, dbCosigners, cfg, crashes>>

(* main, once app() has returned: TcpListener::bind(...).await.unwrap() on *)
(* the port that validation found free.  Another process may have taken    *)
(* it since, and then the daemon panics after start_daemon has done its    *)
(* writes.                                                                 *)
serve(bound) ==
  /\ pc = "started"
  /\ pc' = IF bound THEN "up" ELSE "failed"
  /\ running' = IF bound THEN running ELSE None
  /\ UNCHANGED <<schema, migrated, step, dbConfig, dbCosigners, dbNextIndex, cfg, crashes>>

\* shutdown_signal: Ctrl-C or SIGTERM ends a running bridge gracefully
shutdown ==
  /\ pc = "up"
  /\ pc' = "down"
  /\ running' = None
  /\ UNCHANGED <<schema, migrated, step, dbConfig, dbCosigners, dbNextIndex, cfg, crashes>>

\* the process dies; every statement already executed stays in the database
Crash ==
  /\ pc # "down"
  /\ crashes < MaxCrashes
  /\ crashes' = crashes + 1
  /\ pc' = "down"
  /\ running' = None
  /\ UNCHANGED <<schema, migrated, step, dbConfig, dbCosigners, dbNextIndex, cfg>>

Next ==
  \/ \E c \in Configs, portFree \in BOOLEAN : parse_startup_args_and_config(c, portFree)
  \/ migrate
  \/ record_migration
  \/ start_daemon
  \/ set_cosigners
  \/ set_next_address_index
  \/ \E bound \in BOOLEAN : serve(bound)
  \/ shutdown
  \/ Crash

Spec == Init /\ [][Next]_vars

-----------------------------------------------------------------------------
TypeOK ==
  /\ schema \subseteq {InitDb[k].obj : k \in 1..Len(InitDb)}
  /\ migrated \in BOOLEAN
  /\ step \in 0..Len(InitDb) + 1
  /\ dbConfig = None \/ dbConfig \in [tc : Nat \ {0}, tv : Nat \ {0}]
  /\ dbCosigners \in SUBSET Xpubs
  /\ dbNextIndex \in BOOLEAN
  /\ pc \in {"down", "failed", "migrating", "migrated", "config", "cosigners",
             "started", "up"}
  /\ cfg \in Configs
  /\ running = None \/ running \in [tc : Nat, tv : Nat, cosigners : SUBSET Xpubs]
  /\ crashes \in 0..MaxCrashes

(* A running bridge uses the thresholds and the cosigner set stored at its *)
(* first start, whatever config file it was restarted with.               *)
RunningMatchesDb ==
  pc = "up" =>
    /\ dbConfig # None
    /\ running = [tc |-> dbConfig.tc, tv |-> dbConfig.tv, cosigners |-> dbCosigners]

(* What the first start writes can always be completed: whenever no      *)
(* start is in progress, init_db is recorded or can run again (none of the *)
(* indexes it creates without if_not_exists is there), and the Config,     *)
(* Cosigner and NextAddressIndex rows are all there or none is (spec       *)
(* section 3 has them seeded at first start; a restart checks them, it     *)
(* does not repair them).  Otherwise every later start fails: the index    *)
(* exists, or CannotChangeCosigners; or the bridge comes up without the    *)
(* NextAddressIndex row that bump_address_indices expects.                 *)
FirstStartAtomic ==
  pc \in {"down", "failed", "up"} =>
    /\ migrated \/ schema \cap PlainCreates = {}
    /\ \/ dbConfig = None /\ dbCosigners = {} /\ ~dbNextIndex
       \/ dbConfig # None /\ dbCosigners # {} /\ dbNextIndex

=============================================================================
