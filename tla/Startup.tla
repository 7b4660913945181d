------------------------------- MODULE Startup -------------------------------
(***************************************************************************)
(* What Hermes does to its database before it serves (hermes/cmd/hermes    *)
(* main.go): the five stores open it one after the other, and each runs    *)
(* its migration files statement by statement, outside of a transaction,   *)
(* so a kill, a signal or a full disk leaves a file half applied.  The     *)
(* envelope and project stores record a file once it is through and skip   *)
(* it from then on, the others run theirs at every start.  Plain indexes,  *)
(* which change no answer, are left out.                                   *)
(***************************************************************************)
EXTENDS Naturals, Sequences, SequencesExt

CONSTANTS
  Vintages,  \* the databases earlier versions left
  Unbroken   \* migration files that are never interrupted once they changed something

VARIABLES
  schema,   \* the tables, columns, indexes and triggers that exist
  applied,  \* schema_migrations
  phantom,  \* there are unacknowledged notifications older than their api_key column
  boot      \* where Hermes is: a start in progress names the file and its next statement

startupVars == <<schema, applied, phantom, boot>>

Create(o)    == [does |-> "create", object |-> o]   \* CREATE ... IF NOT EXISTS
AddColumn(o) == [does |-> "add", object |-> o]      \* fails when the column exists
Unique(o)    == [does |-> "unique", object |-> o]   \* the index of 003, if its rows allow it
Backfill     == [does |-> "backfill", object |-> "insert_order"]
AddAPIKey    == [does |-> "scope", object |-> "api_key"]
RebuildIndex == [does |-> "rebuild", object |-> "idx_api_key_created_at"]

File(store, name, body) == [store |-> store, name |-> name, body |-> body]

Migrations == <<
  File("envelopes", "001_envelopes", <<Create("envelopes")>>),
  File("envelopes", "003_thread",
       <<AddColumn("title"), AddColumn("executor_session_id"), AddColumn("thread")>>),
  File("projects", "001_projects", <<Create("projects")>>),
  File("projects", "002_icon_path", <<AddColumn("icon_path")>>),
  File("notifications", "001_notifications", <<Create("notifications"), AddAPIKey, RebuildIndex>>),
  File("sessions", "001_sessions", <<Create("sessions"), Create("session_messages")>>),
  File("sessions", "002_order", <<AddColumn("insert_order"), Create("set_insert_order")>>),
  File("sessions", "003_backfill", <<Backfill, Unique("idx_session_order")>>),
  File("keys", "001_api_keys", <<Create("api_keys")>>) >>

Tracks == {"envelopes", "projects"}     \* consult and fill schema_migrations

\* Mutant: the project store takes a duplicate column for an error.
Forgives_SessionsOnly == {"sessions"}

Forgives == {"projects", "sessions"}    \* go on after "duplicate column name"

Statements == UNION {Range(f.body) : f \in Range(Migrations)}

Objects == {st.object : st \in Statements}

\* What an earlier version can have left: a file it recorded is there in full, one
\* of 003_thread it did not record is not there at all, and a notification older
\* than its key is acknowledged when the column comes.
ASSUME VintagesAssumption ==
  \A v \in Vintages :
    /\ v \in [schema : SUBSET Objects, applied : SUBSET {f.name : f \in Range(Migrations)},
              phantom : BOOLEAN]
    /\ \A f \in Range(Migrations), st \in Statements :
         st \in Range(f.body) =>
           /\ f.name \in v.applied => st.object \in v.schema
           /\ f.name = "003_thread" /\ st.object \in v.schema => f.name \in v.applied
    /\ v.phantom => "api_key" \notin v.schema

At(pc, f, l) == [pc |-> pc, file |-> f, line |-> l]
Down    == At("down", 0, 0)
Failed  == At("failed", 0, 0)
Serving == At("serving", 0, 0)

Current == Migrations[boot.file]
Statement == Current.body[boot.line]
Opening == boot.pc = "starting" /\ boot.line <= Len(Current.body)

NextFile ==
  boot' = IF boot.file = Len(Migrations) THEN Serving ELSE At("starting", boot.file + 1, 1)

\* After the last statement of a file, or the one that is forgiven.
EndOfFile ==
  IF Current.store \in Tracks THEN boot' = At("starting", boot.file, Len(Current.body) + 1)
                              ELSE NextFile

NextStatement ==
  IF boot.line = Len(Current.body) THEN EndOfFile
                                   ELSE boot' = [boot EXCEPT !.line = @ + 1]

Duplicate(st) == st.does = "add" /\ st.object \in schema

\* A file the store recorded is skipped.
Recorded == Current.store \in Tracks /\ Current.name \in applied
-----------------------------------------------------------------------------
StartupInit ==
  /\ \E v \in Vintages : schema = v.schema /\ applied = v.applied /\ phantom = v.phantom
  /\ boot = Down

\* The supervisor starts Hermes, after a failed start too.
Start ==
  /\ boot \in {Down, Failed}
  /\ boot' = At("starting", 1, 1)
  /\ UNCHANGED <<schema, applied, phantom>>

Skip ==
  /\ Opening /\ boot.line = 1 /\ Recorded
  /\ NextFile
  /\ UNCHANGED <<schema, applied, phantom>>

\* The next statement of a file; refused says that the rows do not allow it.
Execute(refused) ==
  /\ Opening /\ ~ Recorded
  /\ Statement.does # "scope"
  /\ IF refused
       THEN boot' = Failed /\ UNCHANGED schema
     ELSE IF Duplicate(Statement)
       THEN /\ IF Current.store \in Forgives THEN EndOfFile ELSE boot' = Failed
            /\ UNCHANGED schema
       ELSE /\ schema' = schema \cup {Statement.object}
            /\ NextStatement
  /\ UNCHANGED <<applied, phantom>>

\* Mutant: the column is committed before the old rows are acknowledged.
ScopeNotifications_TwoSteps ==
  /\ Opening /\ Statement.does = "scope"
  /\ schema' = schema \cup {"api_key"}
  /\ IF "api_key" \in schema
       THEN UNCHANGED phantom /\ NextStatement
       ELSE (phantom' = FALSE /\ NextStatement) \/ (UNCHANGED phantom /\ boot' = Failed)
  /\ UNCHANGED applied

\* addAPIKeyColumn: the column and the acknowledgement of the rows it finds are
\* one transaction, and only when the column is missing.
ScopeNotifications ==
  /\ Opening /\ Statement.does = "scope"
  /\ schema' = schema \cup {"api_key"}
  /\ phantom' = (phantom /\ "api_key" \in schema)
  /\ NextStatement
  /\ UNCHANGED applied

Record ==
  /\ boot.pc = "starting" /\ boot.line > Len(Current.body)
  /\ applied' = applied \cup {Current.name}
  /\ NextFile
  /\ UNCHANGED <<schema, phantom>>

\* A kill, a signal, or a statement that fails for want of disk: what ran stays.
Interrupt ==
  /\ boot.pc = "starting"
  /\ boot.line > 1 => Current.name \notin Unbroken
  /\ boot' = Down
  /\ UNCHANGED <<schema, applied, phantom>>

\* Hermes is stopped, or killed, while it serves.
Stop ==
  /\ boot = Serving
  /\ boot' = Down
  /\ UNCHANGED <<schema, applied, phantom>>
-----------------------------------------------------------------------------
StartupTypeOK ==
  /\ schema \subseteq Objects
  /\ applied \subseteq {f.name : f \in Range(Migrations)}
  /\ phantom \in BOOLEAN
  /\ boot \in {Down, Failed, Serving} \cup
              {At("starting", f, l) : f \in DOMAIN Migrations, l \in 1..4}

\* The statements of the running program name all of these; the trigger of 002
\* is not one of them, Hermes numbers the messages it inserts itself.
Needed == Objects \ {"set_insert_order"}
=============================================================================
