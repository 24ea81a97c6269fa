------------------------------ MODULE Migrations ------------------------------
(* A database under "alembic upgrade" and "alembic downgrade".               *)
(*                                                                           *)
(* The application writes rows at some revision; a run then takes the schema *)
(* and the rows from revision to revision, one operation of a script at a    *)
(* time.  A table's rows are the kinds of row it holds: the value of the one *)
(* column the scripts convert (Kind), or "row".  "empty" holds the columns   *)
(* that are NULL in some row; the column "id" of chapter_versions stands for *)
(* a chapter that has no version.                                            *)
(*                                                                           *)
(* PostgreSQL runs all revisions in one transaction.  SQLite commits after   *)
(* each, commits a table creation or removal and a column added in place     *)
(* that precede the revision's first row change at once, rebuilds the table  *)
(* of any other batch, and ignores "PRAGMA foreign_keys" inside a            *)
(* transaction.                                                              *)
EXTENDS MigrationScripts, Naturals, Sequences, FiniteSets, Functions
CONSTANTS Dialects,   \* subset of {"sqlite", "postgresql"}
          Extras,     \* pairs <<table, kind>> a data set may hold as well
          MaxRuns,    \* bound on the runs of alembic
          MaxCrashes  \* bound on the runs that die midway
VARIABLES dialect,    \* of the database
          db,         \* [rev, schema, rows, empty, leftover]
          saved,      \* the part of db that a crash leaves
          conn,       \* the connection of the run: [dir, next, fk, tx, backup]
          last,       \* of the last run: dir, rev, rows, ...
          wrote,      \* the application has written its rows
          torn,       \* a run on SQLite ended midway
          runs, crashes
vars == <<dialect, db, saved, conn, last, wrote, torn, runs, crashes>>

-----------------------------------------------------------------------------
\* The structure each operation leaves.

Altered(t, b) ==
  [required   |-> (t.required \ b.drops.columns)
                    \cup b.adds.required \cup b.requires,
   optional   |-> ((t.optional \ b.drops.columns) \cup b.adds.optional)
                    \ b.requires,
   references |-> {r \in t.references : r.column \notin b.drops.references}
                    \cup b.adds.references,
   keys       |-> (t.keys \ b.drops.keys) \cup b.adds.keys,
   checks     |-> b.adds.checks
                    @@ Restrict(t.checks, DOMAIN t.checks \ b.drops.checks)]

Structure(s, o) ==
  CASE o.op = "create"     -> (o.table :> o.def) @@ s
    [] o.op = "drop"       -> Restrict(s, DOMAIN s \ {o.table})
    [] o.op \in {"batch", "add column"} ->
                              [s EXCEPT ![o.table] = Altered(@, o)]
    [] o.op = "refer"      -> [s EXCEPT ![o.table].references =
                                                 @ \cup {o.reference}]
    [] o.op = "unique"     -> [s EXCEPT ![o.table].keys = @ \cup {o.key}]
    [] o.op = "not unique" -> [s EXCEPT ![o.table].keys = @ \ {o.key}]
    [] OTHER               -> s

(* The schema of revision number i, read off the upgrades.                   *)
SchemaAt[i \in 0..Len(Revisions)] ==
  IF i = 0 THEN <<>>
  ELSE LET after[k \in 0..Len(Upgrades[i])] ==
             IF k = 0 THEN SchemaAt[i - 1]
                      ELSE Structure(after[k - 1], Upgrades[i][k])
       IN after[Len(Upgrades[i])]

-----------------------------------------------------------------------------
\* Rows.

Kind == "projects" :> "status" @@ "chapters" :> "status"
        @@ "workflow_runs" :> "status" @@ "facts" :> "status"
        @@ "jobs" :> "job_type" @@ "provider_calls" :> "task_type"

(* The kinds of row a table admits.  A fact without a status is canonical.   *)
Kinds(s, t) ==
  IF t \in DOMAIN Kind /\ Kind[t] \in DOMAIN s[t].checks
  THEN s[t].checks[Kind[t]]
  ELSE IF t = "facts" THEN {"accepted"} ELSE {"row"}

(* A chapter with two workflow runs in progress.                             *)
Twice == <<"workflow_runs", "twice">>

Admits(s, x) ==
  /\ x[1] \in DOMAIN s
  /\ \/ x = Twice /\ ActiveKey("chapter_id") \notin s[x[1]].keys
     \/ x[2] \in Kinds(s, x[1])

OrdinaryKinds(s, t) == {k \in Kinds(s, t) : <<t, k>> \notin Extras}

(* Facts of every status, none that is accepted, or no facts.                *)
FactKinds(s) == {OrdinaryKinds(s, "facts"),
                 OrdinaryKinds(s, "facts") \ {"accepted"}, {}}

(* What a table's rows become when the rows of "parent" are deleted under    *)
(* enforced foreign keys: those below it by CASCADE go too, those below it   *)
(* by SET NULL lose the reference.                                           *)
Below(s, parent) ==
  LET fallen[n \in 0..Cardinality(DOMAIN s)] ==
        IF n = 0 THEN {parent}
        ELSE LET above == fallen[n - 1]
             IN above \cup {t \in DOMAIN s : \E r \in s[t].references :
                                r.rule = "cascade" /\ r.parent \in above}
  IN fallen[Cardinality(DOMAIN s)]

Unlinked(d, gone) ==
  {<<t, r.column>> : <<t, r>> \in
      {p \in UNION {{t} \X d.schema[t].references : t \in DOMAIN d.schema} :
         /\ p[2].rule = "set null"
         /\ p[2].parent \in {g \in gone : d.rows[g] # {}}
         /\ d.rows[p[1]] # {}}}

ParentReplaced(d, parent) ==
  LET gone == Below(d.schema, parent)
  IN [d EXCEPT !.rows = [t \in DOMAIN @ |->
                           IF t \in gone \ {parent} THEN {} ELSE @[t]],
               !.empty = @ \cup Unlinked(d, gone)]

-----------------------------------------------------------------------------
\* A run.

NoRun == [dir |-> "none", next |-> 1, fk |-> TRUE, tx |-> FALSE,
          backup |-> {}]

Init ==
  /\ dialect \in Dialects
  /\ db = [rev |-> 0, schema |-> <<>>, rows |-> <<>>, empty |-> {},
           leftover |-> {}]
  /\ saved = db
  /\ conn = NoRun
  /\ last = [dir |-> "none", rev |-> 0, rows |-> <<>>, empty |-> {},
             clean |-> TRUE, refused |-> FALSE]
  /\ wrote = FALSE /\ torn = FALSE
  /\ runs = 0 /\ crashes = 0

Idle == conn.dir = "none"

(* The application at this revision fills every table with rows of every     *)
(* kind; those of Extras only one at a time, and of the facts, which one     *)
(* script deletes by their status, not always all.                           *)
Write ==
  /\ Idle /\ ~torn /\ ~wrote /\ db.rev > 0
  /\ \E x \in {y \in Extras : Admits(db.schema, y)} \cup {<<"", "">>},
         facts \in FactKinds(db.schema) :
       db' = [db EXCEPT
                !.rows = [t \in DOMAIN @ |->
                            (IF t = "facts" THEN facts
                             ELSE OrdinaryKinds(db.schema, t)) \cup
                              {k \in {x[2]} : t = x[1]}],
                !.empty = {<<"chapter_versions", "id">>}]
  /\ saved' = db'
  /\ wrote' = TRUE
  /\ last' = [last EXCEPT !.dir = "none"]
  /\ UNCHANGED <<dialect, conn, torn, runs, crashes>>

(* Every command opens a connection of its own, which enforces foreign keys. *)
Ahead(d) == IF d = "up" THEN db.rev < Len(Revisions) ELSE db.rev > 0

Begin ==
  /\ Idle /\ runs < MaxRuns
  /\ \E d \in {"up", "down"} :
       /\ Ahead(d)
       /\ conn' = [NoRun EXCEPT !.dir = d, !.tx = (dialect = "postgresql")]
       /\ last' = [dir |-> d, rev |-> db.rev, rows |-> db.rows,
                   empty |-> db.empty, clean |-> ~torn, refused |-> FALSE]
  /\ runs' = runs + 1
  /\ UNCHANGED <<dialect, db, saved, wrote, torn, crashes>>

Script ==
  IF conn.dir = "up" THEN Upgrades[db.rev + 1] ELSE Downgrades[db.rev]

Migrating == ~Idle /\ Ahead(conn.dir)

Working == Migrating /\ conn.next <= Len(Script)

Current == Script[conn.next]

(* The database, or alembic, refuses the operation.                          *)
Narrows(o) ==
  /\ o.table \in DOMAIN Kind
  /\ Kind[o.table] \in DOMAIN o.adds.checks
  /\ ~(db.rows[o.table] \ {Twice[2]} \subseteq o.adds.checks[Kind[o.table]])

Missing(o) ==
  o.op \notin {"create", "foreign keys"} /\ o.table \notin DOMAIN db.schema

Clashes(o) ==
  \/ o.op = "create" /\ o.table \in DOMAIN db.schema
  \/ o.op = "batch" /\ \/ o.table \in db.leftover
                       \/ \E c \in o.requires : <<o.table, c>> \in db.empty
                       \/ Narrows(o)
  \/ o.op = "add column" /\ LET t == db.schema[o.table]
                             IN (o.adds.required \cup o.adds.optional)
                                  \cap (t.required \cup t.optional) # {}
  \/ /\ o.op = "drop" /\ dialect = "postgresql"
     /\ \E t \in DOMAIN db.schema \ {o.table} :
          \E r \in db.schema[t].references : r.parent = o.table
  \/ o.op = "unique" /\ \/ o.key \in db.schema[o.table].keys
                        \/ /\ o.table = Twice[1]
                           /\ Twice[2] \in db.rows[o.table]
  \/ o.op = "hash facts" /\ <<"facts", "chapter_version_id">> \in db.empty
  \/ o.op = "restore" /\ conn.backup # {} /\ db.rows[o.table] # {}

Impossible(o) == Missing(o) \/ (~Missing(o) /\ Clashes(o))

Doing(kinds) == Working /\ Current.op \in kinds /\ ~Impossible(Current)

Unobserved == UNCHANGED <<dialect, last, wrote, torn, runs, crashes>>

(* Outside a transaction SQLite keeps a schema change at once; the first row *)
(* change opens the transaction that the end of the revision commits.        *)
SchemaChange(new) ==
  /\ db' = new
  /\ saved' = IF conn.tx THEN saved ELSE new
  /\ conn' = [conn EXCEPT !.next = @ + 1]
  /\ Unobserved

RowChange(new) ==
  /\ db' = new
  /\ conn' = [conn EXCEPT !.next = @ + 1, !.tx = TRUE]
  /\ UNCHANGED saved
  /\ Unobserved

CreateTable ==
  /\ Doing({"create"})
  /\ LET o == Current
         late == IF dialect = "postgresql" THEN o.late ELSE {}
         def == [o.def EXCEPT !.references =
                                {r \in @ : r.column \notin late}]
     IN SchemaChange([db EXCEPT !.schema = (o.table :> def) @@ @,
                                !.rows = (o.table :> {}) @@ @])

Deleted(d, t) ==
  IF dialect = "sqlite" /\ conn.fk THEN ParentReplaced(d, t) ELSE d

DropTable ==
  /\ Doing({"drop"})
  /\ LET t == Current.table
         left == Deleted(db, t)
     IN SchemaChange([left EXCEPT !.schema = Structure(@, Current),
                                  !.rows = Restrict(@, DOMAIN @ \ {t}),
                                  !.empty = {e \in @ : e[1] # t}])

ChangeKeys ==
  /\ Doing({"refer", "unique", "not unique"})
  /\ SchemaChange([db EXCEPT !.schema = Structure(@, Current)])

(* The columns an operation adds to rows that are there.                     *)
Added(o) == {e \in {o.table} \X o.adds.optional : db.rows[o.table] # {}}

AddColumnInPlace ==
  /\ Doing({"add column"})
  /\ SchemaChange([db EXCEPT !.schema = Structure(@, Current),
                             !.empty = @ \cup Added(Current)])

(* SQLite creates the new table beside the old one, copies the rows, drops   *)
(* the old one and renames the new one; the copy opens the transaction.      *)
BatchAlter ==
  /\ Doing({"batch"})
  /\ LET o == Current
         t == o.table
         new == [db EXCEPT
                   !.schema = Structure(@, o),
                   !.empty = (@ \ ({t} \X o.drops.columns)) \cup Added(o)]
     IN db' = Deleted(new, t)
  /\ saved' = IF conn.tx THEN saved
              ELSE [db EXCEPT !.leftover = @ \cup {Current.table}]
  /\ conn' = [conn EXCEPT !.next = @ + 1, !.tx = TRUE]
  /\ Unobserved

ConvertRows ==
  /\ Doing({"update"})
  /\ LET o == Current
     IN RowChange([db EXCEPT !.rows[o.table] =
                     (@ \ o.from) \cup {k \in {o.to} : @ \cap o.from # {}}])

FillColumns ==
  /\ Doing({"fill"})
  /\ LET o == Current
         filled == {o.table} \X o.columns
     IN RowChange([db EXCEPT !.empty =
                     IF o.source = Maybe THEN @
                     ELSE (@ \ filled) \cup
                          {e \in filled :
                             /\ o.source \in db.empty
                             /\ db.rows[o.table] # {}}])

(* Revision M5 gives every chapter a version of its text.                    *)
AddVersions ==
  /\ Doing({"insert versions"})
  /\ LET t == "chapter_versions"
         added == {k \in {"row"} : db.rows["chapters"] # {}}
         bare == {e \in {t} \X (db.schema[t].optional) : added # {}}
     IN RowChange([db EXCEPT !.rows[t] = @ \cup added,
                             !.empty = (@ \ {<<t, "id">>}) \cup bare])

HashEveryFact ==
  /\ Doing({"hash facts"})
  /\ RowChange([db EXCEPT !.empty = @ \ {<<"facts", "normalized_hash">>}])

DeleteUnacceptedFacts ==
  /\ Doing({"delete facts"})
  /\ RowChange([db EXCEPT !.rows["facts"] = @ \cap {"accepted"}])

BackUpEvents ==
  /\ Doing({"backup"})
  /\ conn' = [conn EXCEPT !.next = @ + 1,
                          !.backup = IF dialect = "sqlite"
                                     THEN db.rows[Current.table] ELSE {}]
  /\ UNCHANGED <<db, saved>>
  /\ Unobserved

RestoreEvents ==
  /\ Doing({"restore"})
  /\ RowChange([db EXCEPT !.rows[Current.table] = @ \cup conn.backup])

SetForeignKeys ==
  /\ Doing({"foreign keys"})
  /\ conn' = [conn EXCEPT !.next = @ + 1,
                          !.fk = IF dialect = "sqlite" /\ ~conn.tx
                                 THEN Current.enabled ELSE @]
  /\ UNCHANGED <<db, saved>>
  /\ Unobserved

FinishRevision ==
  /\ Migrating /\ conn.next > Len(Script)
  /\ db' = [db EXCEPT !.rev = IF conn.dir = "up" THEN @ + 1 ELSE @ - 1]
  /\ saved' = IF dialect = "sqlite" THEN db' ELSE saved
  /\ conn' = [conn EXCEPT !.next = 1, !.tx = (dialect = "postgresql")]
  /\ Unobserved

End ==
  /\ ~Idle /\ conn.next = 1 /\ db.rev # last.rev
  /\ saved' = db
  /\ conn' = NoRun
  /\ UNCHANGED <<dialect, db, last, wrote, torn, runs, crashes>>

(* A failing batch leaves its new table behind if nothing had opened the     *)
(* transaction before it.                                                    *)
Refuse ==
  /\ Working /\ Impossible(Current)
  /\ db' = IF Current.op = "batch" /\ ~conn.tx
           THEN [saved EXCEPT !.leftover = @ \cup {Current.table}]
           ELSE saved
  /\ saved' = db'
  /\ conn' = NoRun
  /\ last' = [last EXCEPT !.refused = TRUE]
  /\ torn' = (torn \/ dialect = "sqlite")
  /\ UNCHANGED <<dialect, wrote, runs, crashes>>

Crash ==
  /\ ~Idle /\ crashes < MaxCrashes
  /\ db' = saved
  /\ conn' = NoRun
  /\ torn' = (torn \/ dialect = "sqlite")
  /\ crashes' = crashes + 1
  /\ UNCHANGED <<dialect, saved, last, wrote, runs>>

Next ==
  \/ Write \/ Begin \/ FinishRevision \/ End \/ Refuse \/ Crash
  \/ CreateTable \/ DropTable \/ ChangeKeys
  \/ AddColumnInPlace \/ BatchAlter
  \/ ConvertRows \/ FillColumns \/ AddVersions \/ HashEveryFact
  \/ DeleteUnacceptedFacts \/ BackUpEvents \/ RestoreEvents
  \/ SetForeignKeys

Spec == Init /\ [][Next]_vars

-----------------------------------------------------------------------------
\* Properties.

(* Between two runs the schema is the one of the recorded revision, whatever *)
(* way the database came there, and the newest revision is what the mapped   *)
(* classes declare: a downgrade undoes its upgrade column by column.  Only a *)
(* run that broke off on SQLite, where a revision is not atomic, may leave   *)
(* something else.                                                           *)
SchemaOfRevision ==
  Idle /\ ~torn =>
    /\ db.schema = SchemaAt[db.rev]
    /\ db.rev = Len(Revisions) => db.schema = Metadata

(* Columns that had a value in every row before the run and now lack one.    *)
LostLinks ==
  {e \in db.empty \ last.empty :
     /\ e[1] \in DOMAIN SchemaAt[last.rev]
     /\ e[2] \in SchemaAt[last.rev][e[1]].required
                   \cup SchemaAt[last.rev][e[1]].optional}

(* What the rebuild of provider_calls and jobs in revision M12 unlinks.      *)
UnlinkedByRebuild ==
  {<<"provider_idempotency_records", "provider_call_id">>,
   <<"worker_records", "current_job_id">>}

(* An upgrade loses no row, rewrites no status and unlinks no row from its   *)
(* parent, even when it breaks off; but revision M12 leaves foreign keys     *)
(* enforced, so that a SQLite run starting at M10 or M11 takes two links     *)
(* apart.  A downgrade that runs to its end empties no table that it keeps,  *)
(* but facts of which none was accepted: the downgrade of M5 deletes those   *)
(* that are not, since the older schema would take them for canonical.       *)
DataSurvives ==
  Idle =>
    /\ last.dir = "up" =>
         /\ \A t \in DOMAIN last.rows :
              t \in DOMAIN db.rows /\ last.rows[t] \subseteq db.rows[t]
         /\ \/ LostLinks = {}
            \/ /\ dialect = "sqlite" /\ last.rev > 0
               /\ Revisions[last.rev] \in {"M10", "M11"}
               /\ LostLinks \subseteq UnlinkedByRebuild
    /\ last.dir = "down" /\ ~torn =>
         \A t \in DOMAIN db.rows :
            last.rows[t] # {} =>
              \/ db.rows[t] # {}
              \/ t = "facts" /\ "accepted" \notin last.rows[t]

(* No link at all is lost.  This fails: M12 copies only job_events out of    *)
(* the way of the rebuild of jobs.                                           *)
NoLinkLost == Idle /\ last.dir = "up" => LostLinks = {}

(* A database without rows of Extras goes up and down through all revisions: *)
(* an upgrade is refused only for two workflow runs in progress on a chapter *)
(* and a downgrade only for a kind of row the older schema has no word for.  *)
RefusedForARow ==
  last.refused /\ last.clean =>
    \E x \in Extras :
      /\ x[1] \in DOMAIN last.rows /\ x[2] \in last.rows[x[1]]
      /\ last.dir = "up" <=> x = Twice

=============================================================================
