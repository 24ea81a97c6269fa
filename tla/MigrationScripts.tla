--------------------------- MODULE MigrationScripts ---------------------------
(* The ten Alembic revisions as sequences of operations, in the order their  *)
(* upgrade() and downgrade() run them.  The revisions spell out their own    *)
(* columns and values and share nothing with the ORM classes of Models.  A   *)
(* batch operation changes one table in one piece: what it adds, what it     *)
(* drops, and which optional columns it makes required.                      *)
EXTENDS Models

Nothing == Table({}, {}, {}, {}, <<>>)

Columns(required, optional) == Table(required, optional, {}, {}, <<>>)

Checks(checks) == Table({}, {}, {}, {}, checks)

(* What a batch drops: columns, references and checks by column, and keys.   *)
Without(columns, references, keys, checks) ==
  [columns |-> columns, references |-> references, keys |-> keys,
   checks |-> checks]

ColumnsOf(columns) == Without(columns, {}, {}, {})

Batch(table, adds, drops, requires) ==
  [op |-> "batch", table |-> table, adds |-> adds, drops |-> drops,
   requires |-> requires]

Add(table, adds) == Batch(table, adds, ColumnsOf({}), {})

Alter(table, adds, requires) == Batch(table, adds, ColumnsOf({}), requires)

Require(table, requires) == Alter(table, Nothing, requires)

Rework(table, adds, drops) == Batch(table, adds, drops, {})

Remove(table, drops) == Rework(table, Nothing, drops)

Rebuild(table) == Add(table, Nothing)

(* A batch of nothing but new columns, without a default or with a string    *)
(* for one, is plain ALTER TABLE ADD COLUMN on SQLite as well.               *)
AddInPlace(table, adds) == [Add(table, adds) EXCEPT !.op = "add column"]

AddColumn(table, column) == AddInPlace(table, Columns({column}, {}))

AddNullable(table, column) == AddInPlace(table, Columns({}, {column}))

(* A table created before the table some of its references name: PostgreSQL  *)
(* gets those references later, SQLite takes them at once.                   *)
CreateBefore(table, def, late) ==
  [op |-> "create", table |-> table, def |-> def, late |-> late]

Create(table, def) == CreateBefore(table, def, {})

Drop(table) == [op |-> "drop", table |-> table]

Refer(table, reference) ==
  [op |-> "refer", table |-> table, reference |-> reference]

UniqueActive(table, column) ==
  [op |-> "unique", table |-> table, key |-> ActiveKey(column)]

NotUnique(table, column) ==
  [op |-> "not unique", table |-> table, key |-> ActiveKey(column)]

(* Rows whose kind is one of "from" become rows of kind "to".                *)
Update(table, from, to) ==
  [op |-> "update", table |-> table, from |-> from, to |-> to]

(* The columns take a value in every row, are looked up where the lookup may *)
(* find nothing, or are copied from another column, NULL where that is NULL. *)
Value == <<"", "value">>

Maybe == <<"", "maybe">>

Fill(table, columns, source) ==
  [op |-> "fill", table |-> table, columns |-> columns, source |-> source]

InsertVersions == [op |-> "insert versions", table |-> "chapter_versions"]

HashFacts == [op |-> "hash facts", table |-> "facts"]

DeleteFacts == [op |-> "delete facts", table |-> "facts"]

ForeignKeys(enabled) ==
  [op |-> "foreign keys", table |-> "", enabled |-> enabled]

(* The copy of job_events that revision M12 takes and puts back, on SQLite.  *)
Backup == [op |-> "backup", table |-> "job_events"]

(* Mutant: the helper forgets to put the rows back.                          *)
NotRestored == ForeignKeys(TRUE)

Restore == [op |-> "restore", table |-> "job_events"]

-----------------------------------------------------------------------------
\* 3d5c121d94ea.

Projects_M1 ==
  Table({"title", "genre", "premise", "target_chapters",
         "target_words_per_chapter", "status", "created_at", "updated_at"}, {},
        {}, {},
        "status" :> {"draft", "planning", "active", "completed", "archived"})

Chapters_M1 ==
  Table({"project_id", "chapter_number", "title", "outline", "content",
         "status", "version", "created_at", "updated_at"},
        {"summary", "score"}, {Cascade("project_id", "projects")},
        {<<"project_id", "chapter_number">>},
        "status" :> {"planned", "draft", "evaluating", "needs_revision",
                     "accepted", "needs_human_review"})

Characters_M1 ==
  Table({"project_id", "name", "role", "description", "goals", "personality",
         "speech_style", "current_state", "secrets"}, {},
        {Cascade("project_id", "projects")}, {<<"project_id", "name">>}, <<>>)

Foreshadowings_M1 ==
  Table({"project_id", "setup_chapter", "expected_payoff_chapter",
         "description", "status"}, {"payoff_chapter"},
        {Cascade("project_id", "projects")}, {},
        "status" :> {"planned", "open", "resolved", "abandoned"})

Locations_M1 ==
  Table({"project_id", "name", "description", "rules"}, {},
        {Cascade("project_id", "projects")}, {<<"project_id", "name">>}, <<>>)

StoryRules_M1 ==
  Table({"project_id", "category", "statement", "source", "active"}, {},
        {Cascade("project_id", "projects")}, {}, <<>>)

Evaluations_M1 ==
  Table({"project_id", "chapter_id", "evaluator", "overall_score",
         "consistency_score", "prose_score", "character_score", "plot_score",
         "issues", "suggestions", "created_at"}, {},
        {Cascade("chapter_id", "chapters"), Cascade("project_id", "projects")},
        {}, <<>>)

Facts_M1 ==
  Table({"project_id", "chapter_id", "subject", "predicate", "object",
         "valid_from_chapter", "confidence", "source_quote"},
        {"valid_to_chapter"},
        {Cascade("chapter_id", "chapters"), Cascade("project_id", "projects")},
        {}, <<>>)

Revisions_M1 ==
  Table({"chapter_id", "previous_version", "new_version", "reason",
         "score_before", "score_after", "accepted", "created_at"}, {},
        {Cascade("chapter_id", "chapters")}, {<<"chapter_id", "new_version">>},
        <<>>)

WorkflowRuns_M1 ==
  Table({"project_id", "chapter_id", "current_node", "status", "retry_count",
         "started_at"}, {"error_message", "finished_at"},
        {Cascade("chapter_id", "chapters"), Cascade("project_id", "projects")},
        {},
        "status" :> {"pending", "running", "succeeded", "failed",
                     "needs_human_review"})

Upgrade_M1 ==
  << Create("projects", Projects_M1),
     Create("chapters", Chapters_M1),
     Create("characters", Characters_M1),
     Create("foreshadowings", Foreshadowings_M1),
     Create("locations", Locations_M1),
     Create("story_rules", StoryRules_M1),
     Create("evaluations", Evaluations_M1),
     Create("facts", Facts_M1),
     Create("revisions", Revisions_M1),
     Create("workflow_runs", WorkflowRuns_M1) >>

Downgrade_M1 ==
  << Drop("workflow_runs"),
     Drop("revisions"),
     Drop("facts"),
     Drop("evaluations"),
     Drop("story_rules"),
     Drop("locations"),
     Drop("foreshadowings"),
     Drop("characters"),
     Drop("chapters"),
     Drop("projects") >>

-----------------------------------------------------------------------------
\* b550a962dc62.

ChapterVersions_M3 ==
  Table({"chapter_id", "version", "title", "content", "summary",
         "generation_metadata", "created_at"}, {},
        {Cascade("chapter_id", "chapters")}, {<<"chapter_id", "version">>},
        <<>>)

Upgrade_M3 ==
  << ForeignKeys(FALSE),
     Create("chapter_versions", ChapterVersions_M3),
     Add("chapters",
         Table({"objective", "outline_metadata", "generation_metadata"}, {},
               {}, {},
               "status" :> {"planned", "generating", "draft",
                            "extracting_facts", "generated",
                            "fact_extraction_failed", "failed", "evaluating",
                            "needs_revision", "accepted",
                            "needs_human_review"})),
     Add("characters",
         Columns({"personality_traits"}, {})),
     AddColumn("facts", "fact_type"),
     AddColumn("foreshadowings", "importance"),
     Add("projects",
         Table({"language", "themes"},
               {"tone", "audience", "logline", "world_summary",
                "central_conflict", "ending_direction", "style_guide"}, {}, {},
               "status" :> {"draft", "planning", "planned", "generating",
                            "active", "completed", "failed", "archived"})),
     ForeignKeys(TRUE) >>

Downgrade_M3 ==
  << ForeignKeys(FALSE),
     Update("projects", {"planned", "failed"}, "draft"),
     Update("projects", {"generating"}, "active"),
     Rework("projects",
            Checks("status" :> {"draft", "planning", "active", "completed",
                                "archived"}),
            ColumnsOf({"style_guide", "ending_direction", "central_conflict",
                       "world_summary", "themes", "logline", "audience",
                       "tone", "language"})),
     Remove("foreshadowings",
            ColumnsOf({"importance"})),
     Remove("facts",
            ColumnsOf({"fact_type"})),
     Remove("characters",
            ColumnsOf({"personality_traits"})),
     Update("chapters",
            {"extracting_facts", "generated", "fact_extraction_failed",
             "failed"},
            "draft"),
     Update("chapters", {"generating"}, "planned"),
     Rework("chapters",
            Checks("status" :> {"planned", "draft", "evaluating",
                                "needs_revision", "accepted",
                                "needs_human_review"}),
            ColumnsOf({"generation_metadata", "outline_metadata",
                       "objective"})),
     Drop("chapter_versions"),
     ForeignKeys(TRUE) >>

-----------------------------------------------------------------------------
\* ad6fd0f94186.

ConsistencyConflicts_M4 ==
  Table({"evaluation_id", "project_id", "chapter_id", "conflict_type",
         "severity", "subject", "description", "new_evidence",
         "suggested_resolution", "confidence", "rule_code", "status",
         "created_at"},
        {"existing_evidence", "existing_fact_id", "resolved_at"},
        {Cascade("chapter_id", "chapters"),
         Cascade("evaluation_id", "evaluations"),
         Cascade("project_id", "projects"),
         SetNull("existing_fact_id", "facts")}, {},
        "conflict_type" :> {"character_state", "character_knowledge",
                            "character_existence", "location", "timeline",
                            "object_state", "story_rule", "fact_contradiction",
                            "foreshadowing", "outline_violation"}
        @@ "severity" :> {"low", "medium", "high", "critical"}
        @@ "status" :> {"open", "ignored", "resolved", "false_positive"})

EvaluationIssues_M4 ==
  Table({"evaluation_id", "source", "code", "category", "severity",
         "description", "score_penalty", "metadata", "created_at"},
        {"evidence", "suggestion"}, {Cascade("evaluation_id", "evaluations")},
        {}, "severity" :> {"low", "medium", "high", "critical"})

Upgrade_M4 ==
  << ForeignKeys(FALSE),
     Add("chapters",
         Checks("status" :> {"planned", "generating", "draft",
                             "extracting_facts", "generated",
                             "fact_extraction_failed", "failed", "evaluating",
                             "evaluated_passed", "evaluated_needs_revision",
                             "evaluation_failed", "needs_revision", "accepted",
                             "needs_human_review"})),
     Add("characters",
         Columns({"knowledge"}, {})),
     Add("story_rules",
         Columns({"structured_metadata"}, {})),
     Add("evaluations",
         Columns({"status", "mechanical_score", "critic_score", "pacing_score",
                  "dialogue_score", "emotional_impact_score",
                  "outline_adherence_score", "raw_scores", "weighted_scores",
                  "evaluator_versions", "prompt_versions", "blocking_reasons",
                  "recommended_action", "passed", "provider", "model",
                  "config_version"}, {"evaluation_version"})),
     Fill("evaluations", {"evaluation_version"}, Value),
     Alter("evaluations",
           Table({}, {}, {}, {<<"chapter_id", "evaluation_version">>},
                 "status" :> {"completed", "partial_failed"}),
           {"evaluation_version"}),
     Create("consistency_conflicts", ConsistencyConflicts_M4),
     Create("evaluation_issues", EvaluationIssues_M4),
     ForeignKeys(TRUE) >>

Downgrade_M4 ==
  << ForeignKeys(FALSE),
     Drop("evaluation_issues"),
     Drop("consistency_conflicts"),
     Remove("evaluations",
            Without({"config_version", "model", "provider", "passed",
                     "recommended_action", "blocking_reasons",
                     "prompt_versions", "evaluator_versions",
                     "weighted_scores", "raw_scores",
                     "outline_adherence_score", "emotional_impact_score",
                     "dialogue_score", "pacing_score", "critic_score",
                     "mechanical_score", "status", "evaluation_version"}, {},
                    {<<"chapter_id", "evaluation_version">>}, {"status"})),
     Remove("story_rules",
            ColumnsOf({"structured_metadata"})),
     Remove("characters",
            ColumnsOf({"knowledge"})),
     Add("chapters",
         Checks("status" :> {"planned", "generating", "draft",
                             "extracting_facts", "generated",
                             "fact_extraction_failed", "failed", "evaluating",
                             "needs_revision", "accepted",
                             "needs_human_review"})),
     ForeignKeys(TRUE) >>

-----------------------------------------------------------------------------
\* 69c75316dd7e.

VersionComparisons_M5 ==
  Table({"workflow_run_id", "old_version_id", "new_version_id", "dimensions",
         "overall_delta", "resolved_issue_codes", "unresolved_issue_codes",
         "newly_introduced_issue_codes", "decision", "confidence", "rationale",
         "created_at"}, {},
        {Cascade("new_version_id", "chapter_versions"),
         Cascade("old_version_id", "chapter_versions"),
         Cascade("workflow_run_id", "workflow_runs")},
        {<<"workflow_run_id", "new_version_id">>}, <<>>)

WorkflowEvents_M5 ==
  Table({"workflow_run_id", "node", "event_type", "attempt", "status",
         "duration_ms", "created_at"},
        {"version_id", "evaluation_id", "error_code"},
        {Cascade("workflow_run_id", "workflow_runs"),
         SetNull("evaluation_id", "evaluations"),
         SetNull("version_id", "chapter_versions")},
        {<<"workflow_run_id", "node", "event_type", "attempt">>},
        "event_type" :> {"node_started", "node_completed", "node_failed",
                         "route_selected", "version_created",
                         "evaluation_created", "revision_rejected",
                         "version_accepted", "workflow_completed"})

Upgrade_M5 ==
  << ForeignKeys(FALSE),
     Add("chapters",
         Checks("status" :> {"planned", "generating", "draft",
                             "extracting_facts", "generated",
                             "fact_extraction_failed", "failed", "evaluating",
                             "evaluated_passed", "evaluated_needs_revision",
                             "evaluation_failed", "needs_revision", "accepted",
                             "needs_human_review", "workflow_running",
                             "drafting", "revising", "workflow_failed"})),
     Add("workflow_runs",
         Checks("status" :> {"pending", "running", "succeeded", "failed",
                             "needs_human_review", "paused", "completed",
                             "completed_needs_review", "cancelled"})),
     Create("version_comparisons", VersionComparisons_M5),
     Create("workflow_events", WorkflowEvents_M5),
     Add("chapter_versions",
         Table({"status", "source", "word_count", "provider", "model",
                "prompt_versions", "candidate_character_updates",
                "candidate_foreshadowing_updates"},
               {"parent_version_id", "workflow_run_id", "idempotency_key",
                "accepted_at"},
               {SetNull("parent_version_id", "chapter_versions"),
                SetNull("workflow_run_id", "workflow_runs")},
               {<<"idempotency_key">>},
               "status" :> {"draft", "evaluated", "revision", "accepted",
                            "rejected", "superseded", "needs_review"})),
     Add("chapters",
         Table({}, {"current_version_id", "accepted_version_id"},
               {SetNull("accepted_version_id", "chapter_versions"),
                SetNull("current_version_id", "chapter_versions")}, {}, <<>>)),
     Add("consistency_conflicts",
         Table({}, {"chapter_version_id"},
               {Cascade("chapter_version_id", "chapter_versions")}, {}, <<>>)),
     Add("evaluations",
         Table({},
               {"chapter_version_id", "workflow_run_id", "idempotency_key"},
               {Cascade("chapter_version_id", "chapter_versions"),
                SetNull("workflow_run_id", "workflow_runs")},
               {<<"idempotency_key">>}, <<>>)),
     Add("facts",
         Table({"status"},
               {"chapter_version_id", "workflow_run_id", "normalized_hash"},
               {Cascade("chapter_version_id", "chapter_versions"),
                SetNull("workflow_run_id", "workflow_runs")}, {},
               "status" :> {"candidate", "accepted", "rejected",
                            "superseded"})),
     Add("revisions",
         Table({"status", "brief", "prompt_versions"},
               {"source_version_id", "new_version_id", "workflow_run_id"},
               {SetNull("new_version_id", "chapter_versions"),
                SetNull("source_version_id", "chapter_versions"),
                SetNull("workflow_run_id", "workflow_runs")}, {}, <<>>)),
     Add("workflow_runs",
         Table({"workflow_type", "operation", "revision_attempt",
                "max_revision_attempts", "node_history", "blocking_reasons",
                "prompt_versions", "updated_at"},
               {"thread_id", "original_version_id", "current_version_id",
                "best_version_id", "accepted_version_id", "error_code"},
               {SetNull("accepted_version_id", "chapter_versions"),
                SetNull("best_version_id", "chapter_versions"),
                SetNull("current_version_id", "chapter_versions"),
                SetNull("original_version_id", "chapter_versions")}, {},
                <<>>)),
     InsertVersions,
     Fill("chapter_versions", {"accepted_at"}, Value),
     Fill("chapters", {"current_version_id", "accepted_version_id"},
          <<"chapter_versions", "id">>),
     Fill("facts", {"chapter_version_id"},
          <<"chapters", "current_version_id">>),
     HashFacts,
     Fill("evaluations", {"chapter_version_id"},
          <<"chapters", "current_version_id">>),
     Fill("consistency_conflicts", {"chapter_version_id"},
          <<"evaluations", "chapter_version_id">>),
     Fill("revisions", {"source_version_id", "new_version_id"}, Maybe),
     Fill("workflow_runs", {"thread_id"}, Value),
     Fill("workflow_runs",
          {"original_version_id", "current_version_id", "best_version_id"},
          <<"chapters", "current_version_id">>),
     Fill("workflow_runs", {"accepted_version_id"},
          <<"chapters", "accepted_version_id">>),
     Require("consistency_conflicts", {"chapter_version_id"}),
     Require("evaluations", {"chapter_version_id"}),
     Alter("facts",
           Table({}, {}, {}, {<<"chapter_version_id", "normalized_hash">>},
                 <<>>),
           {"chapter_version_id", "normalized_hash"}),
     Rebuild("chapter_versions"),
     Rebuild("revisions"),
     Alter("workflow_runs",
           Table({}, {}, {}, {<<"thread_id">>}, <<>>),
           {"thread_id"}),
     ForeignKeys(TRUE) >>

Downgrade_M5 ==
  << ForeignKeys(FALSE),
     DeleteFacts,
     Update("workflow_runs", {"completed"}, "succeeded"),
     Update("workflow_runs", {"completed_needs_review"}, "needs_human_review"),
     Update("workflow_runs", {"paused", "cancelled"}, "failed"),
     Update("chapters", {"workflow_running"}, "generated"),
     Update("chapters", {"drafting"}, "draft"),
     Update("chapters", {"revising"}, "needs_revision"),
     Update("chapters", {"workflow_failed"}, "failed"),
     Remove("workflow_runs",
            Without({"updated_at", "prompt_versions", "error_code",
                     "blocking_reasons", "node_history",
                     "max_revision_attempts", "revision_attempt",
                     "accepted_version_id", "best_version_id",
                     "current_version_id", "original_version_id", "thread_id",
                     "operation", "workflow_type"},
                    {"current_version_id", "accepted_version_id",
                     "original_version_id", "best_version_id"},
                    {<<"thread_id">>}, {})),
     Remove("revisions",
            Without({"prompt_versions", "brief", "status", "workflow_run_id",
                     "new_version_id", "source_version_id"},
                    {"source_version_id", "workflow_run_id", "new_version_id"},
                    {}, {})),
     Remove("facts",
            Without({"normalized_hash", "status", "workflow_run_id",
                     "chapter_version_id"},
                    {"workflow_run_id", "chapter_version_id"},
                    {<<"chapter_version_id", "normalized_hash">>},
                    {"status"})),
     Remove("evaluations",
            Without({"idempotency_key", "workflow_run_id",
                     "chapter_version_id"},
                    {"chapter_version_id", "workflow_run_id"},
                    {<<"idempotency_key">>}, {})),
     Remove("consistency_conflicts",
            Without({"chapter_version_id"}, {"chapter_version_id"}, {}, {})),
     Remove("chapters",
            Without({"accepted_version_id", "current_version_id"},
                    {"current_version_id", "accepted_version_id"}, {}, {})),
     Remove("chapter_versions",
            Without({"accepted_at", "idempotency_key",
                     "candidate_foreshadowing_updates",
                     "candidate_character_updates", "prompt_versions", "model",
                     "provider", "word_count", "workflow_run_id",
                     "parent_version_id", "source", "status"},
                    {"workflow_run_id", "parent_version_id"},
                    {<<"idempotency_key">>}, {"status"})),
     Drop("workflow_events"),
     Drop("version_comparisons"),
     Add("workflow_runs",
         Checks("status" :> {"pending", "running", "succeeded", "failed",
                             "needs_human_review"})),
     Add("chapters",
         Checks("status" :> {"planned", "generating", "draft",
                             "extracting_facts", "generated",
                             "fact_extraction_failed", "failed", "evaluating",
                             "evaluated_passed", "evaluated_needs_revision",
                             "evaluation_failed", "needs_revision", "accepted",
                             "needs_human_review"})),
     ForeignKeys(TRUE) >>

-----------------------------------------------------------------------------
\* f2a6c8d91b04.

Upgrade_M6 ==
  << ForeignKeys(FALSE),
     Add("projects",
         Columns({"additional_requirements"}, {})),
     Add("projects",
         Checks("status" :> {"created", "draft", "planning", "planned",
                             "generating", "active", "completed", "failed",
                             "archived"})),
     Rebuild("projects"),
     Add("evaluations",
         Columns({"mechanical_metrics", "critic_dimensions"}, {})),
     Rebuild("evaluations"),
     AddNullable("consistency_conflicts", "resolution_note"),
     ForeignKeys(TRUE) >>

(* Mutant: projects just created keep their status.                         *)
CreatedStays ==
  << ForeignKeys(FALSE),
     Rework("projects",
            Checks("status" :> {"draft", "planning", "planned", "generating",
                                "active", "completed", "failed", "archived"}),
            ColumnsOf({"additional_requirements"})),
     ForeignKeys(TRUE) >>

Downgrade_M6 ==
  << ForeignKeys(FALSE),
     Remove("consistency_conflicts",
            ColumnsOf({"resolution_note"})),
     Remove("evaluations",
            ColumnsOf({"critic_dimensions", "mechanical_metrics"})),
     Update("projects", {"created"}, "draft"),
     Rework("projects",
            Checks("status" :> {"draft", "planning", "planned", "generating",
                                "active", "completed", "failed", "archived"}),
            ColumnsOf({"additional_requirements"})),
     ForeignKeys(TRUE) >>

-----------------------------------------------------------------------------
\* c7d4e1a2b9f0.

Upgrade_M7 ==
  << UniqueActive("workflow_runs", "chapter_id") >>

(* Mutant: the unique index stays.                                           *)
IndexStays == <<>>

Downgrade_M7 ==
  << NotUnique("workflow_runs", "chapter_id") >>

-----------------------------------------------------------------------------
\* e8b4a2f7c913.

MemoryChunks_M8 ==
  Table({"project_id", "source_type", "source_id", "chunk_index", "content",
         "content_hash", "token_estimate", "character_count", "embedding",
         "embedding_provider", "embedding_model", "embedding_dimensions",
         "status", "valid_from_chapter", "metadata", "created_at",
         "updated_at"},
        {"chapter_id", "chapter_version_id", "valid_to_chapter"},
        {Cascade("chapter_id", "chapters"),
         Cascade("chapter_version_id", "chapter_versions"),
         Cascade("project_id", "projects")},
        {<<"project_id", "source_type", "source_id", "chunk_index",
           "content_hash">>},
        "status" :> {"candidate", "accepted", "rejected", "superseded",
                     "deleted"})

MemoryIndexRecords_M8 ==
  Table({"project_id", "chapter_version_id", "status", "embedding_provider",
         "embedding_model", "embedding_dimensions", "attempt_count",
         "chunk_count", "graph_entity_count", "graph_relation_count",
         "created_at", "updated_at"},
        {"error_code", "error_message", "completed_at"},
        {Cascade("chapter_version_id", "chapter_versions"),
         Cascade("project_id", "projects")},
        {<<"chapter_version_id", "embedding_provider", "embedding_model">>},
        "status" :> {"pending", "indexing", "completed", "failed",
                     "superseded"})

GraphEntities_M8 ==
  Table({"project_id", "entity_type", "canonical_name", "normalized_name",
         "disambiguation_key", "status", "confidence", "aliases", "metadata",
         "created_at", "updated_at"},
        {"description", "source_chapter_id", "source_version_id"},
        {Cascade("project_id", "projects"),
         SetNull("source_chapter_id", "chapters"),
         SetNull("source_version_id", "chapter_versions")},
        {<<"project_id", "entity_type", "normalized_name",
           "disambiguation_key">>},
        "entity_type" :> {"character", "location", "object", "event", "secret",
                          "faction", "rule", "foreshadowing", "chapter"}
        @@ "status" :> {"candidate", "accepted", "rejected", "superseded",
                     "deleted"})

GraphRelations_M8 ==
  Table({"project_id", "subject_entity_id", "predicate", "object_entity_id",
         "confidence", "valid_from_chapter", "status", "evidence",
         "evidence_hash", "metadata", "created_at"},
        {"source_chapter_id", "source_version_id", "valid_to_chapter"},
        {Cascade("object_entity_id", "graph_entities"),
         Cascade("project_id", "projects"),
         Cascade("subject_entity_id", "graph_entities"),
         SetNull("source_chapter_id", "chapters"),
         SetNull("source_version_id", "chapter_versions")},
        {<<"project_id", "subject_entity_id", "predicate",
           "object_entity_id", "source_version_id", "evidence_hash">>},
        "predicate" :> {"APPEARS_IN", "LOCATED_AT", "KNOWS", "OWNS",
                        "MEMBER_OF", "CAUSED", "PARTICIPATED_IN",
                        "FORESHADOWS", "REVEALS", "CONFLICTS_WITH",
                        "RELATED_TO"}
        @@ "status" :> {"candidate", "accepted", "rejected", "superseded",
                     "deleted"})

Upgrade_M8 ==
  << Create("memory_chunks", MemoryChunks_M8),
     Create("memory_index_records", MemoryIndexRecords_M8),
     Create("graph_entities", GraphEntities_M8),
     Create("graph_relations", GraphRelations_M8) >>

Downgrade_M8 ==
  << Drop("graph_relations"),
     Drop("graph_entities"),
     Drop("memory_index_records"),
     Drop("memory_chunks") >>

-----------------------------------------------------------------------------
\* a91f4d2c7e10.

ProjectBudgets_M10 ==
  Table({"project_id", "currency", "soft_limit", "hard_limit", "period",
         "spent_estimated", "spent_billed", "reserved_estimated",
         "alert_thresholds", "enabled", "created_at", "updated_at"}, {},
        {Cascade("project_id", "projects")}, {<<"project_id">>},
        "period" :> {"lifetime", "daily", "monthly"})

ProviderCalls_M10 ==
  Table({"task_type", "provider", "model", "profile", "privacy_policy",
         "prompt_name", "prompt_version", "request_hash", "idempotency_key",
         "status", "attempt", "fallback_index", "input_tokens",
         "output_tokens", "cached_input_tokens", "total_tokens",
         "usage_source", "currency", "pricing_snapshot", "latency_ms",
         "created_at"},
        {"project_id", "workflow_run_id", "chapter_id", "chapter_version_id",
         "fallback_reason", "estimated_cost", "billed_cost",
         "provider_request_id", "error_code", "completed_at"},
        {Cascade("project_id", "projects"), SetNull("chapter_id", "chapters"),
         SetNull("chapter_version_id", "chapter_versions"),
         SetNull("workflow_run_id", "workflow_runs")},
        {<<"idempotency_key", "attempt", "fallback_index">>},
        "task_type" :> {"planning", "chapter_drafting", "fact_extraction",
                        "graph_extraction", "literary_critique", "revision",
                        "version_comparison", "embedding_document",
                        "embedding_query"}
        @@ "profile" :> {"offline", "economy", "balanced", "quality"}
        @@ "privacy_policy" :> {"offline", "strict", "standard"}
        @@ "status" :> {"pending", "running", "succeeded", "failed",
                     "rate_limited", "timed_out", "budget_blocked",
                     "circuit_open", "cancelled"}
        @@ "usage_source" :> {"provider_reported", "local_estimate", "mock",
                           "unknown"})

ProviderIdempotencyRecords_M10 ==
  Table({"idempotency_key", "status", "created_at", "updated_at"},
        {"provider_call_id", "response_hash", "error_code"},
        {SetNull("provider_call_id", "provider_calls")},
        {<<"idempotency_key">>}, "status" :> {"active", "succeeded", "failed"})

Upgrade_M10 ==
  << ForeignKeys(FALSE),
     AddColumn("projects", "model_profile"),
     AddColumn("projects", "privacy_policy"),
     Add("projects",
         Checks("model_profile" :> {"offline", "economy", "balanced",
                                    "quality"}
                @@ "privacy_policy" :> {"offline", "strict", "standard"})),
     AddColumn("workflow_runs", "provider_call_count"),
     AddColumn("workflow_runs", "provider_input_tokens"),
     AddColumn("workflow_runs", "provider_output_tokens"),
     AddColumn("workflow_runs", "provider_estimated_cost"),
     AddColumn("workflow_runs", "provider_fallback_count"),
     AddColumn("workflow_runs", "provider_rate_limit_count"),
     Rebuild("workflow_runs"),
     Create("project_budgets", ProjectBudgets_M10),
     Create("provider_calls", ProviderCalls_M10),
     Create("provider_idempotency_records", ProviderIdempotencyRecords_M10),
     ForeignKeys(TRUE) >>

Downgrade_M10 ==
  << ForeignKeys(FALSE),
     Fill("chapters", {"content"}, Value),
     Drop("provider_idempotency_records"),
     Drop("provider_calls"),
     Drop("project_budgets"),
     Remove("workflow_runs",
            ColumnsOf({"provider_rate_limit_count", "provider_fallback_count",
                       "provider_estimated_cost", "provider_output_tokens",
                       "provider_input_tokens", "provider_call_count"})),
     Remove("projects",
            Without({"privacy_policy", "model_profile"}, {}, {},
                    {"privacy_policy", "model_profile"})),
     ForeignKeys(TRUE) >>

-----------------------------------------------------------------------------
\* b61d3f7a2c10.

Jobs_M11 ==
  Table({"job_type", "queue_name", "status", "priority", "idempotency_key",
         "payload", "payload_schema_version", "result",
         "result_schema_version", "progress", "attempt", "max_attempts",
         "available_at", "correlation_id", "created_at", "updated_at"},
        {"project_id", "chapter_id", "workflow_run_id", "current_step",
         "queued_at", "started_at", "heartbeat_at", "lease_expires_at",
         "finished_at", "cancel_requested_at", "cancelled_at", "error_code",
         "error_message", "worker_id"},
        {Cascade("chapter_id", "chapters"), Cascade("project_id", "projects"),
         SetNull("workflow_run_id", "workflow_runs")},
        {<<"idempotency_key">>, <<"workflow_run_id">>},
        "job_type" :> {"generate_plan", "generate_chapter", "evaluate_chapter",
                       "run_chapter_workflow", "resume_workflow",
                       "reindex_memory", "run_retrieval_warmup"}
        @@ "status" :> {"pending", "outbox_pending", "queued", "leased",
                     "running", "pause_requested", "paused",
                     "cancel_requested", "cancelled", "retry_scheduled",
                     "succeeded", "failed", "dead_lettered"})

JobEvents_M11 ==
  Table({"job_id", "sequence", "event_type", "status", "progress",
         "message_code", "message", "attempt", "created_at"},
        {"step", "worker_id", "workflow_event_id"},
        {Cascade("job_id", "jobs"),
         SetNull("workflow_event_id", "workflow_events")},
        {<<"job_id", "sequence">>},
        "event_type" :> {"job_created", "job_queued", "job_leased",
                         "job_started", "progress_updated",
                         "workflow_node_started", "workflow_node_completed",
                         "retry_scheduled", "pause_requested", "job_paused",
                         "resume_requested", "cancel_requested",
                         "job_cancelled", "job_succeeded", "job_failed",
                         "job_dead_lettered", "job_discarded"}
        @@ "status" :> {"pending", "outbox_pending", "queued", "leased",
                     "running", "pause_requested", "paused",
                     "cancel_requested", "cancelled", "retry_scheduled",
                     "succeeded", "failed", "dead_lettered"})

OutboxMessages_M11 ==
  Table({"aggregate_type", "aggregate_id", "event_type", "payload", "status",
         "attempt", "available_at", "created_at", "deduplication_key"},
        {"published_at", "claimed_at", "claimed_by", "last_error"}, {},
        {<<"deduplication_key">>},
        "status" :> {"pending", "claimed", "published", "failed"})

WorkerRecords_M11 ==
  Table({"worker_id", "queue_name", "status", "started_at",
         "last_heartbeat_at", "version"}, {"current_job_id"},
        {SetNull("current_job_id", "jobs")}, {<<"worker_id">>},
        "status" :> {"starting", "idle", "busy", "stopping", "offline"})

Upgrade_M11 ==
  << Create("jobs", Jobs_M11),
     UniqueActive("jobs", "chapter_id"),
     Create("job_events", JobEvents_M11),
     Create("outbox_messages", OutboxMessages_M11),
     Create("worker_records", WorkerRecords_M11) >>

Downgrade_M11 ==
  << Drop("worker_records"),
     Drop("outbox_messages"),
     Drop("job_events"),
     Drop("jobs") >>

-----------------------------------------------------------------------------
\* 3f86e80e0e51.

BookRuns_M12 ==
  Table({"project_id", "status", "mode", "thread_id", "idempotency_key",
         "total_chapters", "completed_chapters", "accepted_chapters",
         "failed_chapters", "needs_review_chapters", "max_chapter_retries",
         "max_global_revision_rounds", "current_global_revision_round",
         "model_profile", "privacy_policy", "current_node", "node_history",
         "blocking_reasons", "chapter_job_map", "chapter_status_map",
         "impacted_chapters", "periodic_checks", "progress",
         "max_estimated_cost", "max_total_tokens", "max_provider_calls",
         "spent_cost", "used_tokens", "provider_calls", "created_at",
         "updated_at"},
        {"current_chapter_number", "budget_id", "job_id", "workflow_run_id",
         "book_snapshot_id", "best_snapshot_id", "started_at", "finished_at",
         "error_code", "error_message"},
        {Cascade("project_id", "projects"),
         SetNull("budget_id", "project_budgets"), SetNull("job_id", "jobs"),
         SetNull("workflow_run_id", "workflow_runs")},
        {<<"idempotency_key">>, <<"job_id">>, <<"thread_id">>},
        "status" :> {"pending", "planning_validation", "generating", "paused",
                     "global_review", "global_revision", "completed",
                     "completed_needs_review", "cancel_requested", "cancelled",
                     "failed", "budget_blocked"}
        @@ "mode" :> {"sequential", "dependency_aware"}
        @@ "model_profile" :> {"offline", "economy", "balanced", "quality"}
        @@ "privacy_policy" :> {"offline", "strict", "standard"})

BookSnapshots_M12 ==
  Table({"project_id", "book_run_id", "snapshot_number", "status",
         "chapter_version_map", "total_words", "chapter_count",
         "accepted_chapter_count", "content_hash", "evaluation_summary",
         "created_at"}, {"accepted_at"},
        {Cascade("book_run_id", "book_runs"),
         Cascade("project_id", "projects")},
        {<<"book_run_id", "content_hash">>,
         <<"book_run_id", "snapshot_number">>},
        "status" :> {"candidate", "reviewed", "accepted", "superseded",
                     "needs_review"})

BookEvaluations_M12 ==
  Table({"project_id", "book_run_id", "book_snapshot_id", "evaluation_version",
         "final_score", "passed", "dimension_scores", "blocking_reasons",
         "recommended_action", "priority_chapters", "global_issues",
         "critique", "evaluator_versions", "prompt_versions",
         "idempotency_key", "created_at"}, {},
        {Cascade("book_run_id", "book_runs"),
         Cascade("book_snapshot_id", "book_snapshots"),
         Cascade("project_id", "projects")},
        {<<"book_snapshot_id", "evaluation_version">>, <<"idempotency_key">>},
        <<>>)

BookRevisionPlans_M12 ==
  Table({"project_id", "book_run_id", "book_snapshot_id", "revision_round",
         "global_objectives", "dependency_order", "must_preserve",
         "global_constraints", "estimated_calls", "estimated_tokens",
         "estimated_cost", "status", "created_at"}, {},
        {Cascade("book_run_id", "book_runs"),
         Cascade("book_snapshot_id", "book_snapshots"),
         Cascade("project_id", "projects")},
        {<<"book_run_id", "revision_round">>},
        "status" :> {"pending", "running", "completed", "skipped", "failed"})

ChapterTransitionEvaluations_M12 ==
  Table({"book_snapshot_id", "from_chapter", "to_chapter", "score", "issues",
         "strengths"}, {}, {Cascade("book_snapshot_id", "book_snapshots")},
        {<<"book_snapshot_id", "from_chapter", "to_chapter">>}, <<>>)

CharacterArcPoints_M12 ==
  Table({"project_id", "book_snapshot_id", "character_id", "chapter_number",
         "chapter_version_id", "goals", "emotional_state", "physical_state",
         "relationships", "knowledge", "conflicts", "decisions", "evidence"},
        {"location"},
        {Cascade("book_snapshot_id", "book_snapshots"),
         Cascade("chapter_version_id", "chapter_versions"),
         Cascade("character_id", "characters"),
         Cascade("project_id", "projects")},
        {<<"book_snapshot_id", "character_id", "chapter_number">>}, <<>>)

TimelineEvents_M12 ==
  Table({"project_id", "book_snapshot_id", "chapter_id", "chapter_version_id",
         "event_key", "title", "description", "sequence_index",
         "participant_entity_ids", "causes_event_ids", "consequence_event_ids",
         "confidence", "status", "evidence"}, {"story_time", "location_id"},
        {Cascade("book_snapshot_id", "book_snapshots"),
         Cascade("chapter_id", "chapters"),
         Cascade("chapter_version_id", "chapter_versions"),
         Cascade("project_id", "projects"),
         SetNull("location_id", "locations")},
        {<<"book_snapshot_id", "event_key">>}, <<>>)

BookRevisionTasks_M12 ==
  Table({"plan_id", "chapter_number", "priority", "issue_codes", "objective",
         "required_changes", "preserve_facts", "affected_future_chapters",
         "rerun_global_checks", "dependency_order", "impact_status", "status"},
        {"job_id"},
        {Cascade("plan_id", "book_revision_plans"), SetNull("job_id", "jobs")},
        {<<"plan_id", "chapter_number">>},
        "impact_status" :> {"unaffected", "recheck_required",
                            "revision_required"}
        @@ "status" :> {"pending", "running", "completed", "skipped",
                        "failed"})

CharacterKnowledge_M12 ==
  Table({"project_id", "book_snapshot_id", "character_id", "fact_id",
         "learned_chapter", "confidence", "status"}, {"source_event_id"},
        {Cascade("book_snapshot_id", "book_snapshots"),
         Cascade("character_id", "characters"), Cascade("fact_id", "facts"),
         Cascade("project_id", "projects"),
         SetNull("source_event_id", "timeline_events")},
        {<<"book_snapshot_id", "character_id", "fact_id">>},
        "status" :> {"known", "forgotten", "misled", "false_belief"})

RelationshipHistory_M12 ==
  Table({"project_id", "book_snapshot_id", "subject_character_id",
         "object_character_id", "relationship_type", "value", "chapter_number",
         "chapter_version_id", "valid_from_chapter", "status", "evidence"},
        {"event_id", "valid_to_chapter"},
        {Cascade("book_snapshot_id", "book_snapshots"),
         Cascade("chapter_version_id", "chapter_versions"),
         Cascade("object_character_id", "characters"),
         Cascade("project_id", "projects"),
         Cascade("subject_character_id", "characters"),
         SetNull("event_id", "timeline_events")},
        {<<"book_snapshot_id", "subject_character_id", "object_character_id",
           "relationship_type", "valid_from_chapter">>},
        <<>>)

Upgrade_M12 ==
  << CreateBefore("book_runs", BookRuns_M12, {"job_id"}),
     UniqueActive("book_runs", "project_id"),
     Create("book_snapshots", BookSnapshots_M12),
     Create("book_evaluations", BookEvaluations_M12),
     Create("book_revision_plans", BookRevisionPlans_M12),
     Create("chapter_transition_evaluations",
            ChapterTransitionEvaluations_M12),
     Create("character_arc_points", CharacterArcPoints_M12),
     Create("timeline_events", TimelineEvents_M12),
     Create("book_revision_tasks", BookRevisionTasks_M12),
     Create("character_knowledge", CharacterKnowledge_M12),
     Create("relationship_history", RelationshipHistory_M12),
     Backup,
     Add("jobs",
         Table({"event_sequence"}, {"book_run_id", "parent_job_id"},
               {SetNull("book_run_id", "book_runs"),
                SetNull("parent_job_id", "jobs")}, {},
               "job_type" :> {"generate_plan", "generate_chapter",
                              "evaluate_chapter", "run_chapter_workflow",
                              "resume_workflow", "reindex_memory",
                              "run_retrieval_warmup", "run_book",
                              "resume_book"})),
     Restore,
     Fill("jobs", {"event_sequence"}, Value),
     Refer("book_runs", SetNull("job_id", "jobs")),
     Add("provider_calls",
         Checks("task_type" :> {"planning", "chapter_drafting",
                                "fact_extraction", "graph_extraction",
                                "literary_critique", "revision",
                                "version_comparison", "embedding_document",
                                "embedding_query", "book_critique"})) >>

Downgrade_M12 ==
  << Add("provider_calls",
         Checks("task_type" :> {"planning", "chapter_drafting",
                                "fact_extraction", "graph_extraction",
                                "literary_critique", "revision",
                                "version_comparison", "embedding_document",
                                "embedding_query"})),
     Backup,
     Rework("jobs",
            Checks("job_type" :> {"generate_plan", "generate_chapter",
                                  "evaluate_chapter", "run_chapter_workflow",
                                  "resume_workflow", "reindex_memory",
                                  "run_retrieval_warmup"}),
            Without({"event_sequence", "parent_job_id", "book_run_id"},
                    {"parent_job_id", "book_run_id"}, {}, {})),
     Restore,
     Drop("relationship_history"),
     Drop("character_knowledge"),
     Drop("book_revision_tasks"),
     Drop("timeline_events"),
     Drop("character_arc_points"),
     Drop("chapter_transition_evaluations"),
     Drop("book_revision_plans"),
     Drop("book_evaluations"),
     Drop("book_snapshots"),
     NotUnique("book_runs", "project_id"),
     Drop("book_runs") >>

-----------------------------------------------------------------------------

Revisions ==
  <<"M1", "M3", "M4", "M5", "M6", "M7", "M8", "M10", "M11", "M12">>

Upgrades ==
  <<Upgrade_M1, Upgrade_M3, Upgrade_M4, Upgrade_M5, Upgrade_M6, Upgrade_M7,
    Upgrade_M8, Upgrade_M10, Upgrade_M11, Upgrade_M12>>

Downgrades ==
  <<Downgrade_M1, Downgrade_M3, Downgrade_M4, Downgrade_M5, Downgrade_M6,
    Downgrade_M7, Downgrade_M8, Downgrade_M10, Downgrade_M11, Downgrade_M12>>

=============================================================================
