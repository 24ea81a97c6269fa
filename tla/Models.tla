-------------------------------- MODULE Models --------------------------------
(* The tables of the persistence layer: the value sets of the enumerations, *)
(* and for each mapped class the columns, references and unique keys the    *)
(* ORM declares.  A column is required (NOT NULL) or optional; a reference   *)
(* names its column, its parent table and what becomes of the row when the   *)
(* parent goes; a value check names its column and the values it admits.     *)
(* The surrogate key "id" of every table, numeric checks, server defaults,   *)
(* types and plain indexes are left out.                                     *)
EXTENDS TLC

Table(required, optional, references, keys, checks) ==
  [required |-> required, optional |-> optional, references |-> references,
   keys |-> keys, checks |-> checks]

Reference(column, parent, rule) ==
  [column |-> column, parent |-> parent, rule |-> rule]

Cascade(column, parent) == Reference(column, parent, "cascade")

SetNull(column, parent) == Reference(column, parent, "set null")

(* The key of a partial unique index over the rows whose status is active.   *)
ActiveKey(column) == <<"active", column>>

-----------------------------------------------------------------------------
\* Enumerations.

ProjectStatus ==
  {"created", "draft", "planning", "planned", "generating", "active",
   "completed", "failed", "archived"}

ChapterStatus ==
  {"planned", "generating", "draft", "extracting_facts", "generated",
   "fact_extraction_failed", "failed", "evaluating", "evaluated_passed",
   "evaluated_needs_revision", "evaluation_failed", "needs_revision",
   "accepted", "needs_human_review", "workflow_running", "drafting",
   "revising", "workflow_failed"}

ForeshadowingStatus ==
  {"planned", "open", "resolved", "abandoned"}

WorkflowRunStatus ==
  {"pending", "running", "succeeded", "failed", "needs_human_review", "paused",
   "completed", "completed_needs_review", "cancelled"}

ChapterVersionStatus ==
  {"draft", "evaluated", "revision", "accepted", "rejected", "superseded",
   "needs_review"}

FactStatus ==
  {"candidate", "accepted", "rejected", "superseded"}

WorkflowEventType ==
  {"node_started", "node_completed", "node_failed", "route_selected",
   "version_created", "evaluation_created", "revision_rejected",
   "version_accepted", "workflow_completed"}

ConflictType ==
  {"character_state", "character_knowledge", "character_existence", "location",
   "timeline", "object_state", "story_rule", "fact_contradiction",
   "foreshadowing", "outline_violation"}

ConflictSeverity ==
  {"low", "medium", "high", "critical"}

ConflictStatus ==
  {"open", "ignored", "resolved", "false_positive"}

EvaluationStatus ==
  {"completed", "partial_failed"}

MemoryStatus ==
  {"candidate", "accepted", "rejected", "superseded", "deleted"}

MemoryIndexStatus ==
  {"pending", "indexing", "completed", "failed", "superseded"}

GraphEntityType ==
  {"character", "location", "object", "event", "secret", "faction", "rule",
   "foreshadowing", "chapter"}

GraphPredicate ==
  {"APPEARS_IN", "LOCATED_AT", "KNOWS", "OWNS", "MEMBER_OF", "CAUSED",
   "PARTICIPATED_IN", "FORESHADOWS", "REVEALS", "CONFLICTS_WITH", "RELATED_TO"}

TaskType ==
  {"planning", "chapter_drafting", "fact_extraction", "graph_extraction",
   "literary_critique", "revision", "version_comparison", "embedding_document",
   "embedding_query", "book_critique"}

ModelProfile ==
  {"offline", "economy", "balanced", "quality"}

PrivacyPolicy ==
  {"offline", "strict", "standard"}

ProviderCallStatus ==
  {"pending", "running", "succeeded", "failed", "rate_limited", "timed_out",
   "budget_blocked", "circuit_open", "cancelled"}

TokenUsageSource ==
  {"provider_reported", "local_estimate", "mock", "unknown"}

BudgetPeriod ==
  {"lifetime", "daily", "monthly"}

IdempotencyStatus ==
  {"active", "succeeded", "failed"}

JobType ==
  {"generate_plan", "generate_chapter", "evaluate_chapter",
   "run_chapter_workflow", "resume_workflow", "reindex_memory",
   "run_retrieval_warmup", "run_book", "resume_book"}

BookRunMode ==
  {"sequential", "dependency_aware"}

BookRunStatus ==
  {"pending", "planning_validation", "generating", "paused", "global_review",
   "global_revision", "completed", "completed_needs_review",
   "cancel_requested", "cancelled", "failed", "budget_blocked"}

BookSnapshotStatus ==
  {"candidate", "reviewed", "accepted", "superseded", "needs_review"}

KnowledgeStatus ==
  {"known", "forgotten", "misled", "false_belief"}

BookRevisionStatus ==
  {"pending", "running", "completed", "skipped", "failed"}

ChapterImpactStatus ==
  {"unaffected", "recheck_required", "revision_required"}

JobStatus ==
  {"pending", "outbox_pending", "queued", "leased", "running",
   "pause_requested", "paused", "cancel_requested", "cancelled",
   "retry_scheduled", "succeeded", "failed", "dead_lettered"}

JobEventType ==
  {"job_created", "job_queued", "job_leased", "job_started",
   "progress_updated", "workflow_node_started", "workflow_node_completed",
   "retry_scheduled", "pause_requested", "job_paused", "resume_requested",
   "cancel_requested", "job_cancelled", "job_succeeded", "job_failed",
   "job_dead_lettered", "job_discarded"}

OutboxStatus ==
  {"pending", "claimed", "published", "failed"}

WorkerStatus ==
  {"starting", "idle", "busy", "stopping", "offline"}

-----------------------------------------------------------------------------
\* Mapped classes.

Project ==
  Table({"title", "genre", "premise", "target_chapters",
         "target_words_per_chapter", "language", "additional_requirements",
         "themes", "status", "model_profile", "privacy_policy", "created_at",
         "updated_at"},
        {"tone", "audience", "logline", "world_summary", "central_conflict",
         "ending_direction", "style_guide"}, {}, {},
        "status" :> ProjectStatus
        @@ "model_profile" :> ModelProfile
        @@ "privacy_policy" :> PrivacyPolicy)

Character ==
  Table({"project_id", "name", "role", "description", "goals", "personality",
         "personality_traits", "speech_style", "current_state", "secrets",
         "knowledge"}, {}, {Cascade("project_id", "projects")},
        {<<"project_id", "name">>}, <<>>)

Location ==
  Table({"project_id", "name", "description", "rules"}, {},
        {Cascade("project_id", "projects")}, {<<"project_id", "name">>}, <<>>)

StoryRule ==
  Table({"project_id", "category", "statement", "source", "active",
         "structured_metadata"}, {}, {Cascade("project_id", "projects")}, {},
        <<>>)

Chapter ==
  Table({"project_id", "chapter_number", "title", "outline", "objective",
         "outline_metadata", "content", "status", "version",
         "generation_metadata", "created_at", "updated_at"},
        {"summary", "score", "current_version_id", "accepted_version_id"},
        {Cascade("project_id", "projects"),
         SetNull("accepted_version_id", "chapter_versions"),
         SetNull("current_version_id", "chapter_versions")},
        {<<"project_id", "chapter_number">>}, "status" :> ChapterStatus)

Fact ==
  Table({"project_id", "chapter_id", "subject", "predicate", "object",
         "valid_from_chapter", "confidence", "source_quote", "fact_type",
         "chapter_version_id", "status", "normalized_hash"},
        {"valid_to_chapter", "workflow_run_id"},
        {Cascade("chapter_id", "chapters"),
         Cascade("chapter_version_id", "chapter_versions"),
         Cascade("project_id", "projects"),
         SetNull("workflow_run_id", "workflow_runs")},
        {<<"chapter_version_id", "normalized_hash">>}, "status" :> FactStatus)

Foreshadowing ==
  Table({"project_id", "setup_chapter", "expected_payoff_chapter",
         "description", "status", "importance"}, {"payoff_chapter"},
        {Cascade("project_id", "projects")}, {},
        "status" :> ForeshadowingStatus)

ChapterVersion ==
  Table({"chapter_id", "version", "title", "content", "summary",
         "generation_metadata", "status", "source", "word_count", "provider",
         "model", "prompt_versions", "candidate_character_updates",
         "candidate_foreshadowing_updates", "created_at"},
        {"parent_version_id", "workflow_run_id", "idempotency_key",
         "accepted_at"},
        {Cascade("chapter_id", "chapters"),
         SetNull("parent_version_id", "chapter_versions"),
         SetNull("workflow_run_id", "workflow_runs")},
        {<<"chapter_id", "version">>, <<"idempotency_key">>},
        "status" :> ChapterVersionStatus)

MemoryChunk ==
  Table({"project_id", "source_type", "source_id", "chunk_index", "content",
         "content_hash", "token_estimate", "character_count", "embedding",
         "embedding_provider", "embedding_model", "embedding_dimensions",
         "status", "valid_from_chapter", "metadata", "created_at",
         "updated_at"},
        {"chapter_id", "chapter_version_id", "valid_to_chapter"},
        {Cascade("chapter_id", "chapters"),
         Cascade("chapter_version_id", "chapter_versions"),
         Cascade("project_id", "projects")},
        {<<"project_id", "source_type", "source_id", "chunk_index",
           "content_hash">>},
        "status" :> MemoryStatus)

MemoryIndexRecord ==
  Table({"project_id", "chapter_version_id", "status", "embedding_provider",
         "embedding_model", "embedding_dimensions", "attempt_count",
         "chunk_count", "graph_entity_count", "graph_relation_count",
         "created_at", "updated_at"},
        {"error_code", "error_message", "completed_at"},
        {Cascade("chapter_version_id", "chapter_versions"),
         Cascade("project_id", "projects")},
        {<<"chapter_version_id", "embedding_provider", "embedding_model">>},
        "status" :> MemoryIndexStatus)

GraphEntity ==
  Table({"project_id", "entity_type", "canonical_name", "normalized_name",
         "disambiguation_key", "status", "confidence", "aliases", "metadata",
         "created_at", "updated_at"},
        {"description", "source_chapter_id", "source_version_id"},
        {Cascade("project_id", "projects"),
         SetNull("source_chapter_id", "chapters"),
         SetNull("source_version_id", "chapter_versions")},
        {<<"project_id", "entity_type", "normalized_name",
           "disambiguation_key">>},
        "entity_type" :> GraphEntityType
        @@ "status" :> MemoryStatus)

GraphRelation ==
  Table({"project_id", "subject_entity_id", "predicate", "object_entity_id",
         "confidence", "valid_from_chapter", "status", "evidence",
         "evidence_hash", "metadata", "created_at"},
        {"source_chapter_id", "source_version_id", "valid_to_chapter"},
        {Cascade("object_entity_id", "graph_entities"),
         Cascade("project_id", "projects"),
         Cascade("subject_entity_id", "graph_entities"),
         SetNull("source_chapter_id", "chapters"),
         SetNull("source_version_id", "chapter_versions")},
        {<<"project_id", "subject_entity_id", "predicate",
           "object_entity_id", "source_version_id", "evidence_hash">>},
        "predicate" :> GraphPredicate
        @@ "status" :> MemoryStatus)

Evaluation ==
  Table({"project_id", "chapter_id", "chapter_version_id", "evaluator",
         "evaluation_version", "status", "overall_score", "mechanical_score",
         "critic_score", "consistency_score", "prose_score", "character_score",
         "plot_score", "pacing_score", "dialogue_score",
         "emotional_impact_score", "outline_adherence_score", "raw_scores",
         "weighted_scores", "mechanical_metrics", "critic_dimensions",
         "evaluator_versions", "prompt_versions", "blocking_reasons",
         "recommended_action", "passed", "provider", "model", "config_version",
         "issues", "suggestions", "created_at"},
        {"workflow_run_id", "idempotency_key"},
        {Cascade("chapter_id", "chapters"),
         Cascade("chapter_version_id", "chapter_versions"),
         Cascade("project_id", "projects"),
         SetNull("workflow_run_id", "workflow_runs")},
        {<<"chapter_id", "evaluation_version">>, <<"idempotency_key">>},
        "status" :> EvaluationStatus)

EvaluationIssue ==
  Table({"evaluation_id", "source", "code", "category", "severity",
         "description", "score_penalty", "metadata", "created_at"},
        {"evidence", "suggestion"}, {Cascade("evaluation_id", "evaluations")},
        {}, "severity" :> ConflictSeverity)

Conflict ==
  Table({"evaluation_id", "project_id", "chapter_id", "chapter_version_id",
         "conflict_type", "severity", "subject", "description", "new_evidence",
         "suggested_resolution", "confidence", "rule_code", "status",
         "created_at"},
        {"existing_evidence", "existing_fact_id", "resolution_note",
         "resolved_at"},
        {Cascade("chapter_id", "chapters"),
         Cascade("chapter_version_id", "chapter_versions"),
         Cascade("evaluation_id", "evaluations"),
         Cascade("project_id", "projects"),
         SetNull("existing_fact_id", "facts")}, {},
        "conflict_type" :> ConflictType
        @@ "severity" :> ConflictSeverity
        @@ "status" :> ConflictStatus)

Revision ==
  Table({"chapter_id", "previous_version", "new_version", "reason",
         "score_before", "score_after", "accepted", "status", "brief",
         "prompt_versions", "created_at"},
        {"source_version_id", "new_version_id", "workflow_run_id"},
        {Cascade("chapter_id", "chapters"),
         SetNull("new_version_id", "chapter_versions"),
         SetNull("source_version_id", "chapter_versions"),
         SetNull("workflow_run_id", "workflow_runs")},
        {<<"chapter_id", "new_version">>}, <<>>)

WorkflowRun ==
  Table({"project_id", "chapter_id", "current_node", "status", "retry_count",
         "workflow_type", "operation", "thread_id", "revision_attempt",
         "max_revision_attempts", "node_history", "blocking_reasons",
         "prompt_versions", "started_at", "updated_at", "provider_call_count",
         "provider_input_tokens", "provider_output_tokens",
         "provider_estimated_cost", "provider_fallback_count",
         "provider_rate_limit_count"},
        {"original_version_id", "current_version_id", "best_version_id",
         "accepted_version_id", "error_code", "error_message", "finished_at"},
        {Cascade("chapter_id", "chapters"), Cascade("project_id", "projects"),
         SetNull("accepted_version_id", "chapter_versions"),
         SetNull("best_version_id", "chapter_versions"),
         SetNull("current_version_id", "chapter_versions"),
         SetNull("original_version_id", "chapter_versions")},
        {ActiveKey("chapter_id"), <<"thread_id">>},
        "status" :> WorkflowRunStatus)

WorkflowEvent ==
  Table({"workflow_run_id", "node", "event_type", "attempt", "status",
         "duration_ms", "created_at"},
        {"version_id", "evaluation_id", "error_code"},
        {Cascade("workflow_run_id", "workflow_runs"),
         SetNull("evaluation_id", "evaluations"),
         SetNull("version_id", "chapter_versions")},
        {<<"workflow_run_id", "node", "event_type", "attempt">>},
        "event_type" :> WorkflowEventType)

VersionComparison ==
  Table({"workflow_run_id", "old_version_id", "new_version_id", "dimensions",
         "overall_delta", "resolved_issue_codes", "unresolved_issue_codes",
         "newly_introduced_issue_codes", "decision", "confidence", "rationale",
         "created_at"}, {},
        {Cascade("new_version_id", "chapter_versions"),
         Cascade("old_version_id", "chapter_versions"),
         Cascade("workflow_run_id", "workflow_runs")},
        {<<"workflow_run_id", "new_version_id">>}, <<>>)

ProjectBudget ==
  Table({"project_id", "currency", "soft_limit", "hard_limit", "period",
         "spent_estimated", "spent_billed", "reserved_estimated",
         "alert_thresholds", "enabled", "created_at", "updated_at"}, {},
        {Cascade("project_id", "projects")}, {<<"project_id">>},
        "period" :> BudgetPeriod)

ProviderCall ==
  Table({"task_type", "provider", "model", "profile", "privacy_policy",
         "prompt_name", "prompt_version", "request_hash", "idempotency_key",
         "status", "attempt", "fallback_index", "input_tokens",
         "output_tokens", "cached_input_tokens", "total_tokens",
         "usage_source", "currency", "pricing_snapshot", "latency_ms",
         "created_at"},
        {"project_id", "workflow_run_id", "chapter_id", "chapter_version_id",
         "fallback_reason", "estimated_cost", "billed_cost",
         "provider_request_id", "error_code", "completed_at"},
        {Cascade("project_id", "projects"), SetNull("chapter_id", "chapters"),
         SetNull("chapter_version_id", "chapter_versions"),
         SetNull("workflow_run_id", "workflow_runs")},
        {<<"idempotency_key", "attempt", "fallback_index">>},
        "task_type" :> TaskType
        @@ "profile" :> ModelProfile
        @@ "privacy_policy" :> PrivacyPolicy
        @@ "status" :> ProviderCallStatus
        @@ "usage_source" :> TokenUsageSource)

ProviderIdempotencyRecord ==
  Table({"idempotency_key", "status", "created_at", "updated_at"},
        {"provider_call_id", "response_hash", "error_code"},
        {SetNull("provider_call_id", "provider_calls")},
        {<<"idempotency_key">>}, "status" :> IdempotencyStatus)

Job ==
  Table({"job_type", "queue_name", "status", "priority", "idempotency_key",
         "payload", "payload_schema_version", "result",
         "result_schema_version", "progress", "attempt", "max_attempts",
         "event_sequence", "available_at", "correlation_id", "created_at",
         "updated_at"},
        {"project_id", "chapter_id", "workflow_run_id", "book_run_id",
         "parent_job_id", "current_step", "queued_at", "started_at",
         "heartbeat_at", "lease_expires_at", "finished_at",
         "cancel_requested_at", "cancelled_at", "error_code", "error_message",
         "worker_id"},
        {Cascade("chapter_id", "chapters"), Cascade("project_id", "projects"),
         SetNull("book_run_id", "book_runs"), SetNull("parent_job_id", "jobs"),
         SetNull("workflow_run_id", "workflow_runs")},
        {ActiveKey("chapter_id"), <<"idempotency_key">>,
         <<"workflow_run_id">>},
        "job_type" :> JobType
        @@ "status" :> JobStatus)

JobEvent ==
  Table({"job_id", "sequence", "event_type", "status", "progress",
         "message_code", "message", "attempt", "created_at"},
        {"step", "worker_id", "workflow_event_id"},
        {Cascade("job_id", "jobs"),
         SetNull("workflow_event_id", "workflow_events")},
        {<<"job_id", "sequence">>},
        "event_type" :> JobEventType
        @@ "status" :> JobStatus)

OutboxMessage ==
  Table({"aggregate_type", "aggregate_id", "event_type", "payload", "status",
         "attempt", "available_at", "created_at", "deduplication_key"},
        {"published_at", "claimed_at", "claimed_by", "last_error"}, {},
        {<<"deduplication_key">>}, "status" :> OutboxStatus)

WorkerRecord ==
  Table({"worker_id", "queue_name", "status", "started_at",
         "last_heartbeat_at", "version"}, {"current_job_id"},
        {SetNull("current_job_id", "jobs")}, {<<"worker_id">>},
        "status" :> WorkerStatus)

BookRun ==
  Table({"project_id", "status", "mode", "thread_id", "idempotency_key",
         "total_chapters", "completed_chapters", "accepted_chapters",
         "failed_chapters", "needs_review_chapters", "max_chapter_retries",
         "max_global_revision_rounds", "current_global_revision_round",
         "model_profile", "privacy_policy", "current_node", "node_history",
         "blocking_reasons", "chapter_job_map", "chapter_status_map",
         "impacted_chapters", "periodic_checks", "progress",
         "max_estimated_cost", "max_total_tokens", "max_provider_calls",
         "spent_cost", "used_tokens", "provider_calls", "created_at",
         "updated_at"},
        {"current_chapter_number", "budget_id", "job_id", "workflow_run_id",
         "book_snapshot_id", "best_snapshot_id", "started_at", "finished_at",
         "error_code", "error_message"},
        {Cascade("project_id", "projects"),
         SetNull("budget_id", "project_budgets"), SetNull("job_id", "jobs"),
         SetNull("workflow_run_id", "workflow_runs")},
        {ActiveKey("project_id"), <<"idempotency_key">>, <<"job_id">>,
         <<"thread_id">>},
        "status" :> BookRunStatus
        @@ "mode" :> BookRunMode
        @@ "model_profile" :> ModelProfile
        @@ "privacy_policy" :> PrivacyPolicy)

BookSnapshot ==
  Table({"project_id", "book_run_id", "snapshot_number", "status",
         "chapter_version_map", "total_words", "chapter_count",
         "accepted_chapter_count", "content_hash", "evaluation_summary",
         "created_at"}, {"accepted_at"},
        {Cascade("book_run_id", "book_runs"),
         Cascade("project_id", "projects")},
        {<<"book_run_id", "content_hash">>,
         <<"book_run_id", "snapshot_number">>}, "status" :> BookSnapshotStatus)

TimelineEvent ==
  Table({"project_id", "book_snapshot_id", "chapter_id", "chapter_version_id",
         "event_key", "title", "description", "sequence_index",
         "participant_entity_ids", "causes_event_ids", "consequence_event_ids",
         "confidence", "status", "evidence"}, {"story_time", "location_id"},
        {Cascade("book_snapshot_id", "book_snapshots"),
         Cascade("chapter_id", "chapters"),
         Cascade("chapter_version_id", "chapter_versions"),
         Cascade("project_id", "projects"),
         SetNull("location_id", "locations")},
        {<<"book_snapshot_id", "event_key">>}, <<>>)

CharacterArcPoint ==
  Table({"project_id", "book_snapshot_id", "character_id", "chapter_number",
         "chapter_version_id", "goals", "emotional_state", "physical_state",
         "relationships", "knowledge", "conflicts", "decisions", "evidence"},
        {"location"},
        {Cascade("book_snapshot_id", "book_snapshots"),
         Cascade("chapter_version_id", "chapter_versions"),
         Cascade("character_id", "characters"),
         Cascade("project_id", "projects")},
        {<<"book_snapshot_id", "character_id", "chapter_number">>}, <<>>)

CharacterKnowledge ==
  Table({"project_id", "book_snapshot_id", "character_id", "fact_id",
         "learned_chapter", "confidence", "status"}, {"source_event_id"},
        {Cascade("book_snapshot_id", "book_snapshots"),
         Cascade("character_id", "characters"), Cascade("fact_id", "facts"),
         Cascade("project_id", "projects"),
         SetNull("source_event_id", "timeline_events")},
        {<<"book_snapshot_id", "character_id", "fact_id">>},
        "status" :> KnowledgeStatus)

RelationshipHistory ==
  Table({"project_id", "book_snapshot_id", "subject_character_id",
         "object_character_id", "relationship_type", "value", "chapter_number",
         "chapter_version_id", "valid_from_chapter", "status", "evidence"},
        {"event_id", "valid_to_chapter"},
        {Cascade("book_snapshot_id", "book_snapshots"),
         Cascade("chapter_version_id", "chapter_versions"),
         Cascade("object_character_id", "characters"),
         Cascade("project_id", "projects"),
         Cascade("subject_character_id", "characters"),
         SetNull("event_id", "timeline_events")},
        {<<"book_snapshot_id", "subject_character_id", "object_character_id",
           "relationship_type", "valid_from_chapter">>},
        <<>>)

ChapterTransitionEvaluation ==
  Table({"book_snapshot_id", "from_chapter", "to_chapter", "score", "issues",
         "strengths"}, {}, {Cascade("book_snapshot_id", "book_snapshots")},
        {<<"book_snapshot_id", "from_chapter", "to_chapter">>}, <<>>)

BookEvaluation ==
  Table({"project_id", "book_run_id", "book_snapshot_id", "evaluation_version",
         "final_score", "passed", "dimension_scores", "blocking_reasons",
         "recommended_action", "priority_chapters", "global_issues",
         "critique", "evaluator_versions", "prompt_versions",
         "idempotency_key", "created_at"}, {},
        {Cascade("book_run_id", "book_runs"),
         Cascade("book_snapshot_id", "book_snapshots"),
         Cascade("project_id", "projects")},
        {<<"book_snapshot_id", "evaluation_version">>, <<"idempotency_key">>},
        <<>>)

BookRevisionPlan ==
  Table({"project_id", "book_run_id", "book_snapshot_id", "revision_round",
         "global_objectives", "dependency_order", "must_preserve",
         "global_constraints", "estimated_calls", "estimated_tokens",
         "estimated_cost", "status", "created_at"}, {},
        {Cascade("book_run_id", "book_runs"),
         Cascade("book_snapshot_id", "book_snapshots"),
         Cascade("project_id", "projects")},
        {<<"book_run_id", "revision_round">>}, "status" :> BookRevisionStatus)

BookRevisionTask ==
  Table({"plan_id", "chapter_number", "priority", "issue_codes", "objective",
         "required_changes", "preserve_facts", "affected_future_chapters",
         "rerun_global_checks", "dependency_order", "impact_status", "status"},
        {"job_id"},
        {Cascade("plan_id", "book_revision_plans"), SetNull("job_id", "jobs")},
        {<<"plan_id", "chapter_number">>},
        "impact_status" :> ChapterImpactStatus
        @@ "status" :> BookRevisionStatus)

Metadata ==
  "projects" :> Project
  @@ "characters" :> Character
  @@ "locations" :> Location
  @@ "story_rules" :> StoryRule
  @@ "chapters" :> Chapter
  @@ "facts" :> Fact
  @@ "foreshadowings" :> Foreshadowing
  @@ "chapter_versions" :> ChapterVersion
  @@ "memory_chunks" :> MemoryChunk
  @@ "memory_index_records" :> MemoryIndexRecord
  @@ "graph_entities" :> GraphEntity
  @@ "graph_relations" :> GraphRelation
  @@ "evaluations" :> Evaluation
  @@ "evaluation_issues" :> EvaluationIssue
  @@ "consistency_conflicts" :> Conflict
  @@ "revisions" :> Revision
  @@ "workflow_runs" :> WorkflowRun
  @@ "workflow_events" :> WorkflowEvent
  @@ "version_comparisons" :> VersionComparison
  @@ "project_budgets" :> ProjectBudget
  @@ "provider_calls" :> ProviderCall
  @@ "provider_idempotency_records" :> ProviderIdempotencyRecord
  @@ "jobs" :> Job
  @@ "job_events" :> JobEvent
  @@ "outbox_messages" :> OutboxMessage
  @@ "worker_records" :> WorkerRecord
  @@ "book_runs" :> BookRun
  @@ "book_snapshots" :> BookSnapshot
  @@ "timeline_events" :> TimelineEvent
  @@ "character_arc_points" :> CharacterArcPoint
  @@ "character_knowledge" :> CharacterKnowledge
  @@ "relationship_history" :> RelationshipHistory
  @@ "chapter_transition_evaluations" :> ChapterTransitionEvaluation
  @@ "book_evaluations" :> BookEvaluation
  @@ "book_revision_plans" :> BookRevisionPlan
  @@ "book_revision_tasks" :> BookRevisionTask

=============================================================================
