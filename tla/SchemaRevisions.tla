-------------------------- MODULE SchemaRevisions --------------------------
(***************************************************************************)
(* The revisions under migrations/versions in the order of their           *)
(* down_revision, and the tables that the models declare.  Of a column the *)
(* table, the name and whether an INSERT may leave it out: because it may  *)
(* be null, because the server has a default, or not at all.               *)
(***************************************************************************)
EXTENDS Naturals

Object(t, n, k) == [table |-> t, name |-> n, kind |-> k]
All(t, names, k) == {Object(t, n, k) : n \in names}

Nullable(t, names)  == All(t, names, "nullable")
Defaulted(t, names) == All(t, names, "defaulted")
Needed(t, names)    == All(t, names, "required")
Indexes(t, names)   == All(t, names, "index")
Checks(t, names)    == All(t, names, "check")

ForeignKey(t, n, target) == {[table |-> t, name |-> n, kind |-> "foreign", to |-> target]}

Jobs    == "jobs"
Reports == "investigation_reports"
Events  == "investigation_review_events"
Index   == "runbook_embeddings"

-----------------------------------------------------------------------------
(* Upgrades *)

CreateJobs ==
  {Object("job_status", "job_status", "enum")}
    \union Needed(Jobs, {"id", "input_path"})
    \union Defaulted(Jobs, {"status", "created_at", "updated_at"})
    \union Nullable(Jobs, {"error_message", "started_at", "completed_at"})
    \union Indexes(Jobs, {"ix_status"})

CreateReports ==
  {Object("investigation_report_status", "investigation_report_status", "shared enum")}
    \union Needed(Reports, {"id", "job_id", "incident_id", "root_cause",
         "supporting_evidence", "recommended_actions", "verification_steps",
         "confidence", "citation_ids"})
    \union Defaulted(Reports, {"status", "created_at", "updated_at"})
    \union Nullable(Reports, {"reviewed_by", "reviewer_feedback", "reviewed_at"})
    \union Checks(Reports, {"confidence_range"})
    \union ForeignKey(Reports, "fk_job_id", Jobs)
    \union All(Reports, {"uq_job_id"}, "unique")
    \union Indexes(Reports, {"ix_incident_id", "ix_status"})

CreateReviewEvents ==
  Needed(Events, {"id", "report_id", "previous_status", "new_status", "reviewed_by"})
    \union Defaulted(Events, {"created_at"})
    \union Nullable(Events, {"reviewer_feedback"})
    \union ForeignKey(Events, "fk_report_id", Reports)
    \union Indexes(Events, {"ix_report_id"})

AddRunbookIndex ==
  {Object("vector", "vector", "extension")}
    \union Needed(Index, {"citation_id", "runbook_id", "runbook_title",
         "section_title", "content", "source_file", "content_hash",
         "embedding_model", "embedding_dimensions", "embedding"})
    \union Defaulted(Index, {"indexed_at"})
    \union Indexes(Index, {"ix_embedding_model", "ix_runbook_id", "ix_embedding_hnsw"})

\* Mutant: a new column without a default.
AddProvenanceWithoutDefault ==
  Nullable(Jobs, {"incident_id", "claimed_by", "lease_expires_at"})
    \union Needed(Jobs, {"attempt_count"})
    \union Defaulted(Jobs, {"max_attempts", "scheduled_at"})
    \union Checks(Jobs, {"attempt_count_nonnegative", "max_attempts_positive",
         "attempt_count_within_limit"})
    \union Indexes(Jobs, {"ix_incident_id", "ix_scheduled_at"})
    \union Defaulted(Reports, {"embedding_model", "analysis_model", "prompt_version",
         "retrieval_backend", "retrieval_limit", "minimum_relevance_score",
         "retrieved_sections"})
    \union Checks(Reports, {"minimum_relevance_score_range", "retrieval_limit_positive"})

AddProvenance ==
  Nullable(Jobs, {"incident_id", "claimed_by", "lease_expires_at"})
    \union Defaulted(Jobs, {"attempt_count", "max_attempts", "scheduled_at"})
    \union Checks(Jobs, {"attempt_count_nonnegative", "max_attempts_positive",
         "attempt_count_within_limit"})
    \union Indexes(Jobs, {"ix_incident_id", "ix_scheduled_at"})
    \union Defaulted(Reports, {"embedding_model", "analysis_model", "prompt_version",
         "retrieval_backend", "retrieval_limit", "minimum_relevance_score",
         "retrieved_sections"})
    \union Checks(Reports, {"minimum_relevance_score_range", "retrieval_limit_positive"})

ConstrainDimensions == Checks(Index, {"embedding_dimensions_expected"})

\* Mutant: a new column without a default.
AddReactProvenanceWithoutDefault ==
  Defaulted(Reports, {"react_iterations", "react_tool_calls", "react_trajectory"})
    \union Needed(Reports, {"investigation_mode"})
    \union Nullable(Reports, {"react_termination_reason"})
    \union Checks(Reports, {"react_iterations_nonnegative", "react_tool_calls_nonnegative"})

\* Mutant: a constraint of the models is forgotten.
AddReactProvenanceUnchecked ==
  Defaulted(Reports, {"investigation_mode", "react_iterations", "react_tool_calls",
      "react_trajectory"})
    \union Nullable(Reports, {"react_termination_reason"})
    \union Checks(Reports, {"react_iterations_nonnegative"})

AddReactProvenance ==
  Defaulted(Reports, {"investigation_mode", "react_iterations", "react_tool_calls",
      "react_trajectory"})
    \union Nullable(Reports, {"react_termination_reason"})
    \union Checks(Reports, {"react_iterations_nonnegative", "react_tool_calls_nonnegative"})

RevisionCreates ==
  <<CreateJobs, CreateReports, CreateReviewEvents, AddRunbookIndex, AddProvenance,
    ConstrainDimensions, AddReactProvenance>>

-----------------------------------------------------------------------------
(* Downgrades: whole tables, and names within tables that stay *)

Dropped(tables, names) == [tables |-> tables, names |-> names]
In(t, names) == {<<t, n>> : n \in names}

DropJobs == Dropped({Jobs}, In("job_status", {"job_status"}))

DropReports ==
  Dropped({Reports}, In("investigation_report_status", {"investigation_report_status"}))

DropReviewEvents == Dropped({Events}, {})

DropRunbookIndex == Dropped({Index}, {})

\* Mutant: the index of the incidents is left behind.
DropProvenanceKeepsIndex ==
  Dropped({},
    In(Reports, {"retrieval_limit_positive", "minimum_relevance_score_range",
         "retrieved_sections", "minimum_relevance_score", "retrieval_limit",
         "retrieval_backend", "prompt_version", "analysis_model", "embedding_model"})
    \union In(Jobs, {"ix_scheduled_at", "attempt_count_within_limit",
         "max_attempts_positive", "attempt_count_nonnegative", "scheduled_at",
         "lease_expires_at", "claimed_by", "max_attempts", "attempt_count",
         "incident_id"}))

DropProvenance ==
  Dropped({},
    In(Reports, {"retrieval_limit_positive", "minimum_relevance_score_range",
         "retrieved_sections", "minimum_relevance_score", "retrieval_limit",
         "retrieval_backend", "prompt_version", "analysis_model", "embedding_model"})
    \union In(Jobs, {"ix_scheduled_at", "ix_incident_id", "attempt_count_within_limit",
         "max_attempts_positive", "attempt_count_nonnegative", "scheduled_at",
         "lease_expires_at", "claimed_by", "max_attempts", "attempt_count",
         "incident_id"}))

ReleaseDimensions == Dropped({}, In(Index, {"embedding_dimensions_expected"}))

DropReactProvenance ==
  Dropped({}, In(Reports, {"react_tool_calls_nonnegative", "react_iterations_nonnegative",
    "react_trajectory", "react_tool_calls", "react_iterations",
    "react_termination_reason", "investigation_mode"}))

RevisionDrops ==
  <<DropJobs, DropReports, DropReviewEvents, DropRunbookIndex, DropProvenance,
    ReleaseDimensions, DropReactProvenance>>

-----------------------------------------------------------------------------
(* The models *)

Job ==
  Needed(Jobs, {"id", "input_path"})
    \union Defaulted(Jobs, {"status", "attempt_count", "max_attempts", "scheduled_at",
         "created_at", "updated_at"})
    \union Nullable(Jobs, {"incident_id", "error_message", "claimed_by",
         "lease_expires_at", "started_at", "completed_at"})
    \union Checks(Jobs, {"attempt_count_nonnegative", "max_attempts_positive",
         "attempt_count_within_limit"})
    \union Indexes(Jobs, {"ix_incident_id", "ix_status", "ix_scheduled_at"})

InvestigationReport ==
  Needed(Reports, {"id", "job_id", "incident_id", "root_cause", "supporting_evidence",
      "recommended_actions", "verification_steps", "confidence", "citation_ids",
      "embedding_model", "analysis_model", "prompt_version", "retrieval_backend",
      "retrieval_limit", "minimum_relevance_score", "retrieved_sections"})
    \union Defaulted(Reports, {"investigation_mode", "react_iterations",
         "react_tool_calls", "react_trajectory", "status", "created_at", "updated_at"})
    \union Nullable(Reports, {"react_termination_reason", "reviewed_by",
         "reviewer_feedback", "reviewed_at"})
    \union Checks(Reports, {"confidence_range", "minimum_relevance_score_range",
         "retrieval_limit_positive", "react_iterations_nonnegative",
         "react_tool_calls_nonnegative"})
    \union ForeignKey(Reports, "fk_job_id", Jobs)
    \union All(Reports, {"uq_job_id"}, "unique")
    \union Indexes(Reports, {"ix_incident_id", "ix_status"})

InvestigationReviewEvent ==
  Needed(Events, {"id", "report_id", "previous_status", "new_status", "reviewed_by"})
    \union Defaulted(Events, {"created_at"})
    \union Nullable(Events, {"reviewer_feedback"})
    \union ForeignKey(Events, "fk_report_id", Reports)
    \union Indexes(Events, {"ix_report_id"})

RunbookEmbedding ==
  Needed(Index, {"citation_id", "runbook_id", "runbook_title", "section_title",
      "content", "source_file", "content_hash", "embedding_model",
      "embedding_dimensions", "embedding"})
    \union Defaulted(Index, {"indexed_at"})
    \union Checks(Index, {"embedding_dimensions_expected"})
    \union Indexes(Index, {"ix_embedding_model", "ix_runbook_id", "ix_embedding_hnsw"})

DeclaredObjects ==
  Job \union InvestigationReport \union InvestigationReviewEvent \union RunbookEmbedding
=============================================================================
