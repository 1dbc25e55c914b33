----------------------------- MODULE MCMigration -----------------------------
\* Migration with the scripts of app/db.py.
EXTENDS Migration

Create(o) == [op |-> "create", object |-> o]
Drop(o)   == [op |-> "drop", object |-> o]

SchemaV1 == <<Create("questions"), Create("idx_questions_last_hit"), Create("providers"),
              Create("app_config"), Create("stats_daily"), Create("provider_stats_daily"),
              Create("call_log"), Create("idx_call_log_ts")>>

SchemaV2 == <<Drop("idx_questions_created")>>

MCScripts == <<SchemaV1, SchemaV2>>
=============================================================================
