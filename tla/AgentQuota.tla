------------------------------ MODULE AgentQuota ------------------------------
(***************************************************************************)
(* What the rows of jarvis_agent_quota_state allow (agent-quota.ts), and   *)
(* who writes them: migration 014, the discovery of the rate limits of     *)
(* Codex (codex-ratelimit-discovery.ts) and the refusals of a provider     *)
(* (agent-start.ts).  Percentages and dates are abstracted to the sides of *)
(* the thresholds that the code compares them with.                        *)
(***************************************************************************)

Workers == {"codex", "cursor"}
QuotaStates == {"available", "limited", "exhausted", "unknown"}
TrustedSources == {"provider", "provider_cli", "provider_api"}
Sources == TrustedSources \cup {"execution_observation", "operator", "synthetic", "unknown"}

\* fresh: observed less than fifteen minutes ago, and not expired.
QuotaRow == [state : QuotaStates, source : Sources, fresh : BOOLEAN]

\* What the Codex app-server answers about its limits: the limit reached, if any, and the larger of the
\* percentages used; "high" and "full" are the two thresholds.
Payload ==
  [present : BOOLEAN, reached : {"no", "exhausted", "other"},
   used : {"absent", "low", "high", "full"}]

VARIABLES
  quotaRow  \* the row of each worker type

-----------------------------------------------------------------------------
\* getAgentQuotaDecision: exhaustion counts whoever reports it, except that
\* nothing synthetic counts; an operator never grants.
AuthorizationClass(row) ==
  CASE row.source = "operator" ->
         IF row.state = "exhausted" THEN "DENY_EXHAUSTED" ELSE "DENY_OPERATOR"
    [] row.source = "synthetic" -> "DENY_SYNTHETIC"
    [] row.source \notin {"operator", "synthetic"} /\ row.state = "exhausted" ->
         "DENY_EXHAUSTED"
    [] row.source \in TrustedSources /\ row.state \in {"available", "limited"} ->
         IF row.fresh THEN "ALLOW" ELSE "DENY_STALE"
    [] row.source = "execution_observation" /\ row.state = "limited" ->
         IF row.fresh THEN "DENY_LIMITED" ELSE "DENY_STALE"
    [] OTHER -> "DENY_UNKNOWN"

\* Mutant: the class of the decision is handed over in place of a state.
RuntimeClass(row) ==
  IF AuthorizationClass(row) = "ALLOW" THEN row.state ELSE AuthorizationClass(row)

\* decisionToRuntimeQuotaState.
RuntimeState(row) ==
  CASE AuthorizationClass(row) = "ALLOW" -> row.state
    [] AuthorizationClass(row) = "DENY_EXHAUSTED" -> "exhausted"
    [] OTHER -> "unknown"

\* normalizeCodexRateLimitPayload: an answer without a window is not availability.
ObservedState(p) ==
  CASE ~ p.present -> "unknown"
    [] p.present /\ p.reached = "exhausted" -> "exhausted"
    [] p.present /\ p.reached = "other" -> "limited"
    [] OTHER -> CASE p.used = "absent" -> "unknown"
                  [] p.used = "low" -> "available"
                  [] p.used = "high" -> "limited"
                  [] p.used = "full" -> "exhausted"

Writes(worker, state, source) ==
  quotaRow' = [quotaRow EXCEPT ![worker] =
                 [state |-> state, source |-> source, fresh |-> TRUE]]

-----------------------------------------------------------------------------
\* The rows of migration 014.
QuotaInit ==
  quotaRow = [w \in Workers |-> [state |-> "unknown", source |-> "operator", fresh |-> TRUE]]

\* A trustworthy observation replaces the row of Codex, whatever it holds.
Discover(p) ==
  /\ ObservedState(p) # "unknown"
  /\ Writes("codex", ObservedState(p), "provider_cli")

\* The window of freshness closes, or the row expires.
RowAges(w) ==
  /\ quotaRow[w].fresh
  /\ quotaRow[w].source \notin {"operator", "synthetic"}
  /\ quotaRow' = [quotaRow EXCEPT ![w].fresh = FALSE]
=============================================================================
