------------------------------- MODULE Quota -------------------------------
(* Tenants (src/middleware/tenant.rs): the daily quota of a tenant is        *)
(* checked before a request and counted after it, in two calls, while        *)
(* another task sets the counters of all tenants to zero.                    *)
EXTENDS Integers, FiniteSets

CONSTANTS
  Tenant,
  Quotas,       \* Tenant -> quota_daily, or NoQuota
  Served,       \* requests that may be served at once
  MaxCount,     \* bound on daily_count of tenants without a quota
  NoQuota

VARIABLES
  daily,        \* Tenant -> daily_count
  serving,      \* serving[s]: the tenant whose request s serves, or NoQuota
  resets        \* whether a reset is under way, and what is left of it

quotaVars == <<daily, serving, resets>>

QuotaInit ==
  /\ daily = [t \in Tenant |-> 0] /\ serving = [s \in Served |-> NoQuota] /\ resets = {}

CheckQuota(t) == Quotas[t] # NoQuota => daily[t] < Quotas[t]

Serve(s, t) ==
  /\ serving[s] = NoQuota /\ CheckQuota(t)
  /\ serving' = [serving EXCEPT ![s] = t]
  /\ UNCHANGED <<daily, resets>>

RecordRequest(s) ==
  /\ serving[s] # NoQuota /\ daily[serving[s]] < MaxCount
  /\ daily' = [daily EXCEPT ![serving[s]] = @ + 1]
  /\ serving' = [serving EXCEPT ![s] = NoQuota]
  /\ UNCHANGED resets

\* iter_mut holds one entry at a time.
StartReset == resets = {} /\ resets' = Tenant /\ UNCHANGED <<daily, serving>>
ResetOne(t) ==
  /\ t \in resets /\ resets' = resets \ {t}
  /\ daily' = [daily EXCEPT ![t] = 0]
  /\ UNCHANGED serving

QuotaNext ==
  \/ \E s \in Served : RecordRequest(s) \/ \E t \in Tenant : Serve(s, t)
  \/ StartReset \/ \E t \in Tenant : ResetOne(t)

QuotaSpec == QuotaInit /\ [][QuotaNext]_quotaVars

-----------------------------------------------------------------------------
QuotaTypeOK ==
  /\ daily \in [Tenant -> 0..MaxCount] /\ serving \in [Served -> Tenant \cup {NoQuota}]
  /\ resets \subseteq Tenant

\* Requests that pass the check together exceed a daily quota by at most all but
\* one of the requests in service, also across a reset between check and count.
QuotaOvershoot ==
  \A t \in Tenant : Quotas[t] # NoQuota =>
    daily[t] + Cardinality({s \in Served : serving[s] = t})
      <= Quotas[t] + Cardinality(Served) - 1

=============================================================================
