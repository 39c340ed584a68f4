------------------------------ MODULE Rollout ------------------------------
(* What decides where a request goes next to the balancer: a release with    *)
(* its two colours, a feature flag, the weights of a canary and the services *)
(* behind /vN.  Each call on a release or a flag holds the entry's lock, so  *)
(* it is one step; operators repeat calls and overlap in any order.          *)
EXTENDS Integers, SequencesExt

CONSTANTS
  Context,       \* contexts a flag is evaluated for, and the hash of each
  HashOf,
  Buckets,       \* 100 in the code
  Rules,         \* targeting rules: each the contexts it lets through
  MaxSwitches,
  MaxEvals,
  Width          \* bits of a weight (u32 in the code)

VARIABLES
  release,   \* the Release
  before,    \* its colour before the last switch (history)
  switches,  \* switches so far (history)
  flag,      \* the FeatureFlag
  on         \* contexts the flag let through since it was created (history)

rolloutVars == <<release, before, switches, flag, on>>

FlipColor(c) == IF c = "blue" THEN "green" ELSE "blue"
NewFlag(enabled, percentage) ==
  [enabled |-> enabled, percentage |-> percentage, rules |-> {}, evals |-> 0, trues |-> 0]

RolloutInit ==
  /\ release = [status |-> "Active", active |-> "blue", rollbacks |-> 0]
  /\ before = "blue" /\ switches = 0
  /\ flag = NewFlag(FALSE, Buckets) /\ on = {}

Switch ==
  /\ release.status = "Active" /\ switches < MaxSwitches
  /\ release' = [release EXCEPT !.active = FlipColor(@)]
  /\ before' = release.active /\ switches' = switches + 1
  /\ UNCHANGED <<flag, on>>

CheckRollback_ToBlue ==   \* mutant
  /\ release.status = "Active"
  /\ release' = [status |-> "RolledBack", active |-> "blue", rollbacks |-> release.rollbacks + 1]
  /\ UNCHANGED <<before, switches, flag, on>>

\* The caller's error rate is above the threshold.
CheckRollback ==
  /\ release.status = "Active"
  /\ release' = [status |-> "RolledBack", active |-> FlipColor(release.active),
                 rollbacks |-> release.rollbacks + 1]
  /\ UNCHANGED <<before, switches, flag, on>>

\* create replaces a flag of the same name, rules and counts included.
CreateFlag(enabled, percentage) ==
  /\ flag' = NewFlag(enabled, percentage) /\ on' = {}
  /\ UNCHANGED <<release, before, switches>>

Toggle ==
  /\ flag' = [flag EXCEPT !.enabled = ~@]
  /\ UNCHANGED <<release, before, switches, on>>

AddRule(r) ==
  /\ flag' = [flag EXCEPT !.rules = @ \cup {r}]
  /\ UNCHANGED <<release, before, switches, on>>

IsOn(f, c) ==
  /\ f.enabled /\ \A r \in f.rules : c \in r
  /\ f.percentage < Buckets => HashOf[c] < f.percentage

Evaluate(c) ==
  /\ flag.evals < MaxEvals
  /\ flag' = [flag EXCEPT !.evals = @ + 1, !.trues = @ + IF IsOn(flag, c) THEN 1 ELSE 0]
  /\ on' = IF IsOn(flag, c) THEN on \cup {c} ELSE on
  /\ UNCHANGED <<release, before, switches>>

RolloutNext ==
  \/ Switch \/ CheckRollback \/ Toggle
  \/ \E enabled \in BOOLEAN, p \in 0..Buckets : CreateFlag(enabled, p)
  \/ \E r \in Rules : AddRule(r)
  \/ \E c \in Context : Evaluate(c)

RolloutSpec == RolloutInit /\ [][RolloutNext]_rolloutVars

-----------------------------------------------------------------------------
(* select_upstream: a roll below the sum of the weights, and the first       *)
(* upstream whose cumulated weight exceeds it, both in Width bits.           *)
Wrap(n) == n % 2 ^ Width
UpTo(w, i) == Wrap(FoldLeft(LAMBDA a, b : a + b, 0, SubSeq(w, 1, i)))
Picked(w, roll) ==
  LET over == {i \in DOMAIN w : roll < UpTo(w, i)}
  IN IF over = {} THEN 0 ELSE CHOOSE i \in over : \A j \in over : i <= j
Rolls(w, i) == {r \in 0..UpTo(w, Len(w)) - 1 : Picked(w, r) = i}
Fits(w) == FoldLeft(LAMBDA a, b : a + b, 0, w) < 2 ^ Width

\* versioned_gateway_handler takes the first match of a map's arbitrary order.
Versioned(services, path, version) ==
  {s \in services : IsPrefix(s.prefix, path) /\ s.version \in {"none", version}}

Weights == UNION {[1..n -> 0..2 ^ Width - 1] : n \in 1..3}
Services == [prefix: {<<"a">>, <<"a", "b">>, <<"b">>}, version: {"1", "2", "none"}]

RolloutTypeOK ==
  /\ release \in [status: {"Active", "RolledBack"}, active: {"blue", "green"}, rollbacks: 0..1]
  /\ before \in {"blue", "green"} /\ switches \in 0..MaxSwitches
  /\ flag \in [enabled: BOOLEAN, percentage: 0..Buckets, rules: SUBSET Rules,
               evals: 0..MaxEvals, trues: 0..MaxEvals]
  /\ on \subseteq Context

\* A rollback restores the colour that was active before the last switch, and
\* happens once.  (Without any switch it activates the colour that never served,
\* releases.rs:142.)  A flag that has counted an answer true has given that
\* answer to a context its percentage admits.
RolloutHolds ==
  /\ release.status = "RolledBack" =>
       release.rollbacks = 1 /\ (switches > 0 => release.active = before)
  /\ flag.trues <= flag.evals /\ (flag.trues > 0 <=> on # {})
  /\ \A c \in on : HashOf[c] < flag.percentage \/ flag.percentage = Buckets

\* Raising the percentage of a flag and dropping a rule keep every context that
\* was on; weights whose sum fits get exactly their share of the rolls; a
\* versioned path has one target when no prefix among its version's services
\* extends another.
RolloutRulesMean ==
  /\ \A c \in Context, p, q \in 0..Buckets, r \in Rules :
       LET f == [NewFlag(TRUE, p) EXCEPT !.rules = {r}] IN
       p <= q /\ IsOn(f, c) => IsOn([f EXCEPT !.percentage = q], c) /\ IsOn(NewFlag(TRUE, p), c)
  /\ \A w \in Weights : Fits(w) => \A i \in DOMAIN w : Cardinality(Rolls(w, i)) = w[i]
  /\ \A s, t \in Services : \A v \in {"1", "2"} : \A path \in {<<"a">>, <<"a", "b">>, <<"b", "a">>} :
       ~IsPrefix(s.prefix, t.prefix) /\ ~IsPrefix(t.prefix, s.prefix)
         => Cardinality(Versioned({s, t}, path, v)) <= 1

=============================================================================
