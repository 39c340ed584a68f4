--------------------------- MODULE WafRules_proofs ---------------------------
(* What an id of a custom rule promises when the administrators of one node  *)
(* alone change the rules, and the other nodes only hear of it: it is one    *)
(* rule, on every node.                                                      *)
EXTENDS WafRules, FiniteSetTheorems, SequenceTheorems, TLAPS

\* Node w draws all ids: the others have no writers and no valid pattern in their
\* configuration, and w does not forget what it drew.
OneWriter(w) ==
  /\ Writers = {w} /\ w \notin Restartable
  /\ \A n \in Node \ {w} : \A c \in Configs[n] : Valid(c) = {}

WafConstants(w) ==
  /\ w \in Node /\ OneWriter(w)
  /\ Subscriber \notin Worker /\ Sync \notin Worker /\ Subscriber # Sync
  /\ Configs \in [Node -> SUBSET Seq(Pattern)]
  /\ \A n \in Node : \A c \in Configs[n] : Len(c) <= MaxId
  /\ {MaxId, MaxRestarts} \subseteq Nat /\ MaxReloads \in [Node -> Nat]

-----------------------------------------------------------------------------
(* The inductive invariant.                                                  *)
Singles == UNION {[S -> {1}] : S \in SUBSET Rule}   \* bags of rules without copies
Doing == [pc: {"idle"}]
         \cup [pc: {"apply", "bump"}, id: Id, pattern: Pattern]
         \cup [pc: {"reload"}, todo: Seq(Pattern), compiled: Singles]

WafTyped ==
  /\ rules \in [Node -> Singles] /\ next \in [Node -> 1..(MaxId + 1)]
  /\ holder \in [Node -> Worker \cup {Subscriber, None}]
  /\ task \in [Node -> [Thread -> Doing]]
  /\ DOMAIN outbox = Node /\ \A n \in Node : DOMAIN outbox[n] \subseteq Event
  /\ chan \in [Node -> Seq(Event)]
  /\ reloads \in [Node -> Nat] /\ (\A n \in Node : reloads[n] <= MaxReloads[n])
  /\ restarts \in 0..MaxRestarts

\* Where rules are: installed, told by the bus, and in a thread's hands.
Events(n) == DOMAIN outbox[n] \cup {chan[n][i] : i \in DOMAIN chan[n]}
Told(n) == {RuleOf(e) : e \in {x \in Events(n) : x.kind = "added"}}
Shared == UNION {DOMAIN rules[n] \cup Told(n) : n \in Node}
Carried(k) ==
  IF k.pc \in {"apply", "bump"} THEN {RuleOf(k)}
  ELSE IF k.pc = "reload" THEN DOMAIN k.compiled ELSE {}
InHands == UNION {Carried(task[n][t]) : n \in Node, t \in Thread}
ElsewhereInHands(w, v) ==
  UNION {Carried(task[p[1]][p[2]]) : p \in (Node \X Thread) \ {<<w, v>>}}
Known == Shared \cup InHands

\* An id is one rule wherever it is, and was drawn on w.
OneRuleAnId(w) ==
  /\ \A r, s \in Known : r.id = s.id => r = s
  /\ \A r \in Known : r.id < next[w]
\* The id that an add on w has drawn is nobody else's.
PendingIsFree(w) ==
  \A v \in Worker : task[w][v].pc = "apply" =>
    \A r \in Shared \cup ElsewhereInHands(w, v) : r.id # task[w][v].id
\* On w next_rule_id is never set back, and elsewhere no id is drawn.
OthersListen(w) ==
  /\ \A t \in Thread : task[w][t].pc # "bump"
  /\ \A n \in Node \ {w} : /\ \A v \in Worker : task[n][v].pc = "idle"
                           /\ task[n][Sync].pc = "reload" => task[n][Sync].todo \in Seq(Invalid)

WafInv(w) == WafTyped /\ OneRuleAnId(w) /\ PendingIsFree(w) /\ OthersListen(w)

-----------------------------------------------------------------------------
(* Bags of rules.                                                            *)
LEMMA SingleAdded ==
  ASSUME NEW b \in Singles, NEW r \in Rule, r \notin DOMAIN b
  PROVE  b (+) SetToBag({r}) \in Singles /\ DOMAIN (b (+) SetToBag({r})) = DOMAIN b \cup {r}
<1>1. PICK S \in SUBSET Rule : b \in [S -> {1}] BY DEF Singles
<1>2. SetToBag({r}) = [e \in {r} |-> 1] BY DEF SetToBag
<1>3. DOMAIN b = S /\ \A e \in S : b[e] = 1 BY <1>1
<1>4. b (+) SetToBag({r}) = [e \in S \cup {r} |-> 1]
  <2>1. b (+) SetToBag({r}) = [e \in S \cup {r} |-> (IF e \in S THEN b[e] ELSE 0)
                                                     + (IF e \in {r} THEN SetToBag({r})[e] ELSE 0)]
    BY <1>2, <1>3 DEF (+)
  <2>2. \A e \in S \cup {r} : (IF e \in S THEN b[e] ELSE 0)
                              + (IF e \in {r} THEN SetToBag({r})[e] ELSE 0) = 1
    BY <1>2, <1>3
  <2> QED BY <2>1, <2>2
<1>5. S \cup {r} \in SUBSET Rule /\ [e \in S \cup {r} |-> 1] \in [S \cup {r} -> {1}] OBVIOUS
<1> QED BY <1>3, <1>4, <1>5 DEF Singles

LEMMA SinglesLeft ==
  ASSUME NEW b \in Singles, NEW id
  PROVE  Without(b, id) \in Singles /\ DOMAIN Without(b, id) \subseteq DOMAIN b
<1>1. PICK S \in SUBSET Rule : b \in [S -> {1}] BY DEF Singles
<1>2. PICK T : T = {s \in S : s.id # id} OBVIOUS
<1>3. Without(b, id) = [r \in T |-> b[r]] BY <1>1, <1>2 DEF Without, BagToSet
<1>4. [r \in T |-> b[r]] \in [T -> {1}] /\ T \in SUBSET Rule BY <1>1, <1>2
<1> QED BY <1>1, <1>2, <1>3, <1>4 DEF Singles

LEMMA BagAdded ==
  ASSUME NEW b, NEW e
  PROVE  DOMAIN (b (+) SetToBag({e})) = DOMAIN b \cup {e}
BY DEF (+), SetToBag

LEMMA BagTaken ==
  ASSUME NEW b, NEW e
  PROVE  DOMAIN (b (-) SetToBag({e})) \subseteq DOMAIN b
BY DEF (-), SetToBag

\* Loading a configuration gives each valid pattern an id of its own.
LEMMA LoadedOnce ==
  ASSUME MaxId \in Nat, NEW c \in Seq(Pattern), Len(c) <= MaxId
  PROVE  /\ Loaded(c, 1) \in Singles /\ Cardinality(Valid(c)) \in 0..MaxId
         /\ \A r \in DOMAIN Loaded(c, 1) : r.id < 1 + Cardinality(Valid(c))
         /\ \A r, s \in DOMAIN Loaded(c, 1) : r.id = s.id => r = s
         /\ Valid(c) = {} => DOMAIN Loaded(c, 1) = {}
<1> DEFINE id(i) == 1 + Cardinality(Before(c, i))
           rule(i) == [id |-> id(i), pattern |-> c[i]]
<1>1. Len(c) \in Nat /\ DOMAIN c = 1..Len(c) OBVIOUS
<1>2. /\ IsFiniteSet(Valid(c)) /\ Cardinality(Valid(c)) \in Nat /\ Cardinality(Valid(c)) <= Len(c)
      /\ Valid(c) \subseteq Int
  <2>1. IsFiniteSet(1..Len(c)) /\ Cardinality(1..Len(c)) = Len(c)
    <3>1. PICK n : n = Len(c) OBVIOUS
    <3>2. 1 \in Int /\ n \in Int BY <1>1, <3>1
    <3>3. /\ IsFiniteSet(1..n)
          /\ Cardinality(1..n) = IF 1 > n THEN 0 ELSE n - 1 + 1
      BY <3>1, <3>2, FS_Interval
    <3>4. 0 <= n BY <1>1, <3>1
    <3> QED BY <3>1, <3>3, <3>4
  <2>2. Valid(c) \in SUBSET (1..Len(c)) BY <1>1 DEF Valid
  <2> QED BY <2>1, <2>2, <1>1, FS_Subset, FS_CardinalityType
<1>3. ASSUME NEW i \in Valid(c), NEW S, IsFiniteSet(S), Before(c, i) \subseteq S, i \in S
      PROVE  Cardinality(Before(c, i)) \in Nat /\ Cardinality(Before(c, i)) < Cardinality(S)
  <2>1. i \notin Before(c, i) /\ Before(c, i) \in SUBSET S BY <1>2, <1>3 DEF Before
  <2>2. Cardinality(Before(c, i)) <= Cardinality(S) /\ Cardinality(Before(c, i)) # Cardinality(S)
        /\ IsFiniteSet(Before(c, i))
    BY <1>3, <2>1, FS_Subset
  <2> QED BY <1>3, <2>2, FS_CardinalityType
<1>4. ASSUME NEW i \in Valid(c)
      PROVE  id(i) \in 1..Cardinality(Valid(c))
  <2>1. Before(c, i) \subseteq Valid(c) BY DEF Before
  <2> QED BY <1>2, <1>3, <2>1
<1>5. ASSUME NEW i \in Valid(c), NEW j \in Valid(c), i < j
      PROVE  id(i) < id(j)
  <2>1. Before(c, i) \subseteq Before(c, j) /\ i \in Before(c, j) /\ Before(c, j) \in SUBSET Valid(c)
    BY <1>2, <1>5 DEF Before
  <2>2. IsFiniteSet(Before(c, j)) BY <1>2, <2>1, FS_Subset
  <2>3. Cardinality(Before(c, j)) \in Nat BY <2>2, FS_CardinalityType
  <2>4. Cardinality(Before(c, i)) \in Nat /\ Cardinality(Before(c, i)) < Cardinality(Before(c, j))
    BY <1>3, <2>1, <2>2
  <2> QED BY <2>3, <2>4
<1>6. PICK R : R = {rule(i) : i \in Valid(c)} OBVIOUS
<1>7. R \in SUBSET Rule
  <2>1. ASSUME NEW i \in Valid(c) PROVE rule(i) \in Rule
    <3>1. id(i) \in 1..MaxId BY <1>1, <1>2, <1>4
    <3>2. c[i] \in Pattern BY <1>1 DEF Valid
    <3> HIDE DEF id
    <3> QED BY <3>1, <3>2 DEF Rule, Id
  <2> QED BY <1>6, <2>1
<1>8. Loaded(c, 1) = [r \in R |-> 1] BY <1>6 DEF Loaded, SetToBag
<1>9. ASSUME NEW r \in R, NEW s \in R, r.id = s.id PROVE r = s
  <2>1. PICK i \in Valid(c) : r = rule(i) BY <1>6
  <2>2. PICK j \in Valid(c) : s = rule(j) BY <1>6
  <2>3. id(i) = id(j) BY <1>9, <2>1, <2>2
  <2>4. id(i) \in Int /\ id(j) \in Int BY <1>4
  <2>5. ~(i < j) BY <1>5, <2>3, <2>4
  <2>6. ~(j < i) BY <1>5, <2>3, <2>4
  <2>7. i = j BY <1>2, <2>5, <2>6
  <2> QED BY <2>1, <2>2, <2>7
<1>10. ASSUME NEW r \in R PROVE r.id < 1 + Cardinality(Valid(c))
  <2>1. PICK i \in Valid(c) : r = rule(i) BY <1>6
  <2>2. r.id = id(i) BY <2>1
  <2> QED BY <1>2, <1>4, <2>2
<1>11. [r \in R |-> 1] \in [R -> {1}] OBVIOUS
<1>12. Valid(c) = {} => R = {} BY <1>6
<1>13. Loaded(c, 1) \in Singles BY <1>7, <1>8, <1>11 DEF Singles
<1>14. DOMAIN Loaded(c, 1) = R BY <1>8
<1>15. Cardinality(Valid(c)) \in 0..MaxId BY <1>1, <1>2
<1> HIDE DEF rule, id
<1> QED BY <1>9, <1>10, <1>12, <1>13, <1>14, <1>15

-----------------------------------------------------------------------------
(* Rules change hands.                                                       *)
LEMMA KnownAreRules ==
  ASSUME WafTyped
  PROVE  /\ Known \subseteq Rule
         /\ \A n \in Node, t \in Thread : Carried(task[n][t]) \subseteq Rule
         /\ \A n \in Node : Events(n) \subseteq Event /\ DOMAIN rules[n] \subseteq Rule
<1>1. ASSUME NEW n \in Node PROVE DOMAIN rules[n] \subseteq Rule
  <2>1. PICK S \in SUBSET Rule : rules[n] \in [S -> {1}] BY DEF WafTyped, Singles
  <2> QED BY <2>1
<1>2. ASSUME NEW n \in Node, NEW t \in Thread PROVE Carried(task[n][t]) \subseteq Rule
  <2>1. task[n][t] \in Doing BY DEF WafTyped
  <2>2. PICK k : k = task[n][t] OBVIOUS
  <2>3. CASE k.pc \in {"apply", "bump"}
    <3>1. k.id \in Id /\ k.pattern \in Pattern BY <2>1, <2>2, <2>3 DEF Doing
    <3>2. RuleOf(k) \in Rule BY <3>1 DEF RuleOf, Rule
    <3> QED BY <2>2, <2>3, <3>2 DEF Carried
  <2>4. CASE k.pc = "reload"
    <3>1. k.compiled \in Singles BY <2>1, <2>2, <2>4 DEF Doing
    <3>2. PICK S \in SUBSET Rule : k.compiled \in [S -> {1}] BY <3>1 DEF Singles
    <3>3. DOMAIN k.compiled \subseteq Rule BY <3>2
    <3> QED BY <2>2, <2>4, <3>3 DEF Carried
  <2>5. CASE k.pc \notin {"apply", "bump", "reload"} BY <2>2, <2>5 DEF Carried
  <2> QED BY <2>3, <2>4, <2>5
<1>3. ASSUME NEW n \in Node PROVE Events(n) \subseteq Event
  <2>1. chan[n] \in Seq(Event) /\ DOMAIN outbox[n] \subseteq Event BY DEF WafTyped
  <2>2. \A i \in DOMAIN chan[n] : chan[n][i] \in Event BY <2>1
  <2> QED BY <2>1, <2>2 DEF Events
<1>4. ASSUME NEW n \in Node PROVE Told(n) \subseteq Rule
  <2>1. ASSUME NEW e \in Event, e.kind = "added" PROVE RuleOf(e) \in Rule
    BY <2>1 DEF Event, RuleOf, Rule
  <2> QED BY <1>3, <2>1 DEF Told
<1>5. Shared \subseteq Rule BY <1>1, <1>4 DEF Shared
<1>6. InHands \subseteq Rule BY <1>2 DEF InHands
<1> QED BY <1>1, <1>2, <1>3, <1>5, <1>6 DEF Known

\* What is installed or told after a step was so before, or is in X.
LEMMA SharedAfter ==
  ASSUME NEW X, \A n \in Node : DOMAIN rules'[n] \subseteq Shared \cup X,
         \A n \in Node : \A e \in Events(n)' :
           e.kind = "added" => (\E m \in Node : e \in Events(m)) \/ RuleOf(e) \in X
  PROVE  Shared' \subseteq Shared \cup X
<1>1. ASSUME NEW n \in Node, NEW r \in Told(n)' PROVE r \in Shared \cup X
  <2>1. PICK e \in Events(n)' : e.kind = "added" /\ r = RuleOf(e) BY DEF Told
  <2>2. CASE RuleOf(e) \in X BY <2>1, <2>2
  <2>3. CASE \E m \in Node : e \in Events(m)
    <3>1. PICK m \in Node : e \in Events(m) BY <2>3
    <3>2. r \in Told(m) BY <2>1, <3>1 DEF Told
    <3> QED BY <3>2 DEF Shared
  <2> QED BY <2>1, <2>2, <2>3
<1>2. ASSUME NEW r \in Shared' PROVE r \in Shared \cup X
  <2>1. PICK n \in Node : r \in DOMAIN rules'[n] \cup Told(n)' BY DEF Shared
  <2> QED BY <1>1, <2>1
<1> QED BY <1>2

\* A thread's step installs or tells what the thread had in hand, and takes up what
\* was known, or what it drew.
LEMMA RulesMove ==
  ASSUME NEW w \in Node, WafConstants(w), WafInv(w), WafTyped',
         NEW m \in Node, NEW u \in Thread, NEW N,
         \A n \in Node, t \in Thread :
           <<n, t>> # <<m, u>> => task'[n][t] = task[n][t] \/ task'[n][t] = Idle,
         Shared' \subseteq Shared \cup Carried(task[m][u]),
         Carried(task'[m][u]) \subseteq Shared \cup Carried(task[m][u]) \cup N,
         next'[w] >= next[w],
         \A r \in N : r.id = next[w] /\ next'[w] > next[w],
         \A r, s \in N : r = s,
         m = w /\ u \in Worker /\ task'[w][u].pc = "apply" =>
           Carried(task[w][u]) = {} /\ task'[w][u].id = next[w] /\ next'[w] > next[w]
  PROVE  OneRuleAnId(w)' /\ PendingIsFree(w)'
<1>0. WafTyped /\ OneRuleAnId(w) /\ PendingIsFree(w) BY DEF WafInv
<1>1. Known \subseteq Rule /\ (\A r \in Rule : r.id \in Int) /\ next[w] \in Int /\ next'[w] \in Int
  <2>1. Known \subseteq Rule BY <1>0, KnownAreRules
  <2>2. MaxId \in Nat BY DEF WafConstants
  <2>3. \A r \in Rule : r.id \in Int BY <2>2 DEF Rule, Id
  <2>4. next[w] \in 1..MaxId + 1 /\ next'[w] \in 1..MaxId + 1 BY <1>0 DEF WafTyped
  <2> QED BY <2>1, <2>2, <2>3, <2>4
<1>2. Carried(Idle) = {} BY DEF Carried, Idle
<1>3. ASSUME NEW n \in Node, NEW t \in Thread PROVE Carried(task[n][t]) \subseteq Known
  BY DEF Known, InHands
<1>4. ASSUME NEW n \in Node, NEW t \in Thread PROVE Carried(task'[n][t]) \subseteq Known \cup N
  <2>1. CASE <<n, t>> = <<m, u>> BY <1>3, <2>1 DEF Known
  <2>2. CASE <<n, t>> # <<m, u>>
    <3>1. Carried(task'[n][t]) \subseteq Carried(task[n][t]) BY <1>2, <2>2
    <3> QED BY <1>3, <3>1
  <2> QED BY <2>1, <2>2
<1>5. Shared' \subseteq Known BY <1>3 DEF Known
<1>6. Known' \subseteq Known \cup N
  <2>1. InHands' \subseteq Known \cup N BY <1>4 DEF InHands
  <2> QED BY <1>5, <2>1 DEF Known
<1>7. \A r \in Known : r.id \in Int /\ r.id < next[w] BY <1>0, <1>1 DEF OneRuleAnId
<1>8. \A r, s \in Known : r.id = s.id => r = s BY <1>0 DEF OneRuleAnId
<1>9. \A r \in Known \cup N : r.id \in Int /\ r.id < next'[w] BY <1>1, <1>7
<1>10. ASSUME NEW r \in Known \cup N, NEW s \in Known \cup N, r.id = s.id PROVE r = s
  <2>1. CASE r \in Known /\ s \in Known BY <1>8, <1>10, <2>1
  <2>2. CASE r \in N /\ s \in N BY <2>2
  <2>3. CASE r \in N /\ s \in Known BY <1>7, <1>10, <2>3
  <2>4. CASE r \in Known /\ s \in N BY <1>7, <1>10, <2>4
  <2> QED BY <2>1, <2>2, <2>3, <2>4
<1>11. OneRuleAnId(w)' BY <1>6, <1>9, <1>10 DEF OneRuleAnId
<1>12. ASSUME NEW v \in Worker, task'[w][v].pc = "apply",
              NEW r \in Shared' \cup ElsewhereInHands(w, v)'
       PROVE  r.id # task'[w][v].id
  <2>0. v \in Thread BY DEF Thread
  <2>1. r \in Shared' \/ \E n \in Node, t \in Thread : <<n, t>> # <<w, v>> /\ r \in Carried(task'[n][t])
    BY <1>12 DEF ElsewhereInHands
  <2>2. CASE m = w /\ u = v
    <3>1. task'[w][v].id = next[w] BY <1>12, <2>2
    <3>2. ASSUME NEW n \in Node, NEW t \in Thread, <<n, t>> # <<w, v>>, r \in Carried(task'[n][t])
          PROVE  r \in Known
      <4>1. Carried(task'[n][t]) \subseteq Carried(task[n][t]) BY <1>2, <2>2, <3>2
      <4> QED BY <1>3, <3>2, <4>1
    <3>3. r \in Known BY <1>5, <2>1, <3>2
    <3> QED BY <1>7, <3>1, <3>3, <1>1
  <2>3. CASE ~(m = w /\ u = v)
    <3>1. <<w, v>> # <<m, u>> BY <2>3
    <3>2. task'[w][v] = task[w][v] BY <1>12, <2>0, <3>1 DEF Idle
    <3>3. Carried(task[w][v]) = {RuleOf(task[w][v])} BY <1>12, <3>2 DEF Carried
    <3>4. RuleOf(task[w][v]) \in Known /\ RuleOf(task[w][v]).id = task[w][v].id
      BY <1>3, <2>0, <3>3 DEF RuleOf
    <3>5. task[w][v].id \in Int /\ task[w][v].id < next[w] BY <1>7, <3>4
    <3>6. \A s \in Shared \cup ElsewhereInHands(w, v) : s.id # task[w][v].id
      BY <1>0, <1>12, <3>2 DEF PendingIsFree
    <3>7. \A n \in Node, t \in Thread : <<n, t>> # <<w, v>> =>
            Carried(task[n][t]) \subseteq ElsewhereInHands(w, v)
      <4>1. ASSUME NEW n \in Node, NEW t \in Thread, <<n, t>> # <<w, v>>
            PROVE  Carried(task[n][t]) \subseteq ElsewhereInHands(w, v)
        <5>1. PICK p : p = <<n, t>> OBVIOUS
        <5>2. p \in (Node \X Thread) \ {<<w, v>>} /\ p[1] = n /\ p[2] = t BY <4>1, <5>1
        <5>3. Carried(task[p[1]][p[2]]) \subseteq ElsewhereInHands(w, v) BY <5>2 DEF ElsewhereInHands
        <5> QED BY <5>2, <5>3
      <4> QED BY <4>1
    <3>8. Carried(task[m][u]) \subseteq ElsewhereInHands(w, v) BY <3>1, <3>7
    <3>9. ASSUME NEW n \in Node, NEW t \in Thread, <<n, t>> # <<w, v>>, r \in Carried(task'[n][t])
          PROVE  r \in Shared \cup ElsewhereInHands(w, v) \cup N
      <4>1. CASE <<n, t>> = <<m, u>> BY <3>8, <3>9, <4>1
      <4>2. CASE <<n, t>> # <<m, u>>
        <5>1. Carried(task'[n][t]) \subseteq Carried(task[n][t]) BY <1>2, <4>2
        <5> QED BY <3>7, <3>9, <5>1
      <4> QED BY <4>1, <4>2
    <3>10. r \in Shared \cup ElsewhereInHands(w, v) \cup N BY <2>1, <3>8, <3>9
    <3>11. CASE r \in N BY <1>1, <3>2, <3>5, <3>11
    <3> QED BY <3>2, <3>6, <3>10, <3>11
  <2> QED BY <2>2, <2>3
<1>13. PendingIsFree(w)' BY <1>12 DEF PendingIsFree
<1> QED BY <1>11, <1>13

-----------------------------------------------------------------------------
(* The steps.                                                                *)
LEMMA GotoDoes ==
  ASSUME WafTyped, NEW n \in Node, NEW t \in Thread, NEW new \in Doing, Goto(n, t, new)
  PROVE  /\ task' \in [Node -> [Thread -> Doing]] /\ task'[n][t] = new
         /\ \A m \in Node, u \in Thread : <<m, u>> # <<n, t>> => task'[m][u] = task[m][u]
<1>1. task \in [Node -> [Thread -> Doing]] BY DEF WafTyped
<1>2. task' = [task EXCEPT ![n] = [task[n] EXCEPT ![t] = new]] BY <1>1 DEF Goto
<1>3. [task[n] EXCEPT ![t] = new] \in [Thread -> Doing] BY <1>1
<1>4. task' \in [Node -> [Thread -> Doing]] /\ task'[n] = [task[n] EXCEPT ![t] = new]
      /\ \A m \in Node : m # n => task'[m] = task[m]
  BY <1>1, <1>2, <1>3
<1>5. task'[n][t] = new /\ \A u \in Thread : u # t => task'[n][u] = task[n][u] BY <1>1, <1>4
<1> QED BY <1>4, <1>5

LEMMA IdleIsDoing == Idle \in Doing
BY DEF Idle, Doing

LEMMA ReturnDoes ==
  ASSUME WafTyped, NEW n \in Node, NEW t \in Thread, NEW k, RuleOf(k) \in Rule, Return(n, t, k)
  PROVE  /\ task' \in [Node -> [Thread -> Doing]] /\ task'[n][t] = Idle
         /\ \A m \in Node, u \in Thread : <<m, u>> # <<n, t>> => task'[m][u] = task[m][u]
         /\ DOMAIN outbox' = Node /\ \A m \in Node : DOMAIN outbox'[m] \subseteq Event
         /\ \A m \in Node : \A e \in DOMAIN outbox'[m] :
              e \in DOMAIN outbox[m] \/ RuleOf(e) = RuleOf(k)
<1>1. Goto(n, t, Idle) BY DEF Return
<1>2. CASE t \notin Worker
  <2>1. outbox' = outbox BY <1>2 DEF Return
  <2> QED BY <1>1, <2>1, GotoDoes, IdleIsDoing DEF WafTyped
<1>3. CASE t \in Worker
  <2>1. PICK e : e = [kind |-> "added", id |-> k.id, pattern |-> k.pattern] OBVIOUS
  <2>2. e \in Event /\ RuleOf(e) = RuleOf(k)
    BY <2>1 DEF Event, RuleOf, Rule
  <2>3. outbox' = [outbox EXCEPT ![n] = outbox[n] (+) SetToBag({e})]
    BY <1>3, <2>1 DEF Return, Announce
  <2>4. PICK b : b = outbox[n] (+) SetToBag({e}) OBVIOUS
  <2>5. DOMAIN b = DOMAIN outbox[n] \cup {e} BY <2>4, BagAdded
  <2>6. DOMAIN outbox = Node BY DEF WafTyped
  <2>7. DOMAIN outbox' = Node /\ outbox'[n] = b /\ \A m \in Node : m # n => outbox'[m] = outbox[m]
    BY <2>3, <2>4, <2>6
  <2>8. \A m \in Node : DOMAIN outbox'[m] \subseteq DOMAIN outbox[m] \cup {e} BY <2>5, <2>7
  <2>9. \A m \in Node : DOMAIN outbox[m] \subseteq Event BY DEF WafTyped
  <2> QED BY <1>1, <2>2, <2>7, <2>8, <2>9, GotoDoes, IdleIsDoing
<1> QED BY <1>2, <1>3

\* What the bus carries after a step that keeps the channels.
LEMMA EventsAfter ==
  ASSUME NEW X, UNCHANGED chan,
         \A m \in Node : \A e \in DOMAIN outbox'[m] :
           e.kind = "added" => e \in DOMAIN outbox[m] \/ RuleOf(e) \in X
  PROVE  \A n \in Node : \A e \in Events(n)' :
           e.kind = "added" => (\E m \in Node : e \in Events(m)) \/ RuleOf(e) \in X
BY DEF Events

LEMMA InvParts ==
  ASSUME NEW w, WafInv(w)
  PROVE  WafTyped /\ OneRuleAnId(w) /\ PendingIsFree(w) /\ OthersListen(w)
BY DEF WafInv

\* RulesMove for a thread that draws nothing.
LEMMA NothingDrawn ==
  ASSUME NEW w \in Node, WafConstants(w), WafInv(w), WafTyped', NEW m \in Node, NEW u \in Thread,
         \A n \in Node, t \in Thread : <<n, t>> # <<m, u>> => task'[n][t] = task[n][t],
         Shared' \subseteq Shared \cup Carried(task[m][u]),
         Carried(task'[m][u]) \subseteq Shared \cup Carried(task[m][u]),
         next'[w] >= next[w], u \in Worker => task'[m][u].pc # "apply"
  PROVE  OneRuleAnId(w)' /\ PendingIsFree(w)'
<1> DEFINE N == {}
<1>1. /\ \A r \in N : r.id = next[w] /\ next'[w] > next[w]
      /\ \A r, s \in N : r = s
      /\ Carried(task'[m][u]) \subseteq Shared \cup Carried(task[m][u]) \cup N
  OBVIOUS
<1>2. \A n \in Node, t \in Thread :
         <<n, t>> # <<m, u>> => task'[n][t] = task[n][t] \/ task'[n][t] = Idle
  OBVIOUS
<1>3. m = w /\ u \in Worker /\ task'[w][u].pc = "apply" =>
        Carried(task[w][u]) = {} /\ task'[w][u].id = next[w] /\ next'[w] > next[w]
  OBVIOUS
<1> HIDE DEF N
<1> QED BY <1>1, <1>2, <1>3, RulesMove

LEMMA AddTakeInv ==
  ASSUME NEW w \in Node, WafConstants(w), WafInv(w), NEW n \in Node, NEW v \in Worker,
         NEW p \in Pattern, AddTake(n, v, p)
  PROVE  WafInv(w)'
<1>0. WafTyped /\ OneRuleAnId(w) /\ PendingIsFree(w) /\ OthersListen(w) /\ v \in Thread /\ v # Sync
  BY InvParts DEF Thread, WafConstants
<1>1. n = w BY DEF AddTake, WafConstants, OneWriter
<1>2. /\ MaxId \in Nat /\ next[w] \in 1..MaxId /\ next'[w] = next[w] + 1 /\ next' \in [Node -> 1..MaxId + 1]
      /\ task[w][v].pc = "idle"
  BY <1>0, <1>1 DEF AddTake, WafTyped, WafConstants, At
<1>3. UNCHANGED <<rules, holder, reloads, restarts, outbox, chan>> BY DEF AddTake
<1>4. PICK k : k = [pc |-> "apply", id |-> next[w], pattern |-> p] OBVIOUS
<1>5. k \in Doing /\ k.pc = "apply" /\ k.id = next[w] /\ RuleOf(k).id = next[w]
      /\ Carried(k) = {RuleOf(k)}
  BY <1>2, <1>4 DEF Doing, Id, RuleOf, Carried
<1>6. Carried(task[w][v]) = {} BY <1>2 DEF Carried
<1>7. /\ task' \in [Node -> [Thread -> Doing]]
      /\ task' = task \/ task'[w][v] = k
      /\ \A m \in Node, u \in Thread : <<m, u>> # <<w, v>> => task'[m][u] = task[m][u]
  <2>1. CASE p \in Invalid BY <1>0, <2>1 DEF AddTake, WafTyped
  <2>2. CASE p \notin Invalid
    <3>1. Goto(w, v, k) BY <1>1, <1>4, <2>2 DEF AddTake
    <3> QED BY <1>0, <1>5, <3>1, GotoDoes
  <2> QED BY <2>1, <2>2
<1>8. WafTyped' BY <1>0, <1>2, <1>3, <1>7 DEF WafTyped
<1>9. OthersListen(w)'
  <2>1. \A u \in Thread : task'[w][u].pc # "bump"
    <3>1. \A u \in Thread : task[w][u].pc # "bump" BY <1>0 DEF OthersListen
    <3>2. task'[w][v].pc # "bump" BY <1>0, <1>5, <1>7, <3>1
    <3>3. \A u \in Thread : u # v => task'[w][u] = task[w][u] BY <1>7
    <3> QED BY <3>1, <3>2, <3>3
  <2>2. \A m \in Node \ {w} : \A u \in Thread : task'[m][u] = task[m][u] BY <1>7
  <2> QED BY <1>0, <2>1, <2>2 DEF OthersListen, Thread
<1>10. Shared' \subseteq Shared \cup Carried(task[w][v]) BY <1>3 DEF Shared, Told, Events
<1>11. Carried(task'[w][v]) \subseteq {RuleOf(k)} BY <1>5, <1>6, <1>7
<1>12. next'[w] > next[w] /\ next'[w] >= next[w] BY <1>2
<1>13. task'[w][v].pc = "apply" => task'[w][v].id = next[w] BY <1>2, <1>5, <1>7
<1>14. PICK N : N = {RuleOf(k)} OBVIOUS
<1>15. /\ \A r \in N : r.id = next[w] /\ next'[w] > next[w]
       /\ \A r, s \in N : r = s
       /\ Carried(task'[w][v]) \subseteq Shared \cup Carried(task[w][v]) \cup N
  BY <1>5, <1>11, <1>12, <1>14
<1>16. \A m \in Node, u \in Thread :
         <<m, u>> # <<w, v>> => task'[m][u] = task[m][u] \/ task'[m][u] = Idle
  BY <1>7
<1>17. OneRuleAnId(w)' /\ PendingIsFree(w)'
  BY <1>0, <1>6, <1>8, <1>10, <1>12, <1>13, <1>15, <1>16, RulesMove
<1> QED BY <1>8, <1>9, <1>17 DEF WafInv

LEMMA ApplySkipInv ==
  ASSUME NEW w \in Node, WafConstants(w), WafInv(w), NEW n \in Node,
         NEW t \in Worker \cup {Subscriber}, ApplySkip(n, t)
  PROVE  WafInv(w)'
<1>0. WafTyped /\ OneRuleAnId(w) /\ PendingIsFree(w) /\ OthersListen(w) /\ t \in Thread
  BY InvParts DEF Thread
<1>1. PICK k : k = task[n][t] OBVIOUS
<1>2. k.pc = "apply" /\ Return(n, t, k) /\ UNCHANGED <<rules, next, holder, reloads, restarts, chan>>
  BY <1>1 DEF ApplySkip, At
<1>3. Carried(k) = {RuleOf(k)} BY <1>2 DEF Carried
<1>4. RuleOf(k) \in Rule BY <1>0, <1>1, <1>3, KnownAreRules
<1>5. /\ task' \in [Node -> [Thread -> Doing]] /\ task'[n][t] = Idle
      /\ \A m \in Node, u \in Thread : <<m, u>> # <<n, t>> => task'[m][u] = task[m][u]
      /\ DOMAIN outbox' = Node /\ \A m \in Node : DOMAIN outbox'[m] \subseteq Event
      /\ \A m \in Node : \A e \in DOMAIN outbox'[m] : e \in DOMAIN outbox[m] \/ RuleOf(e) = RuleOf(k)
  BY <1>0, <1>2, <1>4, ReturnDoes
<1>6. WafTyped' BY <1>0, <1>2, <1>5 DEF WafTyped
<1>7. OthersListen(w)' BY <1>0, <1>2, <1>5 DEF OthersListen, Idle, Thread
<1>8. Shared' \subseteq Shared \cup Carried(task[n][t])
  <2>1. \A m \in Node : DOMAIN rules'[m] \subseteq Shared \cup Carried(task[n][t]) BY <1>2 DEF Shared
  <2>2. \A m \in Node : \A e \in DOMAIN outbox'[m] : e \in DOMAIN outbox[m] \/ RuleOf(e) \in Carried(task[n][t])
    BY <1>1, <1>3, <1>5
  <2>3. UNCHANGED chan BY <1>2
  <2> QED BY <2>1, <2>2, <2>3, EventsAfter, SharedAfter
<1>9. Carried(task'[n][t]) \subseteq {} /\ task'[n][t].pc # "apply" BY <1>5 DEF Carried, Idle
<1>10. next'[w] >= next[w] BY <1>0, <1>2 DEF WafTyped, WafConstants
<1>11. OneRuleAnId(w)' /\ PendingIsFree(w)'
  BY <1>0, <1>5, <1>6, <1>8, <1>9, <1>10, NothingDrawn
<1> QED BY <1>6, <1>7, <1>11 DEF WafInv

LEMMA ApplyPushInv ==
  ASSUME NEW w \in Node, WafConstants(w), WafInv(w), NEW n \in Node,
         NEW t \in Worker \cup {Subscriber}, ApplyPush(n, t)
  PROVE  WafInv(w)'
<1>0. WafTyped /\ OneRuleAnId(w) /\ PendingIsFree(w) /\ OthersListen(w) /\ t \in Thread
  BY InvParts DEF Thread
<1>1. PICK k : k = task[n][t] OBVIOUS
<1>2. PICK r : r = RuleOf(k) OBVIOUS
<1>3. /\ k.pc = "apply" /\ r.id \notin IdsOf(rules[n]) /\ r.id = k.id
      /\ rules' = [rules EXCEPT ![n] = rules[n] (+) SetToBag({r})]
      /\ UNCHANGED <<next, reloads, restarts, chan>>
      /\ \/ /\ k.id >= next[n] /\ holder' = [holder EXCEPT ![n] = t]
            /\ Goto(n, t, [k EXCEPT !.pc = "bump"]) /\ UNCHANGED outbox
         \/ Return(n, t, k) /\ UNCHANGED holder
  BY <1>1, <1>2 DEF ApplyPush, At, Present, RuleOf
<1>4. Carried(k) = {r} /\ r \in Rule /\ k \in Doing
  <2>1. Carried(k) = {r} BY <1>2, <1>3 DEF Carried
  <2>2. r \in Rule BY <1>0, <1>1, <2>1, KnownAreRules
  <2>3. k \in Doing BY <1>0, <1>1 DEF WafTyped
  <2> QED BY <2>1, <2>2, <2>3
<1>5. PICK b : b = rules[n] (+) SetToBag({r}) OBVIOUS
<1>6. b \in Singles /\ DOMAIN b = DOMAIN rules[n] \cup {r}
  <2>1. rules[n] \in Singles BY <1>0 DEF WafTyped
  <2>2. r \notin DOMAIN rules[n] BY <1>3 DEF IdsOf, BagToSet
  <2> QED BY <1>4, <1>5, <2>1, <2>2, SingleAdded
<1>7. rules' \in [Node -> Singles] /\ \A m \in Node : DOMAIN rules'[m] \subseteq DOMAIN rules[m] \cup {r}
  BY <1>0, <1>3, <1>5, <1>6 DEF WafTyped
<1>8. n # w \/ k.id < next[n]
  <2>1. r \in Known BY <1>0, <1>1, <1>4 DEF Known, InHands
  <2>2. r.id < next[w] BY <1>0, <2>1 DEF OneRuleAnId
  <2> QED BY <1>3, <2>2
<1>9. /\ task' \in [Node -> [Thread -> Doing]] /\ holder' \in [Node -> Worker \cup {Subscriber, None}]
      /\ \A m \in Node, u \in Thread : <<m, u>> # <<n, t>> => task'[m][u] = task[m][u]
      /\ DOMAIN outbox' = Node /\ \A m \in Node : DOMAIN outbox'[m] \subseteq Event
      /\ \A m \in Node : \A e \in DOMAIN outbox'[m] : e \in DOMAIN outbox[m] \/ RuleOf(e) = r
      /\ task'[n][t].pc \in {"idle", "bump"} /\ Carried(task'[n][t]) \subseteq {r}
      /\ n = w => task'[n][t].pc = "idle"
  <2>1. CASE Return(n, t, k) /\ UNCHANGED holder
    <3>1. /\ task' \in [Node -> [Thread -> Doing]] /\ task'[n][t] = Idle
          /\ \A m \in Node, u \in Thread : <<m, u>> # <<n, t>> => task'[m][u] = task[m][u]
          /\ DOMAIN outbox' = Node /\ \A m \in Node : DOMAIN outbox'[m] \subseteq Event
          /\ \A m \in Node : \A e \in DOMAIN outbox'[m] : e \in DOMAIN outbox[m] \/ RuleOf(e) = r
      BY <1>0, <1>2, <1>4, <2>1, ReturnDoes
    <3>2. Idle.pc = "idle" /\ Carried(Idle) = {} BY DEF Idle, Carried
    <3> QED BY <1>0, <2>1, <3>1, <3>2 DEF WafTyped
  <2>2. CASE /\ k.id >= next[n] /\ holder' = [holder EXCEPT ![n] = t]
             /\ Goto(n, t, [k EXCEPT !.pc = "bump"]) /\ UNCHANGED outbox
    <3>1. PICK j : j = [k EXCEPT !.pc = "bump"] OBVIOUS
    <3>2. j \in Doing /\ j.pc = "bump" /\ RuleOf(j) = r /\ Carried(j) = {r}
      BY <1>2, <1>3, <1>4, <3>1 DEF Doing, RuleOf, Carried
    <3>3. /\ task' \in [Node -> [Thread -> Doing]] /\ task'[n][t] = j
          /\ \A m \in Node, u \in Thread : <<m, u>> # <<n, t>> => task'[m][u] = task[m][u]
      BY <1>0, <2>2, <3>1, <3>2, GotoDoes
    <3>4. n # w
      <4>1. n = w => k.id \in Int /\ next[w] \in Int
        BY <1>0, <1>3, <1>4 DEF WafTyped, Rule, Id, WafConstants
      <4> QED BY <1>8, <2>2, <4>1
    <3>5. DOMAIN outbox' = Node /\ \A m \in Node : DOMAIN outbox'[m] \subseteq Event
      BY <1>0, <2>2 DEF WafTyped
    <3>6. holder' \in [Node -> Worker \cup {Subscriber, None}] BY <1>0, <2>2 DEF WafTyped
    <3> QED BY <2>2, <3>2, <3>3, <3>4, <3>5, <3>6
  <2> QED BY <1>3, <2>1, <2>2
<1>10. WafTyped' BY <1>0, <1>3, <1>7, <1>9 DEF WafTyped
<1>11. OthersListen(w)'
  <2>1. \A u \in Thread : task'[w][u].pc # "bump"
    <3>1. \A u \in Thread : task[w][u].pc # "bump" BY <1>0 DEF OthersListen
    <3> QED BY <1>0, <1>9, <3>1
  <2>2. ASSUME NEW m \in Node \ {w}, NEW v \in Worker PROVE task'[m][v].pc = "idle"
    <3>1. task[m][v].pc = "idle" /\ v \in Thread BY <1>0 DEF OthersListen, Thread
    <3> QED BY <1>1, <1>3, <1>9, <3>1
  <2>3. ASSUME NEW m \in Node \ {w}, task'[m][Sync].pc = "reload" PROVE task'[m][Sync].todo \in Seq(Invalid)
    <3>1. <<m, Sync>> # <<n, t>> /\ Sync \in Thread BY DEF Thread, WafConstants
    <3>2. task'[m][Sync] = task[m][Sync] BY <1>9, <3>1
    <3> QED BY <1>0, <2>3, <3>2 DEF OthersListen
  <2> QED BY <2>1, <2>2, <2>3 DEF OthersListen
<1>12. Shared' \subseteq Shared \cup Carried(task[n][t])
  <2>1. \A m \in Node : DOMAIN rules'[m] \subseteq Shared \cup Carried(task[n][t])
    BY <1>1, <1>4, <1>7 DEF Shared
  <2>2. \A m \in Node : \A e \in DOMAIN outbox'[m] :
          e.kind = "added" => e \in DOMAIN outbox[m] \/ RuleOf(e) \in Carried(task[n][t])
    BY <1>1, <1>4, <1>9
  <2>3. UNCHANGED chan BY <1>3
  <2> QED BY <2>1, <2>2, <2>3, EventsAfter, SharedAfter
<1>13. Carried(task'[n][t]) \subseteq Shared \cup Carried(task[n][t]) /\ task'[n][t].pc # "apply"
  BY <1>1, <1>4, <1>9
<1>14. next'[w] >= next[w] BY <1>0, <1>3 DEF WafTyped, WafConstants
<1>15. OneRuleAnId(w)' /\ PendingIsFree(w)'
  BY <1>0, <1>9, <1>10, <1>12, <1>13, <1>14, NothingDrawn
<1> QED BY <1>10, <1>11, <1>15 DEF WafInv

LEMMA BumpInv ==
  ASSUME NEW w \in Node, WafConstants(w), WafInv(w), NEW n \in Node,
         NEW t \in Worker \cup {Subscriber}, Bump(n, t)
  PROVE  WafInv(w)'
<1>0. WafTyped /\ OneRuleAnId(w) /\ PendingIsFree(w) /\ OthersListen(w) /\ t \in Thread
  BY InvParts DEF Thread
<1>1. PICK k : k = task[n][t] OBVIOUS
<1>2. /\ k.pc = "bump" /\ next' = [next EXCEPT ![n] = k.id + 1] /\ holder' = [holder EXCEPT ![n] = None]
      /\ Return(n, t, k) /\ UNCHANGED <<rules, reloads, restarts, chan>>
  BY <1>1 DEF Bump, At, After
<1>3. n # w BY <1>0, <1>1, <1>2 DEF OthersListen
<1>4. Carried(k) = {RuleOf(k)} BY <1>2 DEF Carried
<1>5. RuleOf(k) \in Rule BY <1>0, <1>1, <1>4, KnownAreRules
<1>6. k.id \in 1..MaxId /\ MaxId \in Nat BY <1>5 DEF RuleOf, Rule, Id, WafConstants
<1>7. next' \in [Node -> 1..MaxId + 1] /\ next'[w] = next[w] BY <1>0, <1>2, <1>3, <1>6 DEF WafTyped
<1>8. /\ task' \in [Node -> [Thread -> Doing]] /\ task'[n][t] = Idle
      /\ \A m \in Node, u \in Thread : <<m, u>> # <<n, t>> => task'[m][u] = task[m][u]
      /\ DOMAIN outbox' = Node /\ \A m \in Node : DOMAIN outbox'[m] \subseteq Event
      /\ \A m \in Node : \A e \in DOMAIN outbox'[m] : e \in DOMAIN outbox[m] \/ RuleOf(e) = RuleOf(k)
  BY <1>0, <1>2, <1>5, ReturnDoes
<1>9. WafTyped' BY <1>0, <1>2, <1>7, <1>8 DEF WafTyped
<1>10. OthersListen(w)' BY <1>0, <1>2, <1>8 DEF OthersListen, Idle, Thread
<1>11. Shared' \subseteq Shared \cup Carried(task[n][t])
  <2>1. \A m \in Node : DOMAIN rules'[m] \subseteq Shared \cup Carried(task[n][t]) BY <1>2 DEF Shared
  <2>2. \A m \in Node : \A e \in DOMAIN outbox'[m] :
          e.kind = "added" => e \in DOMAIN outbox[m] \/ RuleOf(e) \in Carried(task[n][t])
    BY <1>1, <1>4, <1>8
  <2>3. UNCHANGED chan BY <1>2
  <2> QED BY <2>1, <2>2, <2>3, EventsAfter, SharedAfter
<1>12. Carried(task'[n][t]) \subseteq {} /\ task'[n][t].pc # "apply" BY <1>8 DEF Carried, Idle
<1>13. next'[w] >= next[w] BY <1>0, <1>6, <1>7 DEF WafTyped
<1>14. OneRuleAnId(w)' /\ PendingIsFree(w)'
  BY <1>0, <1>8, <1>9, <1>11, <1>12, <1>13, NothingDrawn
<1> QED BY <1>9, <1>10, <1>14 DEF WafInv

\* A step that leaves the threads alone.
LEMMA ThreadsRest ==
  ASSUME NEW w \in Node, WafConstants(w), WafInv(w), WafTyped', UNCHANGED <<task, next>>,
         Shared' \subseteq Shared
  PROVE  WafInv(w)'
<1>0. WafTyped /\ OneRuleAnId(w) /\ PendingIsFree(w) /\ OthersListen(w) BY InvParts
<1>1. Subscriber \in Thread /\ Subscriber \notin Worker BY DEF Thread, WafConstants
<1>2. next'[w] >= next[w] BY <1>0 DEF WafTyped, WafConstants
<1>3. OneRuleAnId(w)' /\ PendingIsFree(w)' BY <1>0, <1>1, <1>2, NothingDrawn
<1>4. OthersListen(w)' BY <1>0 DEF OthersListen
<1> QED BY <1>3, <1>4 DEF WafInv

LEMMA RemoveInv ==
  ASSUME NEW w \in Node, WafConstants(w), WafInv(w), NEW n \in Node, NEW v \in Worker, NEW id \in Id,
         Remove(n, v, id)
  PROVE  WafInv(w)'
<1>0. WafTyped BY InvParts
<1>1. PICK e : e = [kind |-> "removed", id |-> id] OBVIOUS
<1>2. e \in Event /\ e.kind = "removed" BY <1>1 DEF Event
<1>3. /\ rules' = [rules EXCEPT ![n] = Without(rules[n], id)]
      /\ outbox' = [outbox EXCEPT ![n] = outbox[n] (+) SetToBag({e})]
      /\ UNCHANGED <<next, holder, task, reloads, restarts, chan>>
  BY <1>1 DEF Remove, Announce
<1>4. PICK c : c = outbox[n] (+) SetToBag({e}) OBVIOUS
<1>5. DOMAIN c = DOMAIN outbox[n] \cup {e} BY <1>4, BagAdded
<1>6. DOMAIN outbox = Node /\ \A m \in Node : DOMAIN outbox[m] \subseteq Event BY <1>0 DEF WafTyped
<1>7. DOMAIN outbox' = Node /\ \A m \in Node : DOMAIN outbox'[m] \subseteq DOMAIN outbox[m] \cup {e}
  BY <1>3, <1>4, <1>5, <1>6
<1>8. PICK b : b = Without(rules[n], id) OBVIOUS
<1>9. rules[n] \in Singles BY <1>0 DEF WafTyped
<1>10. b \in Singles /\ DOMAIN b \subseteq DOMAIN rules[n] BY <1>8, <1>9, SinglesLeft
<1>11. rules' \in [Node -> Singles] /\ \A m \in Node : DOMAIN rules'[m] \subseteq DOMAIN rules[m]
  BY <1>0, <1>3, <1>8, <1>10 DEF WafTyped
<1>12. WafTyped' BY <1>0, <1>2, <1>3, <1>6, <1>7, <1>11 DEF WafTyped
<1>13. Shared' \subseteq Shared \cup {}
  <2>1. \A m \in Node : DOMAIN rules'[m] \subseteq Shared \cup {} BY <1>11 DEF Shared
  <2>2. \A m \in Node : \A x \in DOMAIN outbox'[m] :
          x.kind = "added" => x \in DOMAIN outbox[m] \/ RuleOf(x) \in {}
    BY <1>2, <1>7
  <2>3. UNCHANGED chan BY <1>3
  <2> QED BY <2>1, <2>2, <2>3, EventsAfter, SharedAfter
<1> QED BY <1>3, <1>12, <1>13, ThreadsRest

LEMMA SendInv ==
  ASSUME NEW w \in Node, WafConstants(w), WafInv(w), NEW n \in Node, Send(n)
  PROVE  WafInv(w)'
<1>0. WafTyped BY InvParts
<1>1. PICK e \in DOMAIN outbox[n], to \in Receivers :
        /\ outbox' = [outbox EXCEPT ![n] = outbox[n] (-) SetToBag({e})]
        /\ chan' = [m \in Node |-> IF m \in to THEN Append(chan[m], e) ELSE chan[m]]
  BY DEF Send, Publish, BagToSet
<1>2. UNCHANGED <<rules, next, holder, task, reloads, restarts>> BY DEF Send
<1>3. PICK c : c = outbox[n] (-) SetToBag({e}) OBVIOUS
<1>4. DOMAIN c \subseteq DOMAIN outbox[n] BY <1>3, BagTaken
<1>5. /\ DOMAIN outbox = Node /\ \A m \in Node : DOMAIN outbox[m] \subseteq Event
      /\ chan \in [Node -> Seq(Event)]
  BY <1>0 DEF WafTyped
<1>6. DOMAIN outbox' = Node /\ \A m \in Node : DOMAIN outbox'[m] \subseteq DOMAIN outbox[m]
  BY <1>1, <1>3, <1>4, <1>5
<1>7. e \in Event /\ e \in Events(n) BY <1>1, <1>5 DEF Events
<1>8. ASSUME NEW m \in Node
      PROVE  chan'[m] \in Seq(Event) /\ \A i \in DOMAIN chan'[m] :
               chan'[m][i] = e \/ \E j \in DOMAIN chan[m] : chan'[m][i] = chan[m][j]
  <2>1. CASE m \in to
    <3>1. PICK s : s = chan[m] OBVIOUS
    <3>2. s \in Seq(Event) /\ chan'[m] = Append(s, e) BY <1>1, <1>5, <2>1, <3>1
    <3>3. ASSUME NEW i \in DOMAIN Append(s, e)
          PROVE  Append(s, e)[i] = e \/ (i \in DOMAIN s /\ Append(s, e)[i] = s[i])
      BY <1>7, <3>2
    <3> QED BY <1>7, <3>1, <3>2, <3>3
  <2>2. CASE m \notin to BY <1>1, <1>5, <2>2
  <2> QED BY <2>1, <2>2
<1>9. chan' \in [Node -> Seq(Event)] BY <1>1, <1>8
<1>10. WafTyped' BY <1>0, <1>2, <1>5, <1>6, <1>9 DEF WafTyped
<1>11. Shared' \subseteq Shared \cup {}
  <2>1. \A m \in Node : DOMAIN rules'[m] \subseteq Shared \cup {} BY <1>2 DEF Shared
  <2>2. ASSUME NEW m \in Node, NEW x \in Events(m)'
        PROVE  \E l \in Node : x \in Events(l)
    <3>1. x \in DOMAIN outbox'[m] \/ \E i \in DOMAIN chan'[m] : x = chan'[m][i] BY <2>2 DEF Events
    <3>2. x \in Events(m) \/ x = e BY <1>6, <1>8, <3>1 DEF Events
    <3> QED BY <1>7, <3>2
  <2> QED BY <2>1, <2>2, SharedAfter
<1> QED BY <1>2, <1>10, <1>11, ThreadsRest

\* The subscriber's next event is one that the bus carries; the rest stay.
LEMMA DispatchDoes ==
  ASSUME WafTyped, NEW n \in Node, Dispatch(n)
  PROVE  /\ NextEvent(n) \in Event /\ NextEvent(n) \in Events(n) /\ chan' \in [Node -> Seq(Event)]
         /\ UNCHANGED outbox => \A m \in Node : Events(m)' \subseteq Events(m)
<1>1. PICK s : s = chan[n] OBVIOUS
<1>2. s \in Seq(Event) /\ s # <<>> /\ chan \in [Node -> Seq(Event)] BY <1>1 DEF WafTyped, Dispatch
<1>3. Head(s) = s[1] /\ 1 \in DOMAIN s /\ s[1] \in Event /\ Tail(s) \in Seq(Event) BY <1>2
<1>4. \A i \in DOMAIN Tail(s) : i + 1 \in DOMAIN s /\ Tail(s)[i] = s[i + 1] BY <1>2
<1>5. chan' = [chan EXCEPT ![n] = Tail(s)] BY <1>1 DEF Dispatch
<1>6. chan' \in [Node -> Seq(Event)] /\ chan'[n] = Tail(s) /\ \A m \in Node : m # n => chan'[m] = chan[m]
  BY <1>2, <1>3, <1>5
<1>7. NextEvent(n) = s[1] BY <1>1, <1>3 DEF NextEvent
<1>8. s[1] \in Events(n) BY <1>1, <1>3 DEF Events
<1>9. ASSUME UNCHANGED outbox, NEW m \in Node PROVE Events(m)' \subseteq Events(m)
  <2>1. CASE m = n
    <3>1. chan'[n] = Tail(s) /\ outbox'[n] = outbox[n] BY <1>6, <1>9
    <3>2. PICK u : u = Tail(s) OBVIOUS
    <3>3. \A i \in DOMAIN u : i + 1 \in DOMAIN s /\ u[i] = s[i + 1] BY <1>4, <3>2
    <3>4. Events(n)' = DOMAIN outbox[n] \cup {u[i] : i \in DOMAIN u} BY <3>1, <3>2 DEF Events
    <3>5. Events(n) = DOMAIN outbox[n] \cup {s[i] : i \in DOMAIN s} BY <1>1 DEF Events
    <3> QED BY <2>1, <3>3, <3>4, <3>5
  <2>2. CASE m # n BY <1>6, <1>9, <2>2 DEF Events
  <2> QED BY <2>1, <2>2
<1> QED BY <1>3, <1>6, <1>7, <1>8, <1>9

LEMMA HandleAddedInv ==
  ASSUME NEW w \in Node, WafConstants(w), WafInv(w), NEW n \in Node, HandleAdded(n)
  PROVE  WafInv(w)'
<1>0. /\ WafTyped /\ OneRuleAnId(w) /\ PendingIsFree(w) /\ OthersListen(w)
      /\ Subscriber \in Thread /\ Subscriber \notin Worker /\ Subscriber # Sync
  BY InvParts DEF Thread, WafConstants
<1>1. PICK e : e = NextEvent(n) OBVIOUS
<1>2. /\ e \in Event /\ e \in Events(n) /\ e.kind = "added" /\ chan' \in [Node -> Seq(Event)]
      /\ \A m \in Node : Events(m)' \subseteq Events(m)
      /\ UNCHANGED <<rules, next, holder, reloads, restarts, outbox>>
  BY <1>0, <1>1, DispatchDoes DEF HandleAdded
<1>3. PICK k : k = [pc |-> "apply", id |-> e.id, pattern |-> e.pattern] OBVIOUS
<1>4. k \in Doing /\ k.pc = "apply" /\ Carried(k) = {RuleOf(e)}
  BY <1>2, <1>3 DEF Doing, Carried, Event, RuleOf
<1>5. Goto(n, Subscriber, k) BY <1>1, <1>3 DEF HandleAdded
<1>6. /\ task' \in [Node -> [Thread -> Doing]] /\ task'[n][Subscriber] = k
      /\ \A m \in Node, u \in Thread : <<m, u>> # <<n, Subscriber>> => task'[m][u] = task[m][u]
  BY <1>0, <1>4, <1>5, GotoDoes
<1>7. WafTyped' BY <1>0, <1>2, <1>6 DEF WafTyped
<1>8. OthersListen(w)'
  <2>1. \A u \in Thread : task'[w][u].pc # "bump" BY <1>0, <1>4, <1>6 DEF OthersListen
  <2>2. \A m \in Node, u \in Thread : u # Subscriber => task'[m][u] = task[m][u] BY <1>6
  <2> QED BY <1>0, <2>1, <2>2 DEF OthersListen, Thread
<1>9. Shared' \subseteq Shared \cup {}
  <2>1. \A m \in Node : DOMAIN rules'[m] \subseteq Shared \cup {} BY <1>2 DEF Shared
  <2> QED BY <1>2, <2>1, SharedAfter
<1>10. RuleOf(e) \in Shared
  <2>1. RuleOf(e) \in Told(n) BY <1>2 DEF Told
  <2> QED BY <2>1 DEF Shared
<1>11. next'[w] >= next[w] BY <1>0, <1>2 DEF WafTyped, WafConstants
<1>12. Carried(task'[n][Subscriber]) \subseteq Shared BY <1>4, <1>6, <1>10
<1>13. OneRuleAnId(w)' /\ PendingIsFree(w)'
  BY <1>0, <1>6, <1>7, <1>9, <1>11, <1>12, NothingDrawn
<1> QED BY <1>7, <1>8, <1>13 DEF WafInv

LEMMA HandleRemovedInv ==
  ASSUME NEW w \in Node, WafConstants(w), WafInv(w), NEW n \in Node, HandleRemoved(n)
  PROVE  WafInv(w)'
<1>0. WafTyped BY InvParts
<1>1. /\ chan' \in [Node -> Seq(Event)] /\ \A m \in Node : Events(m)' \subseteq Events(m)
      /\ UNCHANGED <<next, holder, task, reloads, restarts, outbox>>
  BY <1>0, DispatchDoes DEF HandleRemoved
<1>2. PICK b : b = Without(rules[n], NextEvent(n).id) OBVIOUS
<1>3. rules' = [rules EXCEPT ![n] = b] BY <1>2 DEF HandleRemoved
<1>4. rules[n] \in Singles BY <1>0 DEF WafTyped
<1>5. b \in Singles /\ DOMAIN b \subseteq DOMAIN rules[n] BY <1>2, <1>4, SinglesLeft
<1>6. rules' \in [Node -> Singles] /\ \A m \in Node : DOMAIN rules'[m] \subseteq DOMAIN rules[m]
  BY <1>0, <1>3, <1>5 DEF WafTyped
<1>7. WafTyped' BY <1>0, <1>1, <1>6 DEF WafTyped
<1>8. Shared' \subseteq Shared \cup {}
  <2>1. \A m \in Node : DOMAIN rules'[m] \subseteq Shared \cup {} BY <1>6 DEF Shared
  <2> QED BY <1>1, <2>1, SharedAfter
<1> QED BY <1>1, <1>7, <1>8, ThreadsRest

LEMMA ReloadStartInv ==
  ASSUME NEW w \in Node, WafConstants(w), WafInv(w), NEW n \in Node, NEW c \in Configs[n],
         ReloadStart(n, c)
  PROVE  WafInv(w)'
<1>0. /\ WafTyped /\ OneRuleAnId(w) /\ PendingIsFree(w) /\ OthersListen(w)
      /\ Sync \in Thread /\ Sync \notin Worker
  BY InvParts DEF Thread, WafConstants
<1>1. PICK k : k = [pc |-> "reload", todo |-> c, compiled |-> EmptyBag] OBVIOUS
<1>2. EmptyBag \in Singles /\ DOMAIN EmptyBag = {}
  <2>1. EmptyBag = [e \in {} |-> 1] BY DEF EmptyBag, SetToBag
  <2>2. [e \in {} |-> 1] \in [{} -> {1}] /\ {} \in SUBSET Rule OBVIOUS
  <2> QED BY <2>1, <2>2 DEF Singles
<1>3. c \in Seq(Pattern) BY DEF WafConstants
<1>4. k \in Doing /\ k.pc = "reload" /\ k.todo = c /\ Carried(k) = {}
  BY <1>1, <1>2, <1>3 DEF Doing, Carried
<1>5. /\ Goto(n, Sync, k) /\ UNCHANGED <<rules, next, holder, restarts, outbox, chan>>
      /\ reloads[n] < MaxReloads[n] /\ reloads' = [reloads EXCEPT ![n] = reloads[n] + 1]
  BY <1>1 DEF ReloadStart
<1>6. /\ task' \in [Node -> [Thread -> Doing]] /\ task'[n][Sync] = k
      /\ \A m \in Node, u \in Thread : <<m, u>> # <<n, Sync>> => task'[m][u] = task[m][u]
  BY <1>0, <1>4, <1>5, GotoDoes
<1>7. reloads' \in [Node -> Nat] /\ \A m \in Node : reloads'[m] <= MaxReloads[m]
  <2>1. reloads \in [Node -> Nat] /\ (\A m \in Node : reloads[m] <= MaxReloads[m])
        /\ MaxReloads \in [Node -> Nat]
    BY <1>0 DEF WafTyped, WafConstants
  <2>2. reloads' \in [Node -> Nat] /\ reloads'[n] = reloads[n] + 1
        /\ \A m \in Node : m # n => reloads'[m] = reloads[m]
    BY <1>5, <2>1
  <2>3. reloads'[n] <= MaxReloads[n] BY <1>5, <2>1, <2>2
  <2> QED BY <2>1, <2>2, <2>3
<1>8. WafTyped' BY <1>0, <1>5, <1>6, <1>7 DEF WafTyped
<1>9. OthersListen(w)'
  <2>1. \A u \in Thread : task'[w][u].pc # "bump" BY <1>0, <1>4, <1>6 DEF OthersListen
  <2>2. \A m \in Node, u \in Thread : u # Sync => task'[m][u] = task[m][u] BY <1>6
  <2>3. \A m \in Node : m # n => task'[m][Sync] = task[m][Sync] BY <1>0, <1>6
  <2>4. n # w => c \in Seq(Invalid)
    <3>1. SUFFICES ASSUME n # w PROVE c \in Seq(Invalid) OBVIOUS
    <3>2. Valid(c) = {} BY <3>1 DEF WafConstants, OneWriter
    <3>3. Len(c) \in Nat /\ c \in [1..Len(c) -> Pattern] BY <1>3
    <3>4. \A i \in 1..Len(c) : c[i] \in Invalid BY <3>2, <3>3 DEF Valid
    <3> QED BY <3>3, <3>4, SeqDef
  <2> QED BY <1>0, <1>4, <1>6, <2>1, <2>2, <2>3, <2>4 DEF OthersListen, Thread
<1>10. Shared' \subseteq Shared \cup Carried(task[n][Sync]) BY <1>5 DEF Shared, Told, Events
<1>11. Carried(task'[n][Sync]) \subseteq {} BY <1>4, <1>6
<1>12. next'[w] >= next[w] BY <1>0, <1>5 DEF WafTyped, WafConstants
<1>13. OneRuleAnId(w)' /\ PendingIsFree(w)'
  BY <1>0, <1>6, <1>8, <1>10, <1>11, <1>12, NothingDrawn
<1> QED BY <1>8, <1>9, <1>13 DEF WafInv

LEMMA ReloadSkipInv ==
  ASSUME NEW w \in Node, WafConstants(w), WafInv(w), NEW n \in Node, ReloadSkip(n)
  PROVE  WafInv(w)'
<1>0. /\ WafTyped /\ OneRuleAnId(w) /\ PendingIsFree(w) /\ OthersListen(w)
      /\ Sync \in Thread /\ Sync \notin Worker
  BY InvParts DEF Thread, WafConstants
<1>1. PICK k : k = task[n][Sync] OBVIOUS
<1>2. PICK j : j = [k EXCEPT !.todo = Tail(k.todo)] OBVIOUS
<1>3. /\ k.pc = "reload" /\ k.todo # <<>> /\ Goto(n, Sync, j)
      /\ UNCHANGED <<rules, next, holder, reloads, restarts, outbox, chan>>
  BY <1>1, <1>2 DEF ReloadSkip, At
<1>4. k \in Doing BY <1>0, <1>1 DEF WafTyped
<1>5. k.todo \in Seq(Pattern) /\ k.compiled \in Singles
      /\ k = [pc |-> "reload", todo |-> k.todo, compiled |-> k.compiled]
  BY <1>3, <1>4 DEF Doing
<1>6. Tail(k.todo) \in Seq(Pattern) BY <1>3, <1>5
<1>7. j = [pc |-> "reload", todo |-> Tail(k.todo), compiled |-> k.compiled]
  <2>1. PICK d, b : d = k.todo /\ b = k.compiled OBVIOUS
  <2>2. k = [pc |-> "reload", todo |-> d, compiled |-> b] BY <1>5, <2>1
  <2>3. j = [[pc |-> "reload", todo |-> d, compiled |-> b] EXCEPT !.todo = Tail(d)]
    BY <1>2, <2>1, <2>2
  <2> QED BY <2>1, <2>3
<1>8. j \in Doing /\ j.pc = "reload" /\ j.todo = Tail(k.todo) /\ Carried(j) = Carried(k)
  BY <1>3, <1>5, <1>6, <1>7 DEF Doing, Carried
<1>9. /\ task' \in [Node -> [Thread -> Doing]] /\ task'[n][Sync] = j
      /\ \A m \in Node, u \in Thread : <<m, u>> # <<n, Sync>> => task'[m][u] = task[m][u]
  BY <1>0, <1>3, <1>8, GotoDoes
<1>10. WafTyped' BY <1>0, <1>3, <1>9 DEF WafTyped
<1>11. OthersListen(w)'
  <2>1. \A u \in Thread : task'[w][u].pc # "bump" BY <1>0, <1>8, <1>9 DEF OthersListen
  <2>2. \A m \in Node, u \in Thread : u # Sync => task'[m][u] = task[m][u] BY <1>9
  <2>3. \A m \in Node : m # n => task'[m][Sync] = task[m][Sync] BY <1>0, <1>9
  <2>4. n # w => Tail(k.todo) \in Seq(Invalid)
    <3>1. n # w => k.todo \in Seq(Invalid) BY <1>0, <1>1, <1>3 DEF OthersListen
    <3> QED BY <1>3, <3>1
  <2>5. \A m \in Node \ {w} : \A v \in Worker : task'[m][v].pc = "idle"
    BY <1>0, <2>2 DEF OthersListen, Thread
  <2>6. \A m \in Node \ {w} : task'[m][Sync].pc = "reload" => task'[m][Sync].todo \in Seq(Invalid)
    <3>1. SUFFICES ASSUME NEW m \in Node \ {w}, task'[m][Sync].pc = "reload"
                   PROVE  task'[m][Sync].todo \in Seq(Invalid)
      OBVIOUS
    <3>2. CASE m = n BY <1>8, <1>9, <2>4, <3>1, <3>2
    <3>3. CASE m # n BY <1>0, <2>3, <3>1, <3>3 DEF OthersListen
    <3> QED BY <3>2, <3>3
  <2> QED BY <2>1, <2>5, <2>6 DEF OthersListen
<1>12. Shared' \subseteq Shared \cup Carried(task[n][Sync]) BY <1>3 DEF Shared, Told, Events
<1>13. Carried(task'[n][Sync]) \subseteq Carried(task[n][Sync]) BY <1>1, <1>8, <1>9
<1>14. next'[w] >= next[w] BY <1>0, <1>3 DEF WafTyped, WafConstants
<1>15. OneRuleAnId(w)' /\ PendingIsFree(w)'
  BY <1>0, <1>9, <1>10, <1>12, <1>13, <1>14, NothingDrawn
<1> QED BY <1>10, <1>11, <1>15 DEF WafInv

LEMMA ReloadTakeInv ==
  ASSUME NEW w \in Node, WafConstants(w), WafInv(w), NEW n \in Node, ReloadTake(n)
  PROVE  WafInv(w)'
<1>0. /\ WafTyped /\ OneRuleAnId(w) /\ PendingIsFree(w) /\ OthersListen(w)
      /\ Sync \in Thread /\ Sync \notin Worker
  BY InvParts DEF Thread, WafConstants
<1>1. PICK k : k = task[n][Sync] OBVIOUS
<1>2. PICK r : r = [id |-> next[n], pattern |-> Head(k.todo)] OBVIOUS
<1>3. PICK b : b = k.compiled (+) SetToBag({r}) OBVIOUS
<1>4. PICK j : j = [k EXCEPT !.todo = Tail(k.todo), !.compiled = b] OBVIOUS
<1>5. /\ k.pc = "reload" /\ k.todo # <<>> /\ Head(k.todo) \notin Invalid /\ next[n] <= MaxId
      /\ next' = [next EXCEPT ![n] = next[n] + 1] /\ Goto(n, Sync, j)
      /\ UNCHANGED <<rules, holder, reloads, restarts, outbox, chan>>
  BY <1>1, <1>2, <1>3, <1>4 DEF ReloadTake, At, Drawn
<1>6. k \in Doing BY <1>0, <1>1 DEF WafTyped
<1>7. k.todo \in Seq(Pattern) /\ k.compiled \in Singles
      /\ k = [pc |-> "reload", todo |-> k.todo, compiled |-> k.compiled]
  BY <1>5, <1>6 DEF Doing
<1>8. Tail(k.todo) \in Seq(Pattern) /\ Head(k.todo) \in Pattern BY <1>5, <1>7
<1>9. n = w
  <2>1. n # w => k.todo \in Seq(Invalid) BY <1>0, <1>1, <1>5 DEF OthersListen
  <2> QED BY <1>5, <2>1
<1>10. /\ MaxId \in Nat /\ next[w] \in 1..MaxId /\ next'[w] = next[w] + 1
       /\ next' \in [Node -> 1..MaxId + 1] /\ next'[w] > next[w] /\ next'[w] >= next[w]
  BY <1>0, <1>5, <1>9 DEF WafTyped, WafConstants
<1>11. r \in Rule /\ r.id = next[w] BY <1>2, <1>8, <1>9, <1>10 DEF Rule, Id
<1>12. Carried(k) = DOMAIN k.compiled BY <1>5 DEF Carried
<1>13. r \notin DOMAIN k.compiled
  <2>1. DOMAIN k.compiled \subseteq Known BY <1>0, <1>1, <1>12 DEF Known, InHands
  <2>2. \A s \in Known : s.id < next[w] BY <1>0 DEF OneRuleAnId
  <2> QED BY <1>10, <1>11, <2>1, <2>2
<1>14. b \in Singles /\ DOMAIN b = DOMAIN k.compiled \cup {r}
  BY <1>3, <1>7, <1>11, <1>13, SingleAdded
<1>15. j = [pc |-> "reload", todo |-> Tail(k.todo), compiled |-> b]
  <2>1. PICK d, x : d = k.todo /\ x = k.compiled OBVIOUS
  <2>2. k = [pc |-> "reload", todo |-> d, compiled |-> x] BY <1>7, <2>1
  <2>3. j = [[pc |-> "reload", todo |-> d, compiled |-> x] EXCEPT !.todo = Tail(d), !.compiled = b]
    BY <1>4, <2>1, <2>2
  <2> QED BY <2>1, <2>3
<1>16. j \in Doing /\ j.pc = "reload" /\ Carried(j) = Carried(k) \cup {r}
  BY <1>8, <1>12, <1>14, <1>15 DEF Doing, Carried
<1>17. /\ task' \in [Node -> [Thread -> Doing]] /\ task'[n][Sync] = j
       /\ \A m \in Node, u \in Thread : <<m, u>> # <<n, Sync>> => task'[m][u] = task[m][u]
  BY <1>0, <1>5, <1>16, GotoDoes
<1>18. WafTyped' BY <1>0, <1>5, <1>10, <1>17 DEF WafTyped
<1>19. OthersListen(w)'
  <2>1. \A u \in Thread : task'[w][u].pc # "bump" BY <1>0, <1>9, <1>16, <1>17 DEF OthersListen
  <2>2. \A m \in Node \ {w} : \A u \in Thread : task'[m][u] = task[m][u] BY <1>9, <1>17
  <2> QED BY <1>0, <2>1, <2>2 DEF OthersListen, Thread
<1>20. Shared' \subseteq Shared \cup Carried(task[n][Sync]) BY <1>5 DEF Shared, Told, Events
<1>21. PICK N : N = {r} OBVIOUS
<1>22. /\ \A s \in N : s.id = next[w] /\ next'[w] > next[w]
       /\ \A s, x \in N : s = x
       /\ Carried(task'[n][Sync]) \subseteq Shared \cup Carried(task[n][Sync]) \cup N
  BY <1>1, <1>10, <1>11, <1>16, <1>17, <1>21
<1>23. \A m \in Node, u \in Thread :
         <<m, u>> # <<n, Sync>> => task'[m][u] = task[m][u] \/ task'[m][u] = Idle
  BY <1>17
<1>24. OneRuleAnId(w)' /\ PendingIsFree(w)'
  BY <1>0, <1>10, <1>18, <1>20, <1>22, <1>23, RulesMove
<1> QED BY <1>18, <1>19, <1>24 DEF WafInv

LEMMA ReloadReplaceInv ==
  ASSUME NEW w \in Node, WafConstants(w), WafInv(w), NEW n \in Node, ReloadReplace(n)
  PROVE  WafInv(w)'
<1>0. /\ WafTyped /\ OneRuleAnId(w) /\ PendingIsFree(w) /\ OthersListen(w)
      /\ Sync \in Thread /\ Sync \notin Worker
  BY InvParts DEF Thread, WafConstants
<1>1. PICK k : k = task[n][Sync] OBVIOUS
<1>2. /\ k.pc = "reload" /\ rules' = [rules EXCEPT ![n] = k.compiled] /\ Goto(n, Sync, Idle)
      /\ UNCHANGED <<next, holder, reloads, restarts, outbox, chan>>
  BY <1>1 DEF ReloadReplace, At
<1>3. k \in Doing BY <1>0, <1>1 DEF WafTyped
<1>4. k.compiled \in Singles /\ Carried(k) = DOMAIN k.compiled BY <1>2, <1>3 DEF Doing, Carried
<1>5. rules' \in [Node -> Singles]
      /\ \A m \in Node : DOMAIN rules'[m] \subseteq DOMAIN rules[m] \cup Carried(k)
  BY <1>0, <1>2, <1>4 DEF WafTyped
<1>6. /\ task' \in [Node -> [Thread -> Doing]] /\ task'[n][Sync] = Idle
      /\ \A m \in Node, u \in Thread : <<m, u>> # <<n, Sync>> => task'[m][u] = task[m][u]
  BY <1>0, <1>2, GotoDoes, IdleIsDoing
<1>7. WafTyped' BY <1>0, <1>2, <1>5, <1>6 DEF WafTyped
<1>8. OthersListen(w)' BY <1>0, <1>6 DEF OthersListen, Idle, Thread
<1>9. Shared' \subseteq Shared \cup Carried(task[n][Sync])
  <2>1. \A m \in Node : DOMAIN rules'[m] \subseteq Shared \cup Carried(task[n][Sync])
    BY <1>1, <1>5 DEF Shared
  <2>2. \A m \in Node : Events(m)' = Events(m) BY <1>2 DEF Events
  <2> QED BY <2>1, <2>2, SharedAfter
<1>10. Carried(task'[n][Sync]) \subseteq {} BY <1>6 DEF Carried, Idle
<1>11. next'[w] >= next[w] BY <1>0, <1>2 DEF WafTyped, WafConstants
<1>12. OneRuleAnId(w)' /\ PendingIsFree(w)'
  BY <1>0, <1>6, <1>7, <1>9, <1>10, <1>11, NothingDrawn
<1> QED BY <1>7, <1>8, <1>12 DEF WafInv

LEMMA RestartInv ==
  ASSUME NEW w \in Node, WafConstants(w), WafInv(w), NEW n \in Node, Restart(n)
  PROVE  WafInv(w)'
<1>0. /\ WafTyped /\ OneRuleAnId(w) /\ PendingIsFree(w) /\ OthersListen(w)
      /\ Subscriber \in Thread /\ Subscriber \notin Worker /\ Sync \in Thread
  BY InvParts DEF Thread, WafConstants
<1>1. n # w BY DEF Restart, WafConstants, OneWriter
<1>2. PICK c \in Configs[n] : /\ rules' = [rules EXCEPT ![n] = StartedWith(c).rules]
                              /\ next' = [next EXCEPT ![n] = StartedWith(c).next]
  BY DEF Restart
<1>3. /\ restarts < MaxRestarts /\ restarts' = restarts + 1 /\ holder' = [holder EXCEPT ![n] = None]
      /\ task' = [task EXCEPT ![n] = [t \in Thread |-> Idle]] /\ reloads' = [reloads EXCEPT ![n] = 0]
      /\ outbox' = [outbox EXCEPT ![n] = EmptyBag] /\ chan' = [chan EXCEPT ![n] = <<>>]
  BY DEF Restart, BusRestart
<1>4. c \in Seq(Pattern) /\ Len(c) <= MaxId /\ MaxId \in Nat /\ Valid(c) = {}
  BY <1>1 DEF WafConstants, OneWriter
<1>5. Loaded(c, 1) \in Singles /\ DOMAIN Loaded(c, 1) = {} /\ Cardinality(Valid(c)) \in 0..MaxId
  BY <1>4, LoadedOnce
<1>6. StartedWith(c).rules = Loaded(c, 1) /\ StartedWith(c).next = 1 + Cardinality(Valid(c))
  BY DEF StartedWith
<1>7. /\ rules' \in [Node -> Singles]
      /\ \A m \in Node : DOMAIN rules'[m] \subseteq DOMAIN rules[m]
  BY <1>0, <1>2, <1>5, <1>6 DEF WafTyped
<1>8. next' \in [Node -> 1..MaxId + 1] /\ next'[w] = next[w]
  BY <1>0, <1>1, <1>2, <1>4, <1>5, <1>6 DEF WafTyped
<1>9. /\ task' \in [Node -> [Thread -> Doing]]
      /\ \A t \in Thread : task'[n][t] = Idle
      /\ \A m \in Node, u \in Thread : m # n => task'[m][u] = task[m][u]
  <2>1. [t \in Thread |-> Idle] \in [Thread -> Doing] BY IdleIsDoing
  <2> QED BY <1>0, <1>3, <2>1 DEF WafTyped
<1>10. DOMAIN EmptyBag = {} BY DEF EmptyBag, SetToBag
<1>11. /\ DOMAIN outbox' = Node /\ \A m \in Node : DOMAIN outbox'[m] \subseteq DOMAIN outbox[m]
       /\ chan' \in [Node -> Seq(Event)]
       /\ \A m \in Node : chan'[m] = <<>> \/ chan'[m] = chan[m]
  <2>1. <<>> \in Seq(Event) OBVIOUS
  <2> QED BY <1>0, <1>3, <1>10, <2>1 DEF WafTyped
<1>12. restarts' \in 0..MaxRestarts /\ reloads' \in [Node -> Nat]
       /\ \A m \in Node : reloads'[m] <= MaxReloads[m]
  BY <1>0, <1>3 DEF WafTyped, WafConstants
<1>13. holder' \in [Node -> Worker \cup {Subscriber, None}] BY <1>0, <1>3 DEF WafTyped
<1>14. WafTyped' BY <1>0, <1>7, <1>8, <1>9, <1>11, <1>12, <1>13 DEF WafTyped
<1>15. OthersListen(w)' BY <1>0, <1>1, <1>9 DEF OthersListen, Idle, Thread
<1>16. Shared' \subseteq Shared \cup {}
  <2>1. \A m \in Node : DOMAIN rules'[m] \subseteq Shared \cup {} BY <1>7 DEF Shared
  <2>2. \A m \in Node : Events(m)' \subseteq Events(m) BY <1>11 DEF Events
  <2> QED BY <2>1, <2>2, SharedAfter
<1>17. PICK N : N = {} OBVIOUS
<1>18. /\ \A s \in N : s.id = next[w] /\ next'[w] > next[w]
       /\ \A s, x \in N : s = x
       /\ Carried(task'[n][Subscriber]) \subseteq Shared \cup Carried(task[n][Subscriber]) \cup N
  BY <1>0, <1>9, <1>17 DEF Carried, Idle
<1>19. \A m \in Node, u \in Thread :
         <<m, u>> # <<n, Subscriber>> => task'[m][u] = task[m][u] \/ task'[m][u] = Idle
  BY <1>9
<1>20. next'[w] >= next[w] BY <1>0, <1>4, <1>8 DEF WafTyped
<1>21. Shared' \subseteq Shared \cup Carried(task[n][Subscriber]) BY <1>16
<1>22. OneRuleAnId(w)' /\ PendingIsFree(w)'
  BY <1>0, <1>14, <1>18, <1>19, <1>20, <1>21, RulesMove
<1> QED BY <1>14, <1>15, <1>22 DEF WafInv

-----------------------------------------------------------------------------
(* The invariant holds, and what follows from it.                            *)
LEMMA WafInitInv ==
  ASSUME NEW w \in Node, WafConstants(w), Init
  PROVE  WafInv(w)
<1>1. PICK c \in [Node -> UNION {Configs[n] : n \in Node}] :
        /\ \A n \in Node : c[n] \in Configs[n]
        /\ rules = [n \in Node |-> StartedWith(c[n]).rules]
        /\ next = [n \in Node |-> StartedWith(c[n]).next]
  BY DEF Init
<1>2. /\ holder = [n \in Node |-> None] /\ task = [n \in Node |-> [t \in Thread |-> Idle]]
      /\ reloads = [n \in Node |-> 0] /\ restarts = 0
      /\ outbox = [n \in Node |-> EmptyBag] /\ chan = [n \in Node |-> <<>>]
  BY DEF Init, BusInit
<1>3. \A n \in Node : c[n] \in Seq(Pattern) /\ Len(c[n]) <= MaxId /\ MaxId \in Nat
  BY <1>1 DEF WafConstants
<1>4. \A n \in Node : /\ StartedWith(c[n]).rules = Loaded(c[n], 1)
                      /\ StartedWith(c[n]).next = 1 + Cardinality(Valid(c[n]))
  BY DEF StartedWith
<1>5. ASSUME NEW n \in Node
      PROVE  /\ rules[n] \in Singles /\ next[n] \in 1..MaxId + 1
             /\ \A r \in DOMAIN rules[n] : r.id < next[n]
             /\ \A r, s \in DOMAIN rules[n] : r.id = s.id => r = s
             /\ Valid(c[n]) = {} => DOMAIN rules[n] = {}
  <2>1. PICK d : d = c[n] OBVIOUS
  <2>2. d \in Seq(Pattern) /\ Len(d) <= MaxId /\ MaxId \in Nat BY <1>3, <2>1
  <2>3. rules[n] = Loaded(d, 1) /\ next[n] = 1 + Cardinality(Valid(d)) BY <1>1, <1>4, <2>1
  <2>4. /\ Loaded(d, 1) \in Singles /\ Cardinality(Valid(d)) \in 0..MaxId
        /\ \A r \in DOMAIN Loaded(d, 1) : r.id < 1 + Cardinality(Valid(d))
        /\ \A r, s \in DOMAIN Loaded(d, 1) : r.id = s.id => r = s
        /\ Valid(d) = {} => DOMAIN Loaded(d, 1) = {}
    BY <2>2, LoadedOnce
  <2>5. 1 + Cardinality(Valid(d)) \in 1..MaxId + 1 BY <2>2, <2>4
  <2> QED BY <2>1, <2>3, <2>4, <2>5
<1>6. \A n \in Node, t \in Thread : task[n][t] = Idle BY <1>2
<1>7. DOMAIN EmptyBag = {} BY DEF EmptyBag, SetToBag
<1>8. \A n \in Node : Events(n) = {} BY <1>2, <1>7 DEF Events
<1>9. WafTyped
  <2>1. rules \in [Node -> Singles] /\ next \in [Node -> 1..(MaxId + 1)] BY <1>1, <1>5
  <2>2. task \in [Node -> [Thread -> Doing]] BY <1>2, IdleIsDoing
  <2>3. DOMAIN outbox = Node /\ \A n \in Node : DOMAIN outbox[n] \subseteq Event BY <1>2, <1>7
  <2>4. chan \in [Node -> Seq(Event)]
    <3>1. <<>> \in Seq(Event) OBVIOUS
    <3> QED BY <1>2, <3>1
  <2>5. reloads \in [Node -> Nat] /\ (\A n \in Node : reloads[n] <= MaxReloads[n])
        /\ restarts \in 0..MaxRestarts
    BY <1>2 DEF WafConstants
  <2>6. holder \in [Node -> Worker \cup {Subscriber, None}] BY <1>2
  <2> QED BY <2>1, <2>2, <2>3, <2>4, <2>5, <2>6 DEF WafTyped
<1>10. \A n \in Node, t \in Thread : Carried(task[n][t]) = {} BY <1>6 DEF Carried, Idle
<1>11. Known \subseteq DOMAIN rules[w]
  <2>1. \A r \in InHands : FALSE
    <3>1. \A r \in InHands : \E n \in Node, t \in Thread : r \in Carried(task[n][t]) BY DEF InHands
    <3> QED BY <1>10, <3>1
  <2>2. \A n \in Node : Told(n) = {} BY <1>8 DEF Told
  <2>3. \A n \in Node \ {w} : Valid(c[n]) = {} BY <1>1 DEF WafConstants, OneWriter
  <2>4. \A n \in Node \ {w} : DOMAIN rules[n] = {} BY <1>5, <2>3
  <2>5. \A n \in Node : DOMAIN rules[n] \cup Told(n) \subseteq DOMAIN rules[w] BY <2>2, <2>4
  <2> QED BY <2>1, <2>5 DEF Known, Shared
<1>12. OneRuleAnId(w) BY <1>5, <1>11 DEF OneRuleAnId
<1>13. \A n \in Node, t \in Thread : task[n][t].pc = "idle" BY <1>6 DEF Idle
<1>14. PendingIsFree(w) BY <1>13 DEF PendingIsFree, Thread
<1>15. OthersListen(w) BY <1>13 DEF OthersListen, Thread
<1> QED BY <1>9, <1>12, <1>14, <1>15 DEF WafInv

LEMMA WafStepInv ==
  ASSUME NEW w \in Node, WafConstants(w), WafInv(w), [Next]_vars
  PROVE  WafInv(w)'
<1>1. CASE UNCHANGED vars
  <2>1. UNCHANGED <<rules, next, holder, task, reloads, restarts, outbox, chan>> BY <1>1 DEF vars
  <2>2. WafTyped' = WafTyped BY <2>1 DEF WafTyped
  <2>3. Shared' = Shared BY <2>1 DEF Shared, Told, Events
  <2>4. OneRuleAnId(w)' = OneRuleAnId(w) BY <2>1, <2>3 DEF OneRuleAnId, Known, InHands
  <2>5. PendingIsFree(w)' = PendingIsFree(w) BY <2>1, <2>3 DEF PendingIsFree, ElsewhereInHands
  <2>6. OthersListen(w)' = OthersListen(w) BY <2>1 DEF OthersListen
  <2> QED BY <2>2, <2>4, <2>5, <2>6 DEF WafInv
<1>2. CASE Next
  <2>1. PICK n \in Node :
          \/ \E v \in Worker : \/ \E p \in Pattern : AddTake(n, v, p)
                               \/ \E id \in Id : Remove(n, v, id)
          \/ \E t \in Worker \cup {Subscriber} : ApplySkip(n, t) \/ ApplyPush(n, t) \/ Bump(n, t)
          \/ Send(n)
          \/ HandleAdded(n)
          \/ HandleRemoved(n)
          \/ \E c \in Configs[n] : ReloadStart(n, c)
          \/ ReloadSkip(n)
          \/ ReloadTake(n)
          \/ ReloadReplace(n)
          \/ Restart(n)
    BY <1>2 DEF Next
  <2>2. CASE \E v \in Worker, p \in Pattern : AddTake(n, v, p) BY <2>2, AddTakeInv
  <2>3. CASE \E v \in Worker, id \in Id : Remove(n, v, id) BY <2>3, RemoveInv
  <2>4. CASE \E t \in Worker \cup {Subscriber} : ApplySkip(n, t) BY <2>4, ApplySkipInv
  <2>5. CASE \E t \in Worker \cup {Subscriber} : ApplyPush(n, t) BY <2>5, ApplyPushInv
  <2>6. CASE \E t \in Worker \cup {Subscriber} : Bump(n, t) BY <2>6, BumpInv
  <2>7. CASE Send(n) BY <2>7, SendInv
  <2>8. CASE HandleAdded(n) BY <2>8, HandleAddedInv
  <2>9. CASE HandleRemoved(n) BY <2>9, HandleRemovedInv
  <2>10. CASE \E c \in Configs[n] : ReloadStart(n, c) BY <2>10, ReloadStartInv
  <2>11. CASE ReloadSkip(n) BY <2>11, ReloadSkipInv
  <2>12. CASE ReloadTake(n) BY <2>12, ReloadTakeInv
  <2>13. CASE ReloadReplace(n) BY <2>13, ReloadReplaceInv
  <2>14. CASE Restart(n) BY <2>14, RestartInv
  <2> QED BY <2>1, <2>2, <2>3, <2>4, <2>5, <2>6, <2>7, <2>8, <2>9, <2>10, <2>11, <2>12, <2>13, <2>14
<1> QED BY <1>1, <1>2

LEMMA WafInvMeans ==
  ASSUME NEW w \in Node, WafConstants(w), WafInv(w)
  PROVE  TypeOK /\ Coherent /\ UniqueIds /\ AddIsInstalled
<1>0. WafTyped /\ OneRuleAnId(w) /\ PendingIsFree(w) /\ OthersListen(w) BY InvParts
<1>1. \A b : BagToSet(b) = DOMAIN b BY DEF BagToSet
<1>2. \A n \in Node : DOMAIN rules[n] \subseteq Known BY DEF Known, Shared
<1>3. \A r, s \in Known : r.id = s.id => r = s BY <1>0 DEF OneRuleAnId
<1>4. Coherent BY <1>1, <1>2, <1>3 DEF Coherent
<1>5. UniqueIds
  <2>1. ASSUME NEW n \in Node, NEW r \in DOMAIN rules[n] PROVE rules[n][r] = 1
    <3>1. PICK S \in SUBSET Rule : rules[n] \in [S -> {1}] BY <1>0 DEF WafTyped, Singles
    <3> QED BY <3>1
  <2> QED BY <1>1, <1>2, <1>3, <2>1 DEF UniqueIds
<1>6. AddIsInstalled
  <2>1. ASSUME NEW n \in Node, NEW v \in Worker, At(n, v, "apply"),
               NEW r \in DOMAIN rules[n]
        PROVE  r.id # task[n][v].id
    <3>1. n = w BY <1>0, <2>1 DEF OthersListen, At
    <3>2. r \in Shared BY DEF Shared
    <3> QED BY <1>0, <2>1, <3>1, <3>2 DEF PendingIsFree, At
  <2> QED BY <1>1, <2>1 DEF AddIsInstalled, IdsOf
<1>7. TypeOK
  <2>1. /\ \A n \in Node, t \in Thread : Carried(task[n][t]) \subseteq Rule
        /\ \A n \in Node : Events(n) \subseteq Event /\ DOMAIN rules[n] \subseteq Rule
    BY <1>0, KnownAreRules
  <2>2. ASSUME NEW n \in Node, NEW t \in Thread
        PROVE  \/ task[n][t] = Idle
               \/ task[n][t].pc \in {"apply", "bump"} /\ RuleOf(task[n][t]) \in Rule
               \/ task[n][t].pc = "reload" /\ BagToSet(task[n][t].compiled) \subseteq Rule
    <3>1. PICK k : k = task[n][t] OBVIOUS
    <3>2. k \in Doing /\ Carried(k) \subseteq Rule BY <1>0, <2>1, <3>1 DEF WafTyped
    <3>3. CASE k.pc = "idle" BY <3>1, <3>2, <3>3 DEF Doing, Idle
    <3>4. CASE k.pc \in {"apply", "bump"} BY <3>1, <3>2, <3>4 DEF Carried
    <3>5. CASE k.pc = "reload" BY <1>1, <3>1, <3>2, <3>5 DEF Carried
    <3> QED BY <3>2, <3>3, <3>4, <3>5 DEF Doing
  <2>3. \A n \in Node : BagToSet(outbox[n]) \cup {chan[n][i] : i \in DOMAIN chan[n]} \subseteq Event
    BY <1>1, <2>1 DEF Events
  <2>4. \A n \in Node : reloads[n] \in 0..MaxReloads[n] BY <1>0 DEF WafTyped, WafConstants
  <2>5. \A n \in Node : BagToSet(rules[n]) \subseteq Rule BY <1>1, <2>1
  <2> QED BY <1>0, <2>2, <2>3, <2>4, <2>5 DEF TypeOK, WafTyped
<1> QED BY <1>4, <1>5, <1>6, <1>7

\* Where one node alone draws ids, WafInv is an invariant (waf.rs).
LEMMA WafInvariant ==
  ASSUME NEW w \in Node, OneWriter(w)
  PROVE  Spec => []WafInv(w)
<1>1. WafConstants(w) BY WafRulesAssumption DEF WafConstants
<1>2. Init => WafInv(w) BY <1>1, WafInitInv
<1>3. WafInv(w) /\ [Next]_vars => WafInv(w)' BY <1>1, WafStepInv
<1> QED BY <1>2, <1>3, PTL DEF Spec

\* When the administrators of one node alone add rules, an id means the same rule on
\* every node, so that WafRuleRemoved { id } removes everywhere what its administrator
\* removed (add_custom_pattern, Waf::handle, remove_custom_pattern).
THEOREM IdsAgree ==
  ASSUME NEW w \in Node, OneWriter(w)
  PROVE  Spec => []Coherent
<1>1. WafConstants(w) BY WafRulesAssumption DEF WafConstants
<1>2. WafInv(w) => Coherent BY <1>1, WafInvMeans
<1> QED BY <1>2, WafInvariant, PTL

\* There, no two rules of a node share an id and no add is lost: the id an add has
\* drawn is still free when its rule is pushed (apply_add_pattern_with_id).
THEOREM AddsAreInstalled ==
  ASSUME NEW w \in Node, OneWriter(w)
  PROVE  Spec => [](TypeOK /\ UniqueIds /\ AddIsInstalled)
<1>1. WafConstants(w) BY WafRulesAssumption DEF WafConstants
<1>2. WafInv(w) => TypeOK /\ UniqueIds /\ AddIsInstalled BY <1>1, WafInvMeans
<1> QED BY <1>2, WafInvariant, PTL

=============================================================================
