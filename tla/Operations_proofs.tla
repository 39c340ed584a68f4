-------------------------- MODULE Operations_proofs --------------------------
(* What operators rely on, for every value of the constants: the audit trail, *)
(* the logs and the data feed lose nothing unnoticed, notifications add up,  *)
(* the saved configuration arrives, a rollback restores, who administers is  *)
(* an administrator, a removed job stays removed and a restart delays none,  *)
(* and a workflow's outcome is that of its steps.                            *)
EXTENDS AuditTrail, LogStore, DataFeed, Notify, Settings, Rollout, Access, Cron, Workflows,
        FiniteSetTheorems, SequenceTheorems, TLAPS

-----------------------------------------------------------------------------
(* The audit trail.                                                          *)
TrailConstants ==
  /\ IsFiniteSet(Entry) /\ \E S : Sinks \in Seq(S)
  /\ NoEntry \notin Entry /\ NoEntry \notin [entry: Entry, at: SinkNo]

InHand == IF hand = NoEntry THEN 0 ELSE 1

\* How many of the entries sent are neither in the channel nor in hand.
Past == Len(sent) - Len(channel) - InHand

TrailTyped ==
  /\ channel \in Seq(Entry) /\ table \in Seq(Entry) /\ sent \in Seq(Entry)
  /\ hand \in [entry: Entry, at: SinkNo] \cup {NoEntry}
  /\ out \in [SinkNo -> Seq(Entry)] /\ worker \in [Worker -> Entry \cup {NoEntry}]
  /\ refused \in Nat /\ errors \in [Places -> Nat]
  /\ lost \in [channel: SUBSET Entry, table: SUBSET Entry]

\* The channel holds the last entries sent, in their order, after the one in hand.
InLine ==
  /\ \A i, j \in 1..Len(sent) : sent[i] = sent[j] => i = j
  /\ Past \in Nat
  /\ \A i \in 1..Len(channel) : channel[i] = sent[Len(sent) - Len(channel) + i]
  /\ hand # NoEntry => hand.entry = sent[Len(sent) - Len(channel)]
  /\ lost.channel \subseteq {sent[i] : i \in 1..Past}
  /\ Sinks = <<>> => Len(sent) = 0

\* Every entry that reached the channel's door was taken or counted.
Offered == Sinks # <<>> => Len(sent) + refused = Cardinality(Seen \ {NoEntry})

\* The elements of got stand in line, up to place top and in this order.
FollowsLine(got, line, top) ==
  /\ \A i \in 1..Len(got) : \E k \in 1..top : line[k] = got[i]
  /\ \A i, j \in 1..Len(got) : i < j =>
       \E k, l \in 1..top : k < l /\ line[k] = got[i] /\ line[l] = got[j]

\* What a sink has got was sent, in this order and before what it waits for; all but
\* what is counted or lost.
Written(s) ==
  /\ Len(out[s]) + errors[s] + Coming(s) <= Len(sent)
  /\ Len(sent) <= Len(out[s]) + errors[s] + Coming(s) + Cardinality(lost.channel)
  /\ FollowsLine(out[s], sent, Len(sent) - Coming(s))

TrailInv == TrailTyped /\ InLine /\ Offered /\ \A s \in SinkNo : Written(s)

LEMMA ToSetOfAppend ==
  ASSUME NEW S, NEW seq \in Seq(S), NEW e \in S
  PROVE  ToSet(Append(seq, e)) = ToSet(seq) \cup {e}
<1>1. DOMAIN seq = 1..Len(seq) /\ DOMAIN Append(seq, e) = 1..Len(seq) + 1 /\ Len(seq) \in Nat
  OBVIOUS
<1>2. \A i \in 1..Len(seq) + 1 : Append(seq, e)[i] = IF i = Len(seq) + 1 THEN e ELSE seq[i]
  OBVIOUS
<1> QED BY <1>1, <1>2 DEF ToSet

\* Entries that stand at different places are as many as the places.
LEMMA StretchIsCounted ==
  ASSUME NEW S, IsFiniteSet(S), NEW seq \in Seq(S), NEW a \in Nat, NEW b \in Nat,
         a <= b, b <= Len(seq), \A i, j \in 1..Len(seq) : seq[i] = seq[j] => i = j,
         NEW T, \A x : x \in T <=> \E i \in a + 1..b : seq[i] = x
  PROVE  IsFiniteSet(T) /\ Cardinality(T) = b - a
<1> DEFINE f == [i \in a + 1..b |-> seq[i]]
<1>1. \A i \in a + 1..b : i \in 1..Len(seq) /\ seq[i] \in S BY ElementOfSeq
<1>2. IsFiniteSet(T) BY <1>1, FS_Subset
<1>3. f \in Injection(a + 1..b, T) BY <1>1 DEF Injection, IsInjective
<1>4. f \in Surjection(a + 1..b, T) BY DEF Surjection
<1>5. Cardinality(a + 1..b) = b - a
  <2>1. a + 1 \in Int /\ b \in Int /\ (a + 1 > b => b - a = 0) /\ b - (a + 1) + 1 = b - a OBVIOUS
  <2> HIDE DEF f
  <2> QED BY <2>1, FS_Interval
<1> HIDE DEF f
<1>6. Cardinality(T) = b - a BY <1>2, <1>3, <1>4, <1>5, FS_Injection
<1> QED BY <1>2, <1>6

LEMMA LineMayGrow ==
  ASSUME NEW got, NEW line, NEW other, NEW top \in Int, NEW high \in Int, top <= high,
         \A k \in 1..top : other[k] = line[k], FollowsLine(got, line, top)
  PROVE  FollowsLine(got, other, high)
<1>1. \A k \in 1..top : k \in 1..high OBVIOUS
<1>2. ASSUME NEW i \in 1..Len(got) PROVE \E k \in 1..high : other[k] = got[i]
  <2>1. PICK k \in 1..top : line[k] = got[i] BY DEF FollowsLine
  <2> QED BY <1>1, <2>1
<1>3. ASSUME NEW i \in 1..Len(got), NEW j \in 1..Len(got), i < j
      PROVE  \E k, l \in 1..high : k < l /\ other[k] = got[i] /\ other[l] = got[j]
  <2>1. PICK k, l \in 1..top : k < l /\ line[k] = got[i] /\ line[l] = got[j] BY <1>3 DEF FollowsLine
  <2>2. k \in 1..high /\ l \in 1..high /\ other[k] = got[i] /\ other[l] = got[j] BY <1>1, <2>1
  <2> QED BY <2>1, <2>2
<1> QED BY <1>2, <1>3, Zenon DEF FollowsLine

LEMMA LineMayAdvance ==
  ASSUME NEW S, NEW got \in Seq(S), NEW line, NEW top \in Nat \ {0}, line[top] \in S,
         FollowsLine(got, line, top - 1)
  PROVE  FollowsLine(Append(got, line[top]), line, top)
<1> DEFINE more == Append(got, line[top])
<1>1. /\ Len(more) = Len(got) + 1 /\ more[Len(got) + 1] = line[top] /\ Len(got) \in Nat
      /\ \A i \in 1..Len(got) : more[i] = got[i]
  OBVIOUS
<1>2. \A i \in 1..Len(more) : i \in 1..Len(got) \/ i = Len(got) + 1 BY <1>1
<1>3. (\A k \in 1..top - 1 : k \in 1..top /\ k < top) /\ top \in 1..top OBVIOUS
<1> HIDE DEF more
<1>4. ASSUME NEW i \in 1..Len(more)
      PROVE  \E k \in 1..top : line[k] = more[i]
  BY <1>1, <1>2, <1>3 DEF FollowsLine
<1>5. ASSUME NEW i \in 1..Len(more), NEW j \in 1..Len(more), i < j
      PROVE  \E k, l \in 1..top : k < l /\ line[k] = more[i] /\ line[l] = more[j]
  <2>1. i \in 1..Len(got) BY <1>1, <1>5
  <2>2. CASE j \in 1..Len(got)
    <3>1. PICK k, l \in 1..top - 1 : k < l /\ line[k] = got[i] /\ line[l] = got[j]
      BY <1>5, <2>1, <2>2 DEF FollowsLine
    <3> QED BY <1>1, <1>3, <2>1, <2>2, <3>1
  <2>3. CASE j = Len(got) + 1
    <3>1. PICK k \in 1..top - 1 : line[k] = got[i] BY <2>1 DEF FollowsLine
    <3> QED BY <1>1, <1>3, <2>1, <2>3, <3>1
  <2> QED BY <1>2, <2>2, <2>3
<1>6. FollowsLine(more, line, top) BY <1>4, <1>5 DEF FollowsLine
<1> QED BY <1>6 DEF more

LEMMA TrailInitInv ==
  ASSUME TrailConstants, TrailInit
  PROVE  TrailInv
<1>1. SinkNo = 1..Len(Sinks) /\ Len(Sinks) \in Nat BY DEF SinkNo, TrailConstants
<1>2. TrailTyped
  <2>1. channel \in Seq(Entry) /\ table \in Seq(Entry) /\ sent \in Seq(Entry) BY DEF TrailInit
  <2>2. out \in [SinkNo -> Seq(Entry)] BY DEF TrailInit
  <2>3. worker \in [Worker -> Entry \cup {NoEntry}] BY DEF TrailInit
  <2>4. errors \in [Places -> Nat] BY DEF TrailInit
  <2>5. lost \in [channel: SUBSET Entry, table: SUBSET Entry] BY DEF TrailInit
  <2> QED BY <2>1, <2>2, <2>3, <2>4, <2>5 DEF TrailTyped, TrailInit
<1>3. Len(sent) = 0 /\ Len(channel) = 0 /\ InHand = 0 /\ Past = 0
  BY DEF TrailInit, InHand, Past
<1>4. InLine BY <1>3 DEF InLine, TrailInit
<1>5. Seen \ {NoEntry} = {} BY DEF Seen, TrailInit, ToSet
<1>6. Offered
  <2>1. Cardinality(Seen \ {NoEntry}) = 0 BY <1>5, FS_EmptySet
  <2> QED BY <1>3, <2>1 DEF Offered, TrailInit
<1>7. \A s \in SinkNo : Written(s)
  <2>1. \A s \in SinkNo : out[s] = <<>> /\ Len(out[s]) = 0 /\ errors[s] = 0 /\ Coming(s) = 0
    BY <1>3 DEF TrailInit, Places, Coming
  <2>2. Cardinality(lost.channel) = 0 BY FS_EmptySet DEF TrailInit
  <2> QED BY <1>3, <2>1, <2>2 DEF Written, FollowsLine
<1> QED BY <1>2, <1>4, <1>6, <1>7 DEF TrailInv

LEMMA TrailFacts ==
  ASSUME TrailConstants, TrailTyped
  PROVE  /\ SinkNo = 1..Len(Sinks) /\ Len(Sinks) \in Nat /\ SinkNo \subseteq Places
         /\ Len(sent) \in Nat /\ Len(channel) \in Nat /\ Len(table) \in Nat
         /\ DOMAIN sent = 1..Len(sent) /\ DOMAIN channel = 1..Len(channel)
         /\ \A i \in 1..Len(sent) : sent[i] \in Entry
         /\ \A i \in 1..Len(channel) : channel[i] \in Entry
         /\ \A s \in SinkNo : /\ out[s] \in Seq(Entry) /\ Len(out[s]) \in Nat
                              /\ errors[s] \in Nat /\ Coming(s) \in Nat
                              /\ DOMAIN out[s] = 1..Len(out[s])
         /\ hand # NoEntry => hand.entry \in Entry /\ hand.at \in SinkNo
         /\ IsFiniteSet(lost.channel) /\ Cardinality(lost.channel) \in Nat
         /\ Seen \ {NoEntry} \subseteq Entry /\ IsFiniteSet(Seen \ {NoEntry})
         /\ Cardinality(Seen \ {NoEntry}) \in Nat
<1> USE DEF TrailConstants
<1>1. SinkNo = 1..Len(Sinks) /\ Len(Sinks) \in Nat /\ SinkNo \subseteq Places BY DEF SinkNo, Places
<1>2. /\ channel \in Seq(Entry) /\ sent \in Seq(Entry) /\ table \in Seq(Entry)
      /\ hand \in [entry: Entry, at: SinkNo] \cup {NoEntry}
      /\ out \in [SinkNo -> Seq(Entry)] /\ worker \in [Worker -> Entry \cup {NoEntry}]
      /\ errors \in [Places -> Nat]
      /\ lost \in [channel: SUBSET Entry, table: SUBSET Entry]
  BY DEF TrailTyped
<1>3. /\ Len(sent) \in Nat /\ Len(channel) \in Nat /\ Len(table) \in Nat
      /\ DOMAIN sent = 1..Len(sent) /\ DOMAIN channel = 1..Len(channel)
      /\ DOMAIN table = 1..Len(table)
  BY <1>2
<1>4. \A i \in 1..Len(sent) : sent[i] \in Entry BY <1>2, ElementOfSeq
<1>5. \A i \in 1..Len(channel) : channel[i] \in Entry BY <1>2, ElementOfSeq
<1>6. ASSUME NEW s \in SinkNo
      PROVE  /\ out[s] \in Seq(Entry) /\ Len(out[s]) \in Nat /\ DOMAIN out[s] = 1..Len(out[s])
             /\ errors[s] \in Nat /\ Coming(s) \in Nat
  <2>1. out[s] \in Seq(Entry) /\ errors[s] \in Nat BY <1>1, <1>2
  <2>2. Coming(s) \in Nat BY <1>3 DEF Coming
  <2> QED BY <2>1, <2>2
<1>7. hand # NoEntry => hand.entry \in Entry /\ hand.at \in SinkNo BY <1>2
<1>8. IsFiniteSet(lost.channel) /\ Cardinality(lost.channel) \in Nat
  BY <1>2, FS_Subset, FS_CardinalityType
<1>9. Seen \ {NoEntry} \subseteq Entry
  <2>1. \A i \in 1..Len(table) : table[i] \in Entry BY <1>2, ElementOfSeq
  <2> QED BY <1>2, <1>3, <1>4, <2>1 DEF Seen, ToSet
<1>10. IsFiniteSet(Seen \ {NoEntry}) /\ Cardinality(Seen \ {NoEntry}) \in Nat
  BY <1>9, FS_Subset, FS_CardinalityType
<1> QED BY <1>1, <1>3, <1>4, <1>5, <1>6, <1>7, <1>8, <1>9, <1>10

LEMMA DispatchInv ==
  ASSUME TrailConstants, TrailInv, NEW w \in Worker, NEW e \in Entry, Dispatch(w, e)
  PROVE  TrailInv'
<1> USE DEF TrailConstants
<1>0. TrailTyped /\ InLine /\ Offered /\ \A s \in SinkNo : Written(s) BY DEF TrailInv
<1>1. /\ worker[w] = NoEntry /\ e \notin Seen /\ worker' = [worker EXCEPT ![w] = e]
      /\ UNCHANGED <<hand, table, out, errors, lost>>
  BY DEF Dispatch
<1>2. /\ Len(sent) \in Nat /\ Len(channel) \in Nat /\ DOMAIN sent = 1..Len(sent)
      /\ \A i \in 1..Len(sent) : sent[i] \in Entry
      /\ IsFiniteSet(Seen \ {NoEntry}) /\ Cardinality(Seen \ {NoEntry}) \in Nat
  BY <1>0, TrailFacts
<1>3. worker' \in [Worker -> Entry \cup {NoEntry}] /\ {worker'[v] : v \in Worker} \ {NoEntry}
                     = ({worker[v] : v \in Worker} \ {NoEntry}) \cup {e}
  BY <1>0, <1>1 DEF TrailTyped
<1>4. ASSUME sent' = sent \/ sent' = Append(sent, e)
      PROVE  Cardinality(Seen \ {NoEntry})' = Cardinality(Seen \ {NoEntry}) + 1
  <2>1. ToSet(sent') \cup {e} = ToSet(sent) \cup {e}
    <3>1. sent \in Seq(Entry) BY <1>0 DEF TrailTyped
    <3>2. ToSet(Append(sent, e)) = ToSet(sent) \cup {e} BY <3>1, ToSetOfAppend
    <3> QED BY <1>4, <3>2
  <2>2. (Seen \ {NoEntry})' = (Seen \ {NoEntry}) \cup {e} /\ e \notin Seen \ {NoEntry}
    BY <1>1, <1>3, <2>1 DEF Seen
  <2>3. Cardinality((Seen \ {NoEntry}) \cup {e}) = Cardinality(Seen \ {NoEntry}) + 1
    BY <1>2, <2>2, FS_AddElement
  <2> QED BY <2>2, <2>3
<1>5. CASE Sinks = <<>> /\ UNCHANGED <<channel, sent, refused>>
  <2>0. UNCHANGED <<channel, sent, refused>> BY <1>5
  <2>1. TrailTyped' BY <1>0, <1>1, <1>3, <2>0 DEF TrailTyped
  <2>2. InLine' BY <1>0, <1>1, <2>0 DEF InLine, Past, InHand
  <2>3. ASSUME NEW s \in SinkNo PROVE Written(s)'
    <3>1. Coming(s)' = Coming(s) BY <1>1, <2>0 DEF Coming
    <3>2. Written(s) BY <1>0
    <3> QED BY <1>1, <2>0, <3>1, <3>2 DEF Written
  <2> QED BY <1>5, <2>1, <2>2, <2>3 DEF TrailInv, Offered
<1>6. CASE Sinks # <<>> /\ channel' = Append(channel, e) /\ sent' = Append(sent, e) /\ UNCHANGED refused
  <2>1. /\ channel \in Seq(Entry) /\ sent \in Seq(Entry)
        /\ channel' \in Seq(Entry) /\ sent' \in Seq(Entry)
        /\ Len(sent') = Len(sent) + 1 /\ Len(channel') = Len(channel) + 1
        /\ sent'[Len(sent) + 1] = e /\ channel'[Len(channel) + 1] = e
        /\ \A i \in 1..Len(sent) : sent'[i] = sent[i]
        /\ \A i \in 1..Len(channel) : channel'[i] = channel[i]
    BY <1>0, <1>6 DEF TrailTyped
  <2>2. TrailTyped' BY <1>0, <1>1, <1>3, <1>6, <2>1 DEF TrailTyped
  <2>3. InHand' = InHand /\ InHand \in Nat /\ Past' = Past
    BY <1>1, <1>2, <2>1 DEF InHand, Past
  <2>4. \A i \in 1..Len(sent) : sent[i] # e BY <1>1, <1>2 DEF Seen, ToSet
  <2>5. InLine'
    <3>1. \A i, j \in 1..Len(sent') : sent'[i] = sent'[j] => i = j
      <4>1. \A i \in 1..Len(sent') : i \in 1..Len(sent) \/ i = Len(sent) + 1 BY <1>2, <2>1
      <4>2. \A i, j \in 1..Len(sent) : sent[i] = sent[j] => i = j BY <1>0 DEF InLine
      <4> QED BY <2>1, <2>4, <4>1, <4>2
    <3>2. \A i \in 1..Len(channel') : channel'[i] = sent'[Len(sent') - Len(channel') + i]
      <4> TAKE i \in 1..Len(channel')
      <4>1. CASE i \in 1..Len(channel)
        <5>1. Len(sent) - Len(channel) + i \in 1..Len(sent)
              /\ Len(sent') - Len(channel') + i = Len(sent) - Len(channel) + i
          BY <1>0, <1>2, <2>1, <2>3, <4>1 DEF InLine, Past
        <5> QED BY <1>0, <2>1, <4>1, <5>1 DEF InLine
      <4>2. CASE i = Len(channel) + 1
        <5>1. Len(sent') - Len(channel') + i = Len(sent) + 1 BY <1>2, <2>1, <4>2
        <5> QED BY <2>1, <4>2, <5>1
      <4> QED BY <1>2, <2>1, <4>1, <4>2
    <3>3. hand' # NoEntry => hand'.entry = sent'[Len(sent') - Len(channel')]
      <4>1. hand # NoEntry => Len(sent) - Len(channel) \in 1..Len(sent)
        BY <1>0, <1>2 DEF InLine, Past, InHand
      <4>2. Len(sent') - Len(channel') = Len(sent) - Len(channel) BY <1>2, <2>1
      <4> QED BY <1>0, <1>1, <2>1, <4>1, <4>2 DEF InLine
    <3>4. \A i \in 1..Past : i \in 1..Len(sent)
      BY <1>0, <1>2, <2>3 DEF InLine, Past
    <3>5. lost'.channel \subseteq {sent'[i] : i \in 1..Past'}
      <4>1. lost'.channel \subseteq {sent[i] : i \in 1..Past} BY <1>0, <1>1 DEF InLine
      <4>2. \A i \in 1..Past : sent'[i] = sent[i] BY <2>1, <3>4
      <4> QED BY <2>3, <4>1, <4>2
    <3> QED BY <1>0, <1>6, <2>3, <3>1, <3>2, <3>3, <3>5 DEF InLine
  <2>6. ASSUME NEW s \in SinkNo
        PROVE  Written(s)'
    <3>1. /\ Coming(s)' = Coming(s) + 1 /\ out'[s] = out[s] /\ errors'[s] = errors[s]
          /\ Len(out[s]) \in Nat /\ errors[s] \in Nat /\ Coming(s) \in Nat
          /\ Cardinality(lost.channel) \in Nat
      BY <1>0, <1>1, <1>2, <2>1, TrailFacts DEF Coming
    <3>2. /\ Len(sent') - Coming(s)' = Len(sent) - Coming(s)
          /\ \A k \in 1..Len(sent) - Coming(s) : k \in 1..Len(sent)
      BY <1>1, <1>2, <2>1, <3>1 DEF Coming
    <3>3. Written(s) /\ lost' = lost BY <1>0, <1>1
    <3>4. /\ Len(out'[s]) + errors'[s] + Coming(s)' <= Len(sent')
          /\ Len(sent') <= Len(out'[s]) + errors'[s] + Coming(s)' + Cardinality(lost'.channel)
      <4>1. /\ Len(out[s]) + errors[s] + Coming(s) <= Len(sent)
            /\ Len(sent) <= Len(out[s]) + errors[s] + Coming(s) + Cardinality(lost.channel)
        BY <3>3 DEF Written
      <4>2. Len(sent') = Len(sent) + 1 /\ Len(sent) \in Nat BY <1>2, <2>1
      <4> QED BY <3>1, <3>3, <4>1, <4>2
    <3>5. \A k \in 1..Len(sent) - Coming(s) : sent'[k] = sent[k] BY <2>1, <3>2
    <3>6. FollowsLine(out[s], sent, Len(sent) - Coming(s)) BY <3>3 DEF Written
    <3>7. FollowsLine(out[s], sent', Len(sent) - Coming(s))
      <4>1. Len(sent) - Coming(s) \in Int /\ Len(sent) - Coming(s) <= Len(sent) - Coming(s)
        BY <1>2, <3>1
      <4> QED BY <3>5, <3>6, <4>1, LineMayGrow
    <3>8. FollowsLine(out'[s], sent', Len(sent') - Coming(s)') BY <3>1, <3>2, <3>7
    <3> QED BY <3>4, <3>8 DEF Written
  <2>7. Offered'
    BY <1>0, <1>2, <1>4, <1>6, <2>1 DEF Offered, TrailTyped
  <2> QED BY <2>2, <2>5, <2>6, <2>7 DEF TrailInv
<1>7. CASE Sinks # <<>> /\ refused' = refused + 1 /\ UNCHANGED <<channel, sent>>
  <2>1. TrailTyped' BY <1>0, <1>1, <1>3, <1>7 DEF TrailTyped
  <2>2. InLine' BY <1>0, <1>1, <1>7 DEF InLine, Past, InHand
  <2>3. ASSUME NEW s \in SinkNo PROVE Written(s)'
    <3>1. Coming(s)' = Coming(s) /\ Written(s) BY <1>0, <1>1, <1>7 DEF Coming
    <3> QED BY <1>1, <1>7, <3>1 DEF Written
  <2>4. Offered' BY <1>0, <1>2, <1>4, <1>7 DEF Offered, TrailTyped
  <2> QED BY <2>1, <2>2, <2>3, <2>4 DEF TrailInv
<1> QED BY <1>5, <1>6, <1>7 DEF Dispatch

LEMMA InsertRowInv ==
  ASSUME TrailConstants, TrailInv, NEW w \in Worker, InsertRow(w)
  PROVE  TrailInv'
<1> USE DEF TrailConstants
<1>0. TrailTyped /\ InLine /\ Offered /\ \A s \in SinkNo : Written(s) BY DEF TrailInv
<1>1. /\ worker[w] # NoEntry /\ worker' = [worker EXCEPT ![w] = NoEntry] /\ worker[w] \in Entry
      /\ UNCHANGED <<channel, hand, out, sent, refused>>
  BY <1>0 DEF InsertRow, TrailTyped
<1>2. worker' \in [Worker -> Entry \cup {NoEntry}] /\ ({worker'[v] : v \in Worker} \ {NoEntry}) \cup {worker[w]}
                     = {worker[v] : v \in Worker} \ {NoEntry}
                          \* another worker may log the same entry
  BY <1>0, <1>1 DEF TrailTyped
<1>3. InLine' /\ \A s \in SinkNo : Written(s)'
  <2>1. lost'.channel = lost.channel /\ \A s \in SinkNo : errors'[s] = errors[s]
    <3>1. \A s \in SinkNo : s # 0 /\ s \in Places BY DEF SinkNo, Places
    <3> QED BY <1>0, <3>1 DEF InsertRow, TrailTyped
  <2>2. Past' = Past /\ lost'.channel = lost.channel BY <1>1, <2>1 DEF Past, InHand
  <2>3. InLine' BY <1>0, <1>1, <2>2 DEF InLine
  <2>4. ASSUME NEW s \in SinkNo PROVE Written(s)'
    <3>1. Coming(s)' = Coming(s) BY <1>1 DEF Coming
    <3>2. Written(s) BY <1>0
    <3> QED BY <1>1, <2>1, <3>1, <3>2 DEF Written
  <2> QED BY <2>3, <2>4
<1>4. CASE table' = Append(table, worker[w]) /\ UNCHANGED <<errors, lost>>
  <2>1. table \in Seq(Entry) /\ table' \in Seq(Entry) BY <1>0, <1>1, <1>4 DEF TrailTyped
  <2>2. ToSet(table') = ToSet(table) \cup {worker[w]} BY <1>1, <1>4, <2>1, ToSetOfAppend
  <2>3. (Seen \ {NoEntry})' = Seen \ {NoEntry} BY <1>1, <1>2, <1>4, <2>2 DEF Seen
  <2>4. TrailTyped' BY <1>0, <1>1, <1>2, <1>4, <2>1 DEF TrailTyped
  <2> QED BY <1>0, <1>1, <1>3, <2>3, <2>4 DEF TrailInv, Offered
<1>5. CASE /\ errors' = [errors EXCEPT ![0] = @ + 1]
           /\ lost' = [lost EXCEPT !.table = @ \cup {worker[w]}] /\ UNCHANGED table
  <2>1. lost' \in [channel: SUBSET Entry, table: SUBSET Entry]
        /\ lost'.table = lost.table \cup {worker[w]}
    BY <1>0, <1>1, <1>5 DEF TrailTyped
  <2>2. errors' \in [Places -> Nat] BY <1>0, <1>5 DEF TrailTyped, Places
  <2>3. (Seen \ {NoEntry})' = Seen \ {NoEntry} BY <1>1, <1>2, <1>5, <2>1 DEF Seen
  <2>4. TrailTyped' BY <1>0, <1>1, <1>2, <1>5, <2>1, <2>2 DEF TrailTyped
  <2> QED BY <1>0, <1>1, <1>3, <2>3, <2>4 DEF TrailInv, Offered
<1> QED BY <1>4, <1>5 DEF InsertRow

LEMMA ReceiveInv ==
  ASSUME TrailConstants, TrailInv, Receive
  PROVE  TrailInv'
<1> USE DEF TrailConstants
<1>0. TrailTyped /\ InLine /\ Offered /\ \A s \in SinkNo : Written(s) BY DEF TrailInv
<1> DEFINE new == [entry |-> Head(channel), at |-> 1]
<1>1. /\ hand = NoEntry /\ channel # <<>> /\ channel \in Seq(Entry)
      /\ hand' = new /\ channel' = Tail(channel)
      /\ UNCHANGED <<table, out, worker, sent, refused, errors, lost>>
  BY <1>0 DEF Receive, TrailTyped
<1>2. /\ Len(sent) \in Nat /\ Len(channel) \in Nat
      /\ SinkNo = 1..Len(Sinks) /\ Len(Sinks) \in Nat
      /\ \A i \in 1..Len(channel) : channel[i] \in Entry
  BY <1>0, TrailFacts
<1>3. /\ Len(channel) > 0 /\ Len(channel') = Len(channel) - 1 /\ channel' \in Seq(Entry)
      /\ Head(channel) = channel[1] /\ \A i \in 1..Len(channel') : channel'[i] = channel[i + 1]
  BY <1>1
\* A channel that holds something has sinks behind it.
<1>4. 1 \in SinkNo
  <2>1. Len(channel) <= Len(sent) BY <1>0, <1>1, <1>2 DEF InLine, Past, InHand
  <2>2. Sinks # <<>> BY <1>0, <1>2, <1>3, <2>1 DEF InLine
  <2> QED BY <1>2, <2>2
<1>5. new \in [entry: Entry, at: SinkNo] /\ new # NoEntry /\ new.entry = channel[1] /\ new.at = 1
  BY <1>2, <1>3, <1>4
<1> HIDE DEF new
<1>6. TrailTyped' BY <1>0, <1>1, <1>3, <1>5 DEF TrailTyped
<1>7. InHand' = 1 /\ InHand = 0 /\ Past' = Past
  BY <1>1, <1>2, <1>3, <1>5 DEF InHand, Past
<1>8. InLine'
  <2>1. \A i \in 1..Len(channel') : channel'[i] = sent'[Len(sent') - Len(channel') + i]
    <3> TAKE i \in 1..Len(channel')
    <3>1. i + 1 \in 1..Len(channel) /\ Len(sent') - Len(channel') + i = Len(sent) - Len(channel) + (i + 1)
      BY <1>1, <1>2, <1>3
    <3> QED BY <1>0, <1>1, <1>3, <3>1 DEF InLine
  <2>2. hand'.entry = sent'[Len(sent') - Len(channel')]
    <3>1. 1 \in 1..Len(channel) /\ Len(sent') - Len(channel') = Len(sent) - Len(channel) + 1
      BY <1>1, <1>2, <1>3
    <3> QED BY <1>0, <1>1, <1>5, <3>1 DEF InLine
  <2> QED BY <1>0, <1>1, <1>7, <2>1, <2>2 DEF InLine
<1>9. ASSUME NEW s \in SinkNo PROVE Written(s)'
  <2>1. Coming(s)' = Coming(s) BY <1>1, <1>2, <1>3, <1>5 DEF Coming
  <2>2. Written(s) BY <1>0
  <2> QED BY <1>1, <2>1, <2>2 DEF Written
<1>10. Offered' BY <1>0, <1>1 DEF Offered, Seen
<1> QED BY <1>6, <1>8, <1>9, <1>10 DEF TrailInv

LEMMA WriteSinkInv ==
  ASSUME TrailConstants, TrailInv, WriteSink
  PROVE  TrailInv'
<1> USE DEF TrailConstants
<1>0. TrailTyped /\ InLine /\ Offered /\ \A s \in SinkNo : Written(s) BY DEF TrailInv
<1>1. /\ hand # NoEntry /\ hand \in [entry: Entry, at: SinkNo]
      /\ UNCHANGED <<channel, table, worker, sent, refused, lost>>
  BY <1>0 DEF WriteSink, TrailTyped
<1>2. PICK n : n = hand.at OBVIOUS
<1>3. /\ n \in 1..Len(Sinks) /\ SinkNo = 1..Len(Sinks) /\ Len(Sinks) \in Nat /\ hand.entry \in Entry
      /\ Len(sent) \in Nat /\ Len(channel) \in Nat /\ n \in SinkNo
  BY <1>0, <1>1, <1>2, TrailFacts
<1>4. hand' = IF n = Len(Sinks) THEN NoEntry ELSE [hand EXCEPT !.at = n + 1]
  BY <1>2 DEF WriteSink
<1>5. /\ hand' \in [entry: Entry, at: SinkNo] \cup {NoEntry}
      /\ hand' = NoEntry <=> n = Len(Sinks)
      /\ hand' # NoEntry => hand'.at = n + 1 /\ hand'.entry = hand.entry
  BY <1>1, <1>3, <1>4
<1>6. InLine'
  <2>1. Past' \in Nat /\ \A i \in 1..Past : i \in 1..Past'
    BY <1>0, <1>1, <1>3 DEF InLine, Past, InHand
  <2>2. hand' # NoEntry => hand'.entry = sent'[Len(sent') - Len(channel')]
    BY <1>0, <1>1, <1>5 DEF InLine
  <2>3. lost'.channel \subseteq {sent'[i] : i \in 1..Past'}
    <3>1. lost.channel \subseteq {sent[i] : i \in 1..Past} BY <1>0 DEF InLine
    <3>2. sent' = sent /\ lost'.channel = lost.channel BY <1>1
    <3> QED BY <2>1, <3>1, <3>2
  <2>4. /\ \A i, j \in 1..Len(sent') : sent'[i] = sent'[j] => i = j
        /\ \A i \in 1..Len(channel') : channel'[i] = sent'[Len(sent') - Len(channel') + i]
        /\ Sinks = <<>> => Len(sent') = 0
    BY <1>0, <1>1 DEF InLine
  <2> QED BY <2>1, <2>2, <2>3, <2>4 DEF InLine
<1>7. \A s \in SinkNo : Coming(s)' = IF s = n THEN Coming(s) - 1 ELSE Coming(s)
  BY <1>1, <1>2, <1>3, <1>5 DEF Coming
<1>8. Coming(n) = Len(channel) + 1 /\ Coming(n) \in Nat /\ Coming(n)' = Coming(n) - 1
  BY <1>1, <1>2, <1>3, <1>7 DEF Coming
<1>9. Offered' BY <1>0, <1>1 DEF Offered, Seen
<1>10. /\ Written(n) /\ Len(out[n]) \in Nat /\ errors[n] \in Nat /\ out[n] \in Seq(Entry)
       /\ Cardinality(lost.channel) \in Nat
  BY <1>0, <1>3, TrailFacts
<1>11. CASE out' = [out EXCEPT ![n] = Append(@, hand.entry)] /\ UNCHANGED errors
  <2>1. out' \in [SinkNo -> Seq(Entry)] /\ \A s \in SinkNo \ {n} : out'[s] = out[s]
    BY <1>0, <1>3, <1>11 DEF TrailTyped
  <2>2. TrailTyped' BY <1>0, <1>1, <1>5, <1>11, <2>1 DEF TrailTyped
  <2>3. /\ Len(out'[n]) = Len(out[n]) + 1 /\ out'[n][Len(out[n]) + 1] = hand.entry
        /\ \A i \in 1..Len(out[n]) : out'[n][i] = out[n][i]
    BY <1>0, <1>3, <1>10, <1>11 DEF TrailTyped
  <2>4. Written(n)'
    <3>1. PICK p : p = Len(sent) - Len(channel) OBVIOUS
    <3>2. /\ p \in 1..Len(sent) /\ sent[p] = hand.entry
          /\ Len(sent') - Coming(n)' = p /\ Len(sent) - Coming(n) = p - 1
      BY <1>0, <1>1, <1>3, <1>7, <1>8, <3>1 DEF InLine, Past, InHand
    <3>3. /\ Len(out'[n]) + errors'[n] + Coming(n)' <= Len(sent')
          /\ Len(sent') <= Len(out'[n]) + errors'[n] + Coming(n)' + Cardinality(lost'.channel)
      <4>1. Len(sent') = Len(sent) /\ lost'.channel = lost.channel BY <1>1
      <4>2. /\ Len(out[n]) + errors[n] + Coming(n) <= Len(sent)
            /\ Len(sent) <= Len(out[n]) + errors[n] + Coming(n) + Cardinality(lost.channel)
        BY <1>10 DEF Written
      <4>3. Len(out'[n]) + errors'[n] = Len(out[n]) + errors[n] + 1
        <5>1. Len(out'[n]) = Len(out[n]) + 1 BY <2>3
        <5>2. errors' = errors BY <1>11
        <5>3. Len(out[n]) \in Nat /\ errors[n] \in Nat BY <1>10
        <5> HIDE DEF TrailConstants
        <5> QED BY <5>1, <5>2, <5>3
      <4> QED BY <1>3, <1>8, <1>10, <4>1, <4>2, <4>3
    <3>4. FollowsLine(out[n], sent, p - 1) BY <1>10, <3>2 DEF Written
    <3>5. p \in Nat \ {0} /\ sent[p] \in Entry BY <1>3, <3>2
    <3>6. FollowsLine(Append(out[n], sent[p]), sent, p) BY <1>10, <3>4, <3>5, LineMayAdvance
    <3>7. out'[n] = Append(out[n], sent[p]) BY <1>0, <1>3, <1>11, <3>2 DEF TrailTyped
    <3>8. FollowsLine(out'[n], sent', Len(sent') - Coming(n)') BY <1>1, <3>2, <3>6, <3>7
    <3> QED BY <3>3, <3>8 DEF Written
  <2>5. ASSUME NEW s \in SinkNo \ {n} PROVE Written(s)'
    <3>1. Written(s) /\ Coming(s)' = Coming(s) BY <1>0, <1>7
    <3> QED BY <1>1, <1>11, <2>1, <3>1 DEF Written
  <2> QED BY <1>6, <1>9, <2>2, <2>4, <2>5 DEF TrailInv
<1>12. CASE errors' = [errors EXCEPT ![n] = @ + 1] /\ UNCHANGED out
  <2>1. /\ errors' \in [Places -> Nat] /\ \A s \in SinkNo \ {n} : errors'[s] = errors[s]
        /\ errors'[n] = errors[n] + 1
    BY <1>0, <1>3, <1>12 DEF TrailTyped, Places
  <2>2. TrailTyped' BY <1>0, <1>1, <1>5, <1>12, <2>1 DEF TrailTyped
  <2>3. Written(n)'
    <3>1. /\ Len(out'[n]) + errors'[n] + Coming(n)' <= Len(sent')
          /\ Len(sent') <= Len(out'[n]) + errors'[n] + Coming(n)' + Cardinality(lost'.channel)
      <4>1. Len(sent') = Len(sent) /\ lost'.channel = lost.channel BY <1>1
      <4>2. /\ Len(out[n]) + errors[n] + Coming(n) <= Len(sent)
            /\ Len(sent) <= Len(out[n]) + errors[n] + Coming(n) + Cardinality(lost.channel)
        BY <1>10 DEF Written
      <4>3. Len(out'[n]) + errors'[n] = Len(out[n]) + errors[n] + 1 BY <1>10, <1>12, <2>1
      <4> QED BY <1>3, <1>8, <1>10, <4>1, <4>2, <4>3
    <3>2. /\ Len(sent) - Coming(n) \in Int /\ Len(sent') - Coming(n)' \in Int
          /\ Len(sent) - Coming(n) <= Len(sent') - Coming(n)'
      BY <1>1, <1>3, <1>7, <1>8
    <3>3. FollowsLine(out[n], sent, Len(sent) - Coming(n)) BY <1>10 DEF Written
    <3>4. FollowsLine(out[n], sent, Len(sent') - Coming(n)') BY <3>2, <3>3, LineMayGrow
    <3>5. FollowsLine(out'[n], sent', Len(sent') - Coming(n)') BY <1>1, <1>12, <3>4
    <3> QED BY <3>1, <3>5 DEF Written
  <2>4. ASSUME NEW s \in SinkNo \ {n} PROVE Written(s)'
    <3>1. Written(s) /\ Coming(s)' = Coming(s) BY <1>0, <1>7
    <3> QED BY <1>1, <1>12, <2>1, <3>1 DEF Written
  <2> QED BY <1>6, <1>9, <2>2, <2>3, <2>4 DEF TrailInv
<1> QED BY <1>2, <1>11, <1>12 DEF WriteSink

LEMMA TrailCrashInv ==
  ASSUME TrailConstants, TrailInv, TrailCrash
  PROVE  TrailInv'
<1> USE DEF TrailConstants
<1>0. TrailTyped /\ InLine /\ Offered /\ \A s \in SinkNo : Written(s) BY DEF TrailInv
<1> DEFINE dropped == ToSet(channel) \cup (IF hand = NoEntry THEN {} ELSE {hand.entry})
<1>1. /\ channel' = <<>> /\ hand' = NoEntry /\ worker' = [w \in Worker |-> NoEntry]
      /\ lost' = [channel |-> lost.channel \cup ToSet(channel)
                                 \cup (IF hand = NoEntry THEN {} ELSE {hand.entry}),
                  table |-> lost.table \cup ({worker[w] : w \in Worker} \ {NoEntry})]
      /\ UNCHANGED <<table, out, sent, refused, errors>>
  BY DEF TrailCrash
<1>2. lost'.channel = lost.channel \cup dropped
      /\ lost'.table = lost.table \cup ({worker[w] : w \in Worker} \ {NoEntry})
  BY <1>1
<1> HIDE DEF dropped
<1>3. /\ Len(sent) \in Nat /\ Len(channel) \in Nat /\ DOMAIN channel = 1..Len(channel)
      /\ \A i \in 1..Len(sent) : sent[i] \in Entry
      /\ IsFiniteSet(lost.channel) /\ Cardinality(lost.channel) \in Nat
      /\ sent \in Seq(Entry) /\ Past \in Nat /\ InHand \in Nat
  BY <1>0, TrailFacts DEF TrailTyped, InLine, InHand
<1>4. PICK p : p = Past OBVIOUS
<1>5. p \in Nat /\ p <= Len(sent) /\ Len(sent) - p = Len(channel) + InHand
  BY <1>3, <1>4 DEF Past
<1>6. dropped = {sent[i] : i \in p + 1..Len(sent)}
  <2>1. ASSUME NEW i \in p + 1..Len(sent)
        PROVE  sent[i] \in dropped
    <3>1. CASE i - (Len(sent) - Len(channel)) \in 1..Len(channel)
      <4>1. channel[i - (Len(sent) - Len(channel))] = sent[i]
        <5>1. Len(sent) - Len(channel) + (i - (Len(sent) - Len(channel))) = i BY <1>3
        <5> QED BY <1>0, <3>1, <5>1 DEF InLine
      <4> QED BY <1>3, <3>1, <4>1 DEF dropped, ToSet
    <3>2. CASE ~(i - (Len(sent) - Len(channel)) \in 1..Len(channel))
      <4>1. hand # NoEntry /\ i = Len(sent) - Len(channel) BY <1>3, <1>5, <3>2 DEF InHand
      <4> QED BY <1>0, <4>1 DEF InLine, dropped
    <3> QED BY <3>1, <3>2
  <2>2. ASSUME NEW i \in 1..Len(channel)
        PROVE  channel[i] \in {sent[j] : j \in p + 1..Len(sent)}
    <3>1. Len(sent) - Len(channel) + i \in p + 1..Len(sent) BY <1>3, <1>5 DEF InHand
    <3> QED BY <1>0, <3>1 DEF InLine
  <2>3. hand # NoEntry => hand.entry \in {sent[j] : j \in p + 1..Len(sent)}
    <3>1. hand # NoEntry => Len(sent) - Len(channel) \in p + 1..Len(sent)
      BY <1>3, <1>5 DEF InHand
    <3> QED BY <1>0, <3>1 DEF InLine
  <2>4. dropped \subseteq {sent[j] : j \in p + 1..Len(sent)}
    BY <1>3, <2>2, <2>3 DEF dropped, ToSet
  <2> QED BY <2>1, <2>4
<1>7. IsFiniteSet(dropped) /\ Cardinality(dropped) = Len(sent) - p
  <2>1. \A i, j \in 1..Len(sent) : sent[i] = sent[j] => i = j BY <1>0 DEF InLine
  <2>2. Len(sent) <= Len(sent) BY <1>3
  <2>3. \A x : x \in dropped <=> \E i \in p + 1..Len(sent) : sent[i] = x BY <1>6
  <2>4. IsFiniteSet(Entry) /\ sent \in Seq(Entry) /\ p \in Nat /\ Len(sent) \in Nat /\ p <= Len(sent)
    BY <1>3, <1>5
  <2> QED BY <2>1, <2>2, <2>3, <2>4, StretchIsCounted
<1>8. lost.channel \cap dropped = {}
  <2>1. lost.channel \subseteq {sent[i] : i \in 1..p} BY <1>0, <1>4 DEF InLine
  <2>2. \A i \in 1..p, j \in p + 1..Len(sent) : sent[i] # sent[j]
    <3>1. \A i \in 1..p, j \in p + 1..Len(sent) :
            i \in 1..Len(sent) /\ j \in 1..Len(sent) /\ i # j
      BY <1>3, <1>5
    <3> QED BY <1>0, <3>1 DEF InLine
  <2> QED BY <1>6, <2>1, <2>2
<1>9. Cardinality(lost'.channel) = Cardinality(lost.channel) + (Len(channel) + InHand)
  <2>1. Cardinality(lost.channel \cup dropped)
          = Cardinality(lost.channel) + Cardinality(dropped) - Cardinality(lost.channel \cap dropped)
    BY <1>3, <1>7, FS_Union
  <2>2. Cardinality(lost.channel \cap dropped) = 0 BY <1>8, FS_EmptySet
  <2> QED BY <1>2, <1>3, <1>5, <1>7, <2>1, <2>2
<1>10. dropped \subseteq Entry
  <2>1. \A i \in p + 1..Len(sent) : i \in 1..Len(sent) BY <1>3, <1>5
  <2> QED BY <1>3, <1>6, <2>1
<1>11. TrailTyped'
  <2>1. lost' \in [channel: SUBSET Entry, table: SUBSET Entry]
    BY <1>0, <1>1, <1>2, <1>10 DEF TrailTyped
  <2>2. worker' \in [Worker -> Entry \cup {NoEntry}] BY <1>1
  <2>3. channel' \in Seq(Entry) BY <1>1
  <2> QED BY <1>0, <1>1, <2>1, <2>2, <2>3 DEF TrailTyped
<1>12. Len(channel') = 0 /\ InHand' = 0 /\ Past' = Len(sent)
  BY <1>1, <1>3 DEF InHand, Past
<1>13. InLine'
  <2>1. lost'.channel \subseteq {sent[i] : i \in 1..Len(sent)}
    <3>1. lost.channel \subseteq {sent[i] : i \in 1..p} BY <1>0, <1>4 DEF InLine
    <3>2. \A i \in 1..p : i \in 1..Len(sent) BY <1>3, <1>5
    <3>3. \A i \in p + 1..Len(sent) : i \in 1..Len(sent) BY <1>3, <1>5
    <3> QED BY <1>2, <1>6, <3>1, <3>2, <3>3
  <2>2. Past' \in Nat /\ lost'.channel \subseteq {sent'[i] : i \in 1..Past'}
    <3>1. {sent'[i] : i \in 1..Past'} = {sent[i] : i \in 1..Len(sent)} BY <1>1, <1>12
    <3> QED BY <1>3, <1>12, <2>1, <3>1
  <2>3. \A i \in 1..Len(channel') : FALSE BY <1>12
  <2> QED BY <1>0, <1>1, <2>2, <2>3 DEF InLine
<1>14. (Seen \ {NoEntry})' = Seen \ {NoEntry}
  <2>1. {worker'[w] : w \in Worker} \ {NoEntry} = {} BY <1>1
  <2> QED BY <1>1, <1>2, <2>1 DEF Seen
<1>15. Offered' BY <1>0, <1>1, <1>14 DEF Offered
<1>16. ASSUME NEW s \in SinkNo PROVE Written(s)'
  <2>1. /\ Written(s) /\ Len(out[s]) \in Nat /\ errors[s] \in Nat
    BY <1>0, TrailFacts
  <2>2. PICK c : c = Coming(s) OBVIOUS
  <2>3. c \in Nat /\ c <= Len(channel) + InHand
    <3>1. CASE hand = NoEntry BY <1>3, <2>2, <3>1 DEF Coming, InHand
    <3>2. CASE hand # NoEntry /\ hand.at <= s BY <1>3, <2>2, <3>2 DEF Coming, InHand
    <3>3. CASE hand # NoEntry /\ ~(hand.at <= s) BY <1>3, <2>2, <3>3 DEF Coming, InHand
    <3> QED BY <3>1, <3>2, <3>3
  <2>4. Coming(s)' = 0 BY <1>1, <1>12 DEF Coming
  <2>5. /\ Len(out[s]) + errors[s] + c <= Len(sent)
        /\ Len(sent) <= Len(out[s]) + errors[s] + c + Cardinality(lost.channel)
        /\ FollowsLine(out[s], sent, Len(sent) - c)
    BY <2>1, <2>2 DEF Written
  <2>6. /\ Len(out'[s]) + errors'[s] + Coming(s)' <= Len(sent')
        /\ Len(sent') <= Len(out'[s]) + errors'[s] + Coming(s)' + Cardinality(lost'.channel)
    BY <1>1, <1>3, <1>9, <2>1, <2>3, <2>4, <2>5
  <2>7. Len(sent) - c \in Int /\ Len(sent) - 0 \in Int /\ Len(sent) - c <= Len(sent) - 0
    BY <1>3, <2>3
  <2>8. FollowsLine(out[s], sent, Len(sent) - 0) BY <2>5, <2>7, LineMayGrow
  <2>9. FollowsLine(out'[s], sent', Len(sent') - Coming(s)') BY <1>1, <2>4, <2>8
  <2> QED BY <2>6, <2>9 DEF Written
<1> QED BY <1>11, <1>13, <1>15, <1>16 DEF TrailInv

LEMMA TrailStepInv ==
  ASSUME TrailConstants, TrailInv, [TrailNext]_trailVars
  PROVE  TrailInv'
<1>1. CASE TrailNext
  BY <1>1, DispatchInv, InsertRowInv, ReceiveInv, WriteSinkInv, TrailCrashInv DEF TrailNext
<1>2. CASE UNCHANGED trailVars
  <2>1. TrailTyped' /\ InLine' /\ Offered'
    BY <1>2 DEF trailVars, TrailInv, TrailTyped, InLine, Past, InHand, Offered, Seen
  <2>2. ASSUME NEW s \in SinkNo PROVE Written(s)'
    <3>1. UNCHANGED <<channel, hand, out, sent, errors, lost>> BY <1>2 DEF trailVars
    <3>2. Coming(s)' = Coming(s) BY <3>1 DEF Coming
    <3>3. Written(s) BY DEF TrailInv
    <3> QED BY <3>1, <3>2, <3>3 DEF Written
  <2> QED BY <2>1, <2>2 DEF TrailInv
<1> QED BY <1>1, <1>2

LEMMA TrailInvMeans ==
  ASSUME TrailConstants, TrailInv
  PROVE  LossIsCounted
<1>1. TrailTyped /\ Offered /\ \A s \in SinkNo : Written(s) BY DEF TrailInv
<1>2. Sinks # <<>> => Len(sent) + refused = Cardinality(Seen \ {NoEntry}) BY <1>1 DEF Offered
<1>3. ASSUME NEW s \in SinkNo
      PROVE  /\ Len(out[s]) + errors[s] + Coming(s) <= Len(sent)
             /\ Len(sent) <= Len(out[s]) + errors[s] + Coming(s) + Cardinality(lost.channel)
             /\ \A i, j \in DOMAIN out[s] : i < j =>
                  \E k, l \in DOMAIN sent : k < l /\ sent[k] = out[s][i] /\ sent[l] = out[s][j]
  <2>1. /\ DOMAIN out[s] = 1..Len(out[s]) /\ DOMAIN sent = 1..Len(sent)
        /\ Coming(s) \in Nat /\ Len(sent) \in Nat
    BY <1>1, TrailFacts
  <2>2. \A k \in 1..Len(sent) - Coming(s) : k \in 1..Len(sent) BY <2>1
  <2>3. Written(s) BY <1>1
  <2>4. FollowsLine(out[s], sent, Len(sent) - Coming(s)) BY <2>3 DEF Written
  <2>5. ASSUME NEW i \in 1..Len(out[s]), NEW j \in 1..Len(out[s]), i < j
        PROVE  \E k, l \in 1..Len(sent) : k < l /\ sent[k] = out[s][i] /\ sent[l] = out[s][j]
    <3>1. PICK k, l \in 1..Len(sent) - Coming(s) : k < l /\ sent[k] = out[s][i] /\ sent[l] = out[s][j]
      BY <2>4, <2>5 DEF FollowsLine
    <3> QED BY <2>2, <3>1
  <2>6. /\ Len(out[s]) + errors[s] + Coming(s) <= Len(sent)
        /\ Len(sent) <= Len(out[s]) + errors[s] + Coming(s) + Cardinality(lost.channel)
    BY <2>3 DEF Written
  <2>7. \A i, j \in DOMAIN out[s] : i < j =>
          \E k, l \in DOMAIN sent : k < l /\ sent[k] = out[s][i] /\ sent[l] = out[s][j]
    <3> TAKE i, j \in DOMAIN out[s]
    <3> HAVE i < j
    <3>2. i \in 1..Len(out[s]) /\ j \in 1..Len(out[s]) BY <2>1
    <3>1. PICK k, l \in 1..Len(sent) : k < l /\ sent[k] = out[s][i] /\ sent[l] = out[s][j]
      BY <2>5, <3>2
    <3> QED BY <2>1, <3>1
  <2> QED BY <2>6, <2>7
<1> QED BY <1>2, <1>3 DEF LossIsCounted

\* No copy of an audit entry is lost without a count: the channel took it or counted
\* it, and what it took is in a sink, on its way, counted as a failed write or was lost
\* with the process; no sink gets one twice or out of order, however writers, failures
\* and crashes interleave (middleware/audit_sink.rs, dispatch and spawn_audit_dispatcher).
THEOREM EveryLossIsCounted ==
  ASSUME TrailConstants
  PROVE  TrailSpec => []LossIsCounted
<1>1. TrailInit => TrailInv BY TrailInitInv
<1>2. TrailInv /\ [TrailNext]_trailVars => TrailInv' BY TrailStepInv
<1>3. TrailInv => LossIsCounted BY TrailInvMeans
<1> QED BY <1>1, <1>2, <1>3, PTL DEF TrailSpec

-----------------------------------------------------------------------------
(* The log store.                                                            *)
LogConstants ==
  /\ MaxEntries \in Nat \ {0} /\ MaxLogs \in Nat
  /\ Nil \notin Ingesting

Active(s) == ingest[s] # Nil
Writing(s) == Active(s) /\ ingest[s].step \in {"index", "push"}

\* A kept log has this id and this keyword.
Holds(x, k) == \E i \in DOMAIN logs : logs[i].id = x /\ k \in logs[i].words

Log == [id: 0..MaxLogs - 1, words: SUBSET Word]

LogTyped ==
  /\ nextId \in 0..MaxLogs /\ index \in [Word -> SUBSET (0..MaxLogs - 1)]
  /\ ingest \in [Source -> Ingesting \cup {Nil}] /\ met \in BOOLEAN
  /\ logs \in Seq(Log) /\ Len(logs) <= MaxEntries

\* An id is drawn once, and pushed once.
IdsAreOnce ==
  /\ \A i \in DOMAIN logs : logs[i].id < nextId
  /\ \A i, j \in DOMAIN logs : logs[i].id = logs[j].id => i = j
  /\ \A s \in Source : Writing(s) => /\ ingest[s].id < nextId
                                     /\ \A i \in DOMAIN logs : logs[i].id # ingest[s].id
  /\ \A s, t \in Source : Writing(s) /\ Writing(t) /\ ingest[s].id = ingest[t].id => s = t

\* The newest log is the last of the vector.
NewestIsLast == nextId > 0 => Len(logs) > 0 /\ logs[Len(logs)].id = nextId - 1

InOrder == \A i, j \in DOMAIN logs : i < j => logs[i].id < logs[j].id

\* The index while s indexes its log, before and after it is pushed.
IndexAhead(s) ==
  /\ ingest[s].id = nextId - 1
  /\ ingest[s].left \subseteq ingest[s].words /\ ingest[s].empty = {}
  /\ ingest[s].step = "push" => ingest[s].left = {}
  /\ \A k \in Word, x \in 0..MaxLogs - 1 :
       x \in index[k] <=> \/ Holds(x, k)
                          \/ x = ingest[s].id /\ k \in ingest[s].words \ ingest[s].left

\* The index while s takes dropped ids off it.
IndexBehind(s) ==
  /\ NewestIsLast
  /\ ingest[s].step = "remove" => ingest[s].left = {}
  /\ \A k \in Word, x \in 0..MaxLogs - 1 :
       Holds(x, k) <=> x \in index[k] /\ (k \in ingest[s].left => x >= ingest[s].cutoff)
  /\ \A k \in ingest[s].empty, x \in 0..MaxLogs - 1 : ~Holds(x, k)

\* Without an overlap one call is under way and the index follows it.
OneIngest ==
  ~met =>
    /\ \A s, t \in Source : Active(s) /\ Active(t) => s = t
    /\ InOrder
    /\ \A s \in Source : Writing(s) => IndexAhead(s)
    /\ \A s \in Source : Active(s) /\ ~Writing(s) => IndexBehind(s)
    /\ Quiet => /\ NewestIsLast
                /\ \A k \in Word, x \in 0..MaxLogs - 1 : x \in index[k] <=> Holds(x, k)

LogInv == LogTyped /\ IdsAreOnce /\ OneIngest

LEMMA LogInitInv ==
  ASSUME LogConstants, LogInit
  PROVE  LogInv
<1>1. LogTyped
  <2>1. index \in [Word -> SUBSET (0..MaxLogs - 1)] BY DEF LogInit
  <2>2. ingest \in [Source -> Ingesting \cup {Nil}] BY DEF LogInit
  <2>3. logs \in Seq(Log) /\ Len(logs) = 0 BY DEF LogInit
  <2>4. met \in BOOLEAN BY DEF LogInit
  <2> QED BY <2>1, <2>2, <2>3, <2>4 DEF LogTyped, LogConstants, LogInit
<1>2. IdsAreOnce BY DEF IdsAreOnce, LogInit, Writing, Active
<1>3. OneIngest BY DEF OneIngest, LogInit, Writing, Active, InOrder, NewestIsLast, Holds
<1> QED BY <1>1, <1>2, <1>3 DEF LogInv

LEMMA LogsAreLogs ==
  ASSUME LogConstants, LogTyped
  PROVE  /\ Len(logs) \in Nat /\ DOMAIN logs = 1..Len(logs)
         /\ \A i \in DOMAIN logs : logs[i] \in Log /\ logs[i].id \in Nat
<1>1. logs \in Seq(Log) BY DEF LogTyped
<1>2. Len(logs) \in Nat /\ DOMAIN logs = 1..Len(logs) BY <1>1
<1>3. \A i \in 1..Len(logs) : logs[i] \in Log BY <1>1, ElementOfSeq
<1>4. \A l \in Log : l.id \in Nat BY DEF Log, LogConstants
<1> QED BY <1>2, <1>3, <1>4

LEMMA DrawInv ==
  ASSUME LogConstants, LogInv, NEW s \in Source, NEW words \in SUBSET Word, Draw(s, words)
  PROVE  LogInv'
<1> USE DEF LogConstants
<1>0. LogTyped /\ IdsAreOnce /\ OneIngest BY DEF LogInv
<1> DEFINE new == [step |-> "index", id |-> nextId, words |-> words, left |-> words,
                   empty |-> {}, cutoff |-> 0]
<1>1. /\ ingest[s] = Nil /\ nextId < MaxLogs /\ nextId' = nextId + 1
      /\ ingest' = [ingest EXCEPT ![s] = new]
      /\ UNCHANGED <<index, logs>>
      /\ met' = (met \/ \E t \in Source : ingest[t] # Nil)
  BY DEF Draw
<1>2. /\ new \in Ingesting /\ new # Nil /\ new.step = "index" /\ new.id = nextId
      /\ new.words = words /\ new.left = words /\ new.empty = {}
  BY <1>0, <1>1 DEF LogTyped, Ingesting
<1> HIDE DEF new
<1>3. LogTyped'
  <2>1. met' \in BOOLEAN BY <1>1
  <2>2. ingest' \in [Source -> Ingesting \cup {Nil}] BY <1>0, <1>1, <1>2 DEF LogTyped
  <2> QED BY <1>0, <1>1, <2>1, <2>2 DEF LogTyped
<1>4. /\ Writing(s)' /\ ingest'[s] = new
      /\ \A t \in Source \ {s} : ingest'[t] = ingest[t] /\ (Writing(t)' <=> Writing(t))
  BY <1>0, <1>1, <1>2 DEF Writing, Active, LogTyped
<1>5. IdsAreOnce'
  <2>1. \A i \in DOMAIN logs : logs[i].id \in Nat /\ logs[i].id < nextId
    BY <1>0, LogsAreLogs DEF IdsAreOnce
  <2>2. \A t \in Source \ {s} : Writing(t) =>
          ingest[t].id \in Nat /\ ingest[t].id < nextId /\ ingest'[t].id = ingest[t].id
    BY <1>0, <1>4 DEF LogTyped, IdsAreOnce, Writing, Active, Ingesting
  <2>3. nextId \in Nat BY <1>0 DEF LogTyped
  <2>4. ingest'[s].id = nextId BY <1>2, <1>4
  <2>5. \A i, j \in DOMAIN logs : logs[i].id = logs[j].id => i = j BY <1>0 DEF IdsAreOnce
  <2>6. \A t \in Source : Writing(t)' =>
          ingest'[t].id < nextId' /\ \A i \in DOMAIN logs : logs[i].id # ingest'[t].id
    BY <1>0, <1>1, <1>4, <2>1, <2>2, <2>3, <2>4 DEF IdsAreOnce
  <2>7. \A t, u \in Source : Writing(t)' /\ Writing(u)' /\ ingest'[t].id = ingest'[u].id => t = u
    BY <1>0, <1>4, <2>2, <2>3, <2>4 DEF IdsAreOnce
  <2> QED BY <1>1, <2>1, <2>3, <2>5, <2>6, <2>7 DEF IdsAreOnce
<1>6. ASSUME ~met'
      PROVE  OneIngest'
  <2>1. Quiet /\ ~met BY <1>1, <1>6 DEF Quiet
  <2>2. /\ InOrder /\ \A k \in Word, x \in 0..MaxLogs - 1 : x \in index[k] <=> Holds(x, k)
    BY <1>0, <2>1 DEF OneIngest
  <2>3. \A k \in Word, x \in 0..MaxLogs - 1 : Holds(x, k)' <=> Holds(x, k)
    BY <1>1 DEF Holds
  <2>4. IndexAhead(s)'
    <3>1. nextId' - 1 = nextId BY <1>0, <1>1 DEF LogTyped
    <3> QED BY <1>1, <1>2, <1>4, <2>2, <2>3, <3>1 DEF IndexAhead
  <2>5. InOrder' BY <1>1, <2>2 DEF InOrder
  <2>6. \A t \in Source : Active(t)' => t = s
    BY <1>0, <1>1, <2>1 DEF Active, Quiet, LogTyped
  <2>7. ~Quiet' BY <1>2, <1>4 DEF Quiet
  <2> QED BY <1>4, <2>4, <2>5, <2>6, <2>7 DEF OneIngest, Writing
<1>7. OneIngest' BY <1>6 DEF OneIngest
<1> QED BY <1>3, <1>5, <1>7 DEF LogInv

LEMMA IndexWordInv ==
  ASSUME LogConstants, LogInv, NEW s \in Source, IndexWord(s)
  PROVE  LogInv'
<1> USE DEF LogConstants
<1>0. LogTyped /\ IdsAreOnce /\ OneIngest BY DEF LogInv
<1>1. /\ Active(s) /\ ingest[s].step = "index" /\ ingest[s] \in Ingesting
      /\ UNCHANGED <<nextId, logs, met>>
  BY <1>0 DEF IndexWord, LogTyped, Active
<1>2. \A k, x : Holds(x, k)' <=> Holds(x, k) BY <1>1 DEF Holds
<1>3. ASSUME NEW new \in Ingesting, ingest' = [ingest EXCEPT ![s] = new],
             new.step \in {"index", "push"}, new.id = ingest[s].id, new.words = ingest[s].words,
             index' \in [Word -> SUBSET (0..MaxLogs - 1)],
             ~met => IndexAhead(s)'
      PROVE  LogInv'
  <2>1. LogTyped' BY <1>0, <1>1, <1>3 DEF LogTyped
  <2>2. /\ Writing(s)' /\ ingest'[s] = new /\ Writing(s)
        /\ \A t \in Source \ {s} : ingest'[t] = ingest[t]
        /\ \A t \in Source : /\ (Writing(t)' <=> Writing(t)) /\ (Active(t)' <=> Active(t))
                             /\ (Active(t) => ingest'[t].id = ingest[t].id)
    BY <1>0, <1>1, <1>3 DEF Writing, Active, LogTyped
  <2>3. IdsAreOnce' BY <1>0, <1>1, <2>2 DEF IdsAreOnce, Writing
  <2>4. ~Quiet' BY <2>2 DEF Quiet, Writing, Active
  <2>5. OneIngest'
    BY <1>0, <1>1, <1>3, <2>2, <2>4 DEF OneIngest, InOrder, Writing
  <2> QED BY <2>1, <2>3, <2>5 DEF LogInv
<1>4. CASE ingest[s].left = {}
  <2> DEFINE new == [ingest[s] EXCEPT !.step = "push"]
  <2>1. /\ new \in Ingesting /\ new.step = "push" /\ new.id = ingest[s].id
        /\ new.words = ingest[s].words /\ new.left = {} /\ new.empty = ingest[s].empty
    BY <1>1, <1>4 DEF Ingesting
  <2>2. ingest' = [ingest EXCEPT ![s] = new] /\ UNCHANGED index BY <1>4 DEF IndexWord
  <2> HIDE DEF new
  <2>3. ingest'[s] = new BY <1>0, <2>2 DEF LogTyped
  <2>4. ~met => IndexAhead(s)'
    <3> SUFFICES ASSUME ~met PROVE IndexAhead(s)' OBVIOUS
    <3>1. IndexAhead(s) BY <1>0, <1>1 DEF OneIngest, Writing
    <3> QED BY <1>1, <1>2, <1>4, <2>1, <2>2, <2>3, <3>1 DEF IndexAhead
  <2>5. index' \in [Word -> SUBSET (0..MaxLogs - 1)] BY <1>0, <2>2 DEF LogTyped
  <2> QED BY <1>3, <2>1, <2>2, <2>4, <2>5
<1>5. ASSUME NEW k \in ingest[s].left,
             index' = [index EXCEPT ![k] = @ \cup {ingest[s].id}],
             ingest' = [ingest EXCEPT ![s].left = @ \ {k}]
      PROVE  LogInv'
  <2> DEFINE new == [ingest[s] EXCEPT !.left = @ \ {k}]
  <2>1. /\ new \in Ingesting /\ new.step = "index" /\ new.id = ingest[s].id
        /\ new.words = ingest[s].words /\ new.left = ingest[s].left \ {k}
        /\ k \in Word /\ ingest[s].id \in 0..MaxLogs - 1 /\ new.empty = ingest[s].empty
    BY <1>1 DEF Ingesting
  <2>2. ingest' = [ingest EXCEPT ![s] = new] BY <1>5
  <2> HIDE DEF new
  <2>3. ingest'[s] = new BY <1>0, <2>2 DEF LogTyped
  <2>4. index' \in [Word -> SUBSET (0..MaxLogs - 1)] BY <1>0, <1>5, <2>1 DEF LogTyped
  <2>5. ~met => IndexAhead(s)'
    <3> SUFFICES ASSUME ~met PROVE IndexAhead(s)' OBVIOUS
    <3>1. IndexAhead(s) BY <1>0, <1>1 DEF OneIngest, Writing
    <3>2. \A j \in Word, x \in 0..MaxLogs - 1 :
            x \in index'[j] <=> x \in index[j] \/ (j = k /\ x = ingest[s].id)
      BY <1>0, <1>5, <2>1 DEF LogTyped
    <3> QED BY <1>1, <1>2, <1>5, <2>1, <2>3, <3>1, <3>2 DEF IndexAhead
  <2> QED BY <1>3, <2>1, <2>2, <2>4, <2>5
<1> QED BY <1>1, <1>4, <1>5 DEF IndexWord

LEMMA AppendLogInv ==
  ASSUME LogConstants, LogInv, NEW s \in Source, AppendLog(s)
  PROVE  LogInv'
<1> USE DEF LogConstants
<1>0. LogTyped /\ IdsAreOnce /\ OneIngest BY DEF LogInv
<1> DEFINE new == [id |-> ingest[s].id, words |-> ingest[s].words]
           all == Append(logs, new)
           n == Half(Len(all))
<1>1. /\ Writing(s) /\ Active(s) /\ ingest[s].step = "push" /\ ingest[s] \in Ingesting
      /\ UNCHANGED <<nextId, index, met>>
  BY <1>0 DEF AppendLog, LogTyped, Active, Writing
<1>2. /\ new \in Log /\ all \in Seq(Log) /\ Len(all) = Len(logs) + 1 /\ all[Len(all)] = new
      /\ \A i \in 1..Len(logs) : all[i] = logs[i]
      /\ Len(logs) \in Nat /\ DOMAIN logs = 1..Len(logs) /\ DOMAIN all = 1..Len(all)
      /\ n \in 1..Len(logs) \/ Len(logs) = 0
  BY <1>0, <1>1, LogsAreLogs DEF LogTyped, Ingesting, Half, Log
<1>3. new.id = ingest[s].id /\ new.words = ingest[s].words OBVIOUS
<1> HIDE DEF new, all, n
<1>4. \A i \in DOMAIN all : all[i] \in Log /\ all[i].id \in Nat /\ all[i].id < nextId
  <2>1. \A i \in DOMAIN all : all[i] \in Log BY <1>2, ElementOfSeq
  <2>2. \A l \in Log : l.id \in Nat BY DEF Log
  <2>3. \A i \in DOMAIN all : i \in DOMAIN logs \/ i = Len(all) BY <1>2
  <2>4. ingest[s].id < nextId /\ \A i \in DOMAIN logs : logs[i].id < nextId
    BY <1>0, <1>1 DEF IdsAreOnce
  <2> QED BY <1>2, <1>3, <2>1, <2>2, <2>3, <2>4
<1>5. \A i, j \in DOMAIN all : all[i].id = all[j].id => i = j
  BY <1>0, <1>1, <1>2, <1>3 DEF IdsAreOnce
<1>6. ASSUME NEW t \in Source \ {s}, Writing(t)
      PROVE  \A i \in DOMAIN all : all[i].id # ingest[t].id
  BY <1>0, <1>1, <1>2, <1>3, <1>6 DEF IdsAreOnce
<1>7. ASSUME ~met
      PROVE  /\ IndexAhead(s) /\ all[Len(all)].id = nextId - 1 /\ nextId > 0
             /\ \A i, j \in DOMAIN all : i < j => all[i].id < all[j].id
  <2>1. IndexAhead(s) /\ InOrder BY <1>0, <1>1, <1>7 DEF OneIngest
  <2>2. all[Len(all)].id = nextId - 1 BY <1>2, <1>3, <2>1 DEF IndexAhead
  <2>3. nextId \in Nat BY <1>0 DEF LogTyped
  <2>4. \A i, j \in DOMAIN all : i < j => all[i].id < all[j].id
    <3> TAKE i, j \in DOMAIN all
    <3>1. CASE j \in 1..Len(logs) BY <1>2, <2>1, <3>1 DEF InOrder
    <3>2. CASE j = Len(all) BY <1>2, <1>4, <1>5, <2>2, <2>3, <3>2
    <3> QED BY <1>2, <3>1, <3>2
  <2> QED BY <1>2, <1>4, <2>1, <2>2, <2>3, <2>4
<1>8. ASSUME NEW m \in 0..Len(logs),
             Len(logs') = Len(all) - m, logs' \in Seq(Log), Len(logs') <= MaxEntries,
             \A i \in 1..Len(all) - m : logs'[i] = all[i + m],
             NEW call \in Ingesting \cup {Nil},
             ingest' = [ingest EXCEPT ![s] = call],
             call # Nil => call.step = "retain",
             ~met => (call = Nil /\ m = 0) \/ (call # Nil /\ IndexBehind(s)')
      PROVE  LogInv'
  <2>1. LogTyped' BY <1>0, <1>1, <1>8 DEF LogTyped
  <2>2. /\ ingest'[s] = call /\ ~Writing(s)'
        /\ \A t \in Source \ {s} : /\ ingest'[t] = ingest[t]
                                   /\ (Writing(t)' <=> Writing(t)) /\ (Active(t)' <=> Active(t))
    BY <1>0, <1>8 DEF Writing, Active, LogTyped
  <2>3. DOMAIN logs' = 1..Len(logs') BY <1>8
  <2>4. \A i \in DOMAIN logs' : i + m \in DOMAIN all /\ logs'[i] = all[i + m]
    <3>1. \A i \in 1..Len(all) - m : i + m \in 1..Len(all) BY <1>2
    <3> QED BY <1>2, <1>8, <2>3, <3>1
  <2>5. IdsAreOnce'
    <3>1. \A i \in DOMAIN logs' : logs'[i].id < nextId' BY <1>1, <1>4, <2>4
    <3>2. \A i, j \in DOMAIN logs' : logs'[i].id = logs'[j].id => i = j
      <4>1. \A i, j \in DOMAIN logs' : i + m = j + m => i = j BY <1>2, <1>8, <2>3
      <4> QED BY <1>5, <2>4, <4>1
    <3>3. \A t \in Source : Writing(t)' =>
            ingest'[t].id < nextId' /\ \A i \in DOMAIN logs' : logs'[i].id # ingest'[t].id
      BY <1>0, <1>1, <1>6, <2>2, <2>4 DEF IdsAreOnce
    <3>4. \A t, u \in Source :
            Writing(t)' /\ Writing(u)' /\ ingest'[t].id = ingest'[u].id => t = u
      BY <1>0, <2>2 DEF IdsAreOnce
    <3> QED BY <3>1, <3>2, <3>3, <3>4 DEF IdsAreOnce
  <2>6. ASSUME ~met
        PROVE  OneIngest'
    <3>1. IndexAhead(s) /\ all[Len(all)].id = nextId - 1 /\ nextId > 0
          /\ \A i, j \in DOMAIN all : i < j => all[i].id < all[j].id
      BY <1>7, <2>6
    <3>2. InOrder'
      <4>1. \A i, j \in DOMAIN logs' : i < j => i + m < j + m BY <1>2, <1>8, <2>3
      <4> QED BY <2>4, <3>1, <4>1 DEF InOrder
    <3>3. \A t \in Source : Active(t) => t = s BY <1>0, <1>1, <2>6 DEF OneIngest
    <3>4. NewestIsLast' BY <1>1, <1>2, <1>8, <2>4, <3>1 DEF NewestIsLast
    <3>5. CASE call = Nil /\ m = 0
      <4>1. \A k, x : Holds(x, k)' <=> \E i \in DOMAIN all : all[i].id = x /\ k \in all[i].words
        <5>1. DOMAIN logs' = DOMAIN all /\ \A i \in DOMAIN all : logs'[i] = all[i]
          BY <1>2, <1>8, <2>3, <3>5
        <5> QED BY <5>1 DEF Holds
      <4>2. \A k, x : Holds(x, k)' <=> Holds(x, k) \/ (x = ingest[s].id /\ k \in ingest[s].words)
        <5>1. \A i : i \in DOMAIN all <=> i \in DOMAIN logs \/ i = Len(all) BY <1>2
        <5>2. \A i \in DOMAIN logs : all[i] = logs[i] BY <1>2
        <5>3. all[Len(all)].id = ingest[s].id /\ all[Len(all)].words = ingest[s].words
          BY <1>2, <1>3
        <5>4. TAKE k, x
        <5>5. (\E i \in DOMAIN all : all[i].id = x /\ k \in all[i].words)
               <=> \/ \E i \in DOMAIN logs : all[i].id = x /\ k \in all[i].words
                   \/ x = ingest[s].id /\ k \in ingest[s].words
          BY <5>1, <5>3
        <5>6. Holds(x, k) <=> \E i \in DOMAIN logs : all[i].id = x /\ k \in all[i].words
          BY <5>2 DEF Holds
        <5> QED BY <4>1, <5>5, <5>6
      <4>3. \A k \in Word, x \in 0..MaxLogs - 1 : x \in index[k] <=> Holds(x, k)'
        BY <1>1, <3>1, <4>2 DEF IndexAhead
      <4>4. \A t \in Source : ~Active(t)' BY <2>2, <3>3, <3>5 DEF Active
      <4> QED BY <1>1, <3>2, <3>4, <4>3, <4>4 DEF OneIngest, Writing
    <3>6. CASE call # Nil /\ IndexBehind(s)'
      <4>1. \A t \in Source : Active(t)' => t = s BY <2>2, <3>3
      <4>2. ~Quiet' BY <2>2, <3>6 DEF Quiet
      <4> QED BY <2>2, <3>2, <3>6, <4>1, <4>2 DEF OneIngest, Writing
    <3> QED BY <1>8, <2>6, <3>5, <3>6
  <2>7. OneIngest' BY <1>1, <2>6 DEF OneIngest
  <2> QED BY <2>1, <2>5, <2>7 DEF LogInv
<1>9. CASE Len(all) <= MaxEntries
  <2>1. logs' = all /\ ingest' = [ingest EXCEPT ![s] = Nil] BY <1>9 DEF AppendLog, all, new
  <2> DEFINE m == 0
             call == Nil
  <2>2. m \in 0..Len(logs) /\ Len(all) - m = Len(all) /\ \A i \in 1..Len(all) : i + m = i
    BY <1>2
  <2>3. call \in Ingesting \cup {Nil} /\ m = 0 /\ call = Nil OBVIOUS
  <2> HIDE DEF m, call
  <2>4. /\ Len(logs') = Len(all) - m /\ logs' \in Seq(Log) /\ Len(logs') <= MaxEntries
        /\ \A i \in 1..Len(all) - m : logs'[i] = all[i + m]
    BY <1>2, <1>9, <2>1, <2>2
  <2>5. ingest' = [ingest EXCEPT ![s] = call] BY <2>1, <2>3
  <2>6. (call # Nil => call.step = "retain")
        /\ (~met => (call = Nil /\ m = 0) \/ (call # Nil /\ IndexBehind(s)'))
    BY <2>3
  <2> QED BY <1>8, <2>2, <2>3, <2>4, <2>5, <2>6
<1>10. CASE ~(Len(all) <= MaxEntries)
  <2>1. n \in 1..Len(logs) /\ n \in 1..Len(all) /\ Len(all) - n <= MaxEntries
    BY <1>0, <1>2, <1>10 DEF LogTyped
  <2> DEFINE cut == all[n].id + 1
             mid == [ingest[s] EXCEPT !.step = "retain"]
             low == [mid EXCEPT !.cutoff = cut]
             call == [low EXCEPT !.left = Word]
  <2>2. /\ logs' = SubSeq(all, n + 1, Len(all))
        /\ ingest' = [ingest EXCEPT ![s].step = "retain", ![s].cutoff = all[n].id + 1,
                                    ![s].left = Word]
    BY <1>10 DEF AppendLog, all, n, new
  <2>3. cut \in 0..MaxLogs /\ \A x \in Nat : x >= cut <=> x > all[n].id
    <3>1. all[n] \in Log /\ all[n].id \in 0..MaxLogs - 1 BY <1>2, <1>4, <2>1 DEF Log
    <3> QED BY <3>1
  <2>4. mid \in Ingesting /\ mid.step = "retain" /\ mid.words = ingest[s].words
        /\ mid.empty = ingest[s].empty
    BY <1>1 DEF Ingesting
  <2>5. /\ call \in Ingesting /\ call.step = "retain" /\ call.left = Word
        /\ call.cutoff = cut /\ call.empty = ingest[s].empty /\ call # Nil
    <3> HIDE DEF mid, cut
    <3>1. /\ low \in Ingesting /\ low.step = "retain" /\ low.empty = ingest[s].empty
          /\ low.cutoff = cut
      BY <2>3, <2>4 DEF Ingesting
    <3> HIDE DEF low
    <3> QED BY <3>1 DEF Ingesting
  <2>6. ingest' = [ingest EXCEPT ![s] = call] BY <1>0, <2>2 DEF LogTyped
  <2> HIDE DEF call
  <2>7. /\ logs' \in Seq(Log) /\ Len(logs') = Len(all) - n
        /\ \A i \in 1..Len(all) - n : logs'[i] = all[i + n]
    <3>1. n + 1 \in 1..Len(all) + 1 /\ Len(all) \in Nat BY <1>2, <2>1
    <3>2. Len(SubSeq(all, n + 1, Len(all))) = Len(all) - n /\ SubSeq(all, n + 1, Len(all)) \in Seq(Log)
      BY <1>2, <2>1, <3>1
    <3>3. \A i \in 1..Len(all) - n : SubSeq(all, n + 1, Len(all))[i] = all[i + n]
      BY <1>2, <2>1, <3>1
    <3> QED BY <2>2, <3>2, <3>3
  <2>8. ASSUME ~met
        PROVE  IndexBehind(s)'
    <3>1. /\ IndexAhead(s) /\ all[Len(all)].id = nextId - 1 /\ nextId > 0
          /\ \A i, j \in DOMAIN all : i < j => all[i].id < all[j].id
      BY <1>7, <2>8
    <3>2. ingest'[s] = call BY <1>0, <2>6 DEF LogTyped
    <3>3. Len(logs') \in DOMAIN logs' /\ Len(logs') + n = Len(all) /\ Len(logs') > 0
          /\ DOMAIN logs' = 1..Len(all) - n
      BY <1>2, <2>1, <2>7
    <3>4. NewestIsLast' BY <1>1, <2>7, <3>1, <3>3 DEF NewestIsLast
    <3>5. \A i \in DOMAIN all : i > n <=> all[i].id > all[n].id
      BY <1>2, <1>4, <2>1, <3>1
    <3>6. ASSUME NEW k \in Word, NEW x \in 0..MaxLogs - 1
          PROVE  Holds(x, k)' <=> x \in index[k] /\ x >= cut
      <4>1. x \in index[k] <=> \E i \in DOMAIN all : all[i].id = x /\ k \in all[i].words
        <5>1. \A i : i \in DOMAIN all <=> i \in DOMAIN logs \/ i = Len(all) BY <1>2
        <5>2. \A i \in DOMAIN logs : all[i] = logs[i] BY <1>2
        <5>3. ingest[s].left = {} BY <1>1, <3>1 DEF IndexAhead
        <5> QED BY <1>2, <1>3, <3>1, <5>1, <5>2, <5>3 DEF Holds, IndexAhead
      <4>2. Holds(x, k)' <=> \E i \in DOMAIN all : i > n /\ all[i].id = x /\ k \in all[i].words
        <5>1. ASSUME NEW i \in DOMAIN logs'
              PROVE  i + n \in DOMAIN all /\ i + n > n /\ logs'[i] = all[i + n]
          BY <1>2, <2>1, <2>7, <3>3, <5>1
        <5>2. ASSUME NEW i \in DOMAIN all, i > n
              PROVE  i - n \in DOMAIN logs' /\ logs'[i - n] = all[i]
          <6>1. i - n \in 1..Len(all) - n /\ (i - n) + n = i BY <1>2, <2>1, <5>2
          <6> QED BY <2>7, <3>3, <6>1
        <5> QED BY <5>1, <5>2 DEF Holds
      <4>3. Holds(x, k)' <=> \E i \in DOMAIN all : all[i].id > all[n].id /\ all[i].id = x
                                                     /\ k \in all[i].words
        BY <3>5, <4>2
      <4>4. x >= cut <=> x > all[n].id BY <2>3
      <4> QED BY <4>1, <4>3, <4>4
    <3>7. call.empty = {} BY <2>5, <3>1 DEF IndexAhead
    <3> HIDE DEF cut
    <3> QED BY <1>1, <2>5, <3>2, <3>4, <3>6, <3>7 DEF IndexBehind
  <2>9. n \in 0..Len(logs) BY <1>2, <2>1
  <2>10. call \in Ingesting \cup {Nil} /\ (call # Nil => call.step = "retain") BY <2>5
  <2>11. ~met => (call = Nil /\ n = 0) \/ (call # Nil /\ IndexBehind(s)') BY <2>5, <2>8
  <2> QED BY <1>8, <2>1, <2>6, <2>7, <2>9, <2>10, <2>11
<1> QED BY <1>9, <1>10

LEMMA RetainIdsInv ==
  ASSUME LogConstants, LogInv, NEW s \in Source, RetainIds(s) \/ RemoveWord(s)
  PROVE  LogInv'
<1> USE DEF LogConstants
<1>0. LogTyped /\ IdsAreOnce /\ OneIngest BY DEF LogInv
<1>1. /\ Active(s) /\ ~Writing(s) /\ ingest[s] \in Ingesting /\ ingest[s].step \in {"retain", "remove"}
      /\ UNCHANGED <<nextId, logs, met>>
  BY <1>0 DEF RetainIds, RemoveWord, LogTyped, Active, Writing
<1>2. \A k, x : Holds(x, k)' <=> Holds(x, k) BY <1>1 DEF Holds
<1>3. ASSUME NEW call \in Ingesting \cup {Nil},
             ingest' = [ingest EXCEPT ![s] = call],
             call # Nil => call.step \in {"retain", "remove"},
             index' \in [Word -> SUBSET (0..MaxLogs - 1)],
             ~met => IF call = Nil THEN \A k \in Word, x \in 0..MaxLogs - 1 : x \in index'[k] <=> Holds(x, k)
                                   ELSE IndexBehind(s)'
      PROVE  LogInv'
  <2>1. LogTyped' BY <1>0, <1>1, <1>3 DEF LogTyped
  <2>2. /\ ingest'[s] = call /\ ~Writing(s)'
        /\ \A t \in Source \ {s} : ingest'[t] = ingest[t] /\ (Active(t)' <=> Active(t))
        /\ \A t \in Source : Writing(t)' <=> Writing(t)
    BY <1>0, <1>1, <1>3 DEF Writing, Active, LogTyped
  <2>3. IdsAreOnce' BY <1>0, <1>1, <2>2 DEF IdsAreOnce
  <2>4. ASSUME ~met
        PROVE  OneIngest'
    <3>1. \A t \in Source : Active(t) => t = s BY <1>0, <1>1, <2>4 DEF OneIngest
    <3>2. InOrder' /\ NewestIsLast' BY <1>0, <1>1, <2>4 DEF OneIngest, InOrder, NewestIsLast, IndexBehind
    <3>3. \A t \in Source : Active(t)' => t = s /\ call # Nil BY <2>2, <3>1 DEF Active
    <3>4. CASE call = Nil
      BY <1>1, <1>2, <1>3, <2>4, <3>2, <3>3, <3>4 DEF OneIngest, Writing
    <3>5. CASE call # Nil
      <4>1. ~Quiet' BY <2>2, <3>5 DEF Quiet
      <4> QED BY <1>3, <2>2, <2>4, <3>2, <3>3, <3>5, <4>1 DEF OneIngest, Writing
    <3> QED BY <3>4, <3>5
  <2>5. OneIngest' BY <1>1, <2>4 DEF OneIngest
  <2> QED BY <2>1, <2>3, <2>5 DEF LogInv
<1>4. ~met => IndexBehind(s) BY <1>0, <1>1 DEF OneIngest
<1>5. CASE RetainIds(s) /\ ingest[s].left = {}
  <2> DEFINE call == [ingest[s] EXCEPT !.step = "remove"]
  <2>1. /\ call \in Ingesting /\ call.step = "remove" /\ call.left = ingest[s].left
        /\ call.cutoff = ingest[s].cutoff /\ call.empty = ingest[s].empty /\ call # Nil
    BY <1>1 DEF Ingesting
  <2>2. ingest' = [ingest EXCEPT ![s] = call] /\ UNCHANGED index BY <1>5 DEF RetainIds
  <2> HIDE DEF call
  <2>3. ingest'[s] = call BY <1>0, <2>2 DEF LogTyped
  <2>4. ~met => IndexBehind(s)'
    BY <1>1, <1>2, <1>4, <1>5, <2>1, <2>2, <2>3 DEF IndexBehind, NewestIsLast
  <2>5. index' \in [Word -> SUBSET (0..MaxLogs - 1)] BY <1>0, <2>2 DEF LogTyped
  <2> QED BY <1>3, <2>1, <2>2, <2>4, <2>5
<1>6. ASSUME ingest[s].step = "retain", NEW k \in ingest[s].left, NEW kept,
             kept = {i \in index[k] : i >= ingest[s].cutoff},
             index' = [index EXCEPT ![k] = kept],
             ingest' = [ingest EXCEPT ![s].left = @ \ {k},
                            ![s].empty = IF kept = {} THEN @ \cup {k} ELSE @]
      PROVE  LogInv'
  <2> DEFINE mid == [ingest[s] EXCEPT !.left = @ \ {k}]
             call == [mid EXCEPT !.empty = IF kept = {} THEN mid.empty \cup {k} ELSE mid.empty]
  <2>1. /\ mid \in Ingesting /\ mid.step = "retain" /\ mid.left = ingest[s].left \ {k}
        /\ mid.cutoff = ingest[s].cutoff /\ mid.empty = ingest[s].empty /\ k \in Word
    BY <1>1, <1>6 DEF Ingesting
  <2>2. ingest' = [ingest EXCEPT ![s] = call] BY <1>0, <1>6 DEF LogTyped
  <2>3. /\ call \in Ingesting /\ call.step = "retain" /\ call.left = ingest[s].left \ {k}
        /\ call.cutoff = ingest[s].cutoff /\ call # Nil
        /\ call.empty = IF kept = {} THEN ingest[s].empty \cup {k} ELSE ingest[s].empty
    <3> HIDE DEF mid
    <3> QED BY <2>1 DEF Ingesting
  <2> HIDE DEF call
  <2>4. ingest'[s] = call BY <1>0, <2>2 DEF LogTyped
  <2>5. index' \in [Word -> SUBSET (0..MaxLogs - 1)] BY <1>0, <1>6, <2>1 DEF LogTyped
  <2>6. \A j \in Word, x \in 0..MaxLogs - 1 :
          x \in index'[j] <=> x \in index[j] /\ (j = k => x >= ingest[s].cutoff)
    BY <1>0, <1>6, <2>1 DEF LogTyped
  <2>7. ASSUME ~met
        PROVE  IndexBehind(s)'
    <3>1. IndexBehind(s) BY <1>4, <2>7
    <3>2. \A j \in Word, x \in 0..MaxLogs - 1 :
            Holds(x, j) <=> x \in index'[j] /\ (j \in call.left => x >= call.cutoff)
      BY <2>3, <2>6, <1>6, <3>1 DEF IndexBehind
    <3>3. \A j \in call.empty, x \in 0..MaxLogs - 1 : ~Holds(x, j)
      <4>1. kept = {} => \A x \in 0..MaxLogs - 1 : ~Holds(x, k)
        BY <1>6, <2>1, <3>1 DEF IndexBehind
      <4> QED BY <2>3, <3>1, <4>1 DEF IndexBehind
    <3> QED BY <1>1, <1>2, <2>3, <2>4, <3>1, <3>2, <3>3 DEF IndexBehind, NewestIsLast
  <2> QED BY <1>3, <2>2, <2>3, <2>5, <2>7
<1>7. CASE RemoveWord(s) /\ ingest[s].empty = {}
  <2> DEFINE call == Nil
  <2>1. ingest' = [ingest EXCEPT ![s] = call] /\ UNCHANGED index BY <1>7 DEF RemoveWord
  <2>2. ~met => \A k \in Word, x \in 0..MaxLogs - 1 : x \in index'[k] <=> Holds(x, k)
    BY <1>4, <1>7, <2>1 DEF IndexBehind, RemoveWord
  <2>3. index' \in [Word -> SUBSET (0..MaxLogs - 1)] BY <1>0, <2>1 DEF LogTyped
  <2>4. call \in Ingesting \cup {Nil} /\ call = Nil OBVIOUS
  <2> HIDE DEF call
  <2> QED BY <1>3, <2>1, <2>2, <2>3, <2>4
<1>8. ASSUME ingest[s].step = "remove", NEW k \in ingest[s].empty,
             index' = [index EXCEPT ![k] = {}],
             ingest' = [ingest EXCEPT ![s].empty = @ \ {k}]
      PROVE  LogInv'
  <2> DEFINE call == [ingest[s] EXCEPT !.empty = @ \ {k}]
  <2>1. /\ call \in Ingesting /\ call.step = "remove" /\ call.left = ingest[s].left
        /\ call.cutoff = ingest[s].cutoff /\ call # Nil /\ call.empty = ingest[s].empty \ {k}
        /\ k \in Word
    BY <1>1, <1>8 DEF Ingesting
  <2>2. ingest' = [ingest EXCEPT ![s] = call] BY <1>8
  <2> HIDE DEF call
  <2>3. ingest'[s] = call BY <1>0, <2>2 DEF LogTyped
  <2>4. index' \in [Word -> SUBSET (0..MaxLogs - 1)] BY <1>0, <1>8, <2>1 DEF LogTyped
  <2>5. \A j \in Word, x \in 0..MaxLogs - 1 : x \in index'[j] <=> x \in index[j] /\ j # k
    BY <1>0, <1>8, <2>1 DEF LogTyped
  <2>6. ASSUME ~met
        PROVE  IndexBehind(s)'
    <3>1. IndexBehind(s) BY <1>4, <2>6
    <3> QED BY <1>1, <1>2, <1>8, <2>1, <2>3, <2>5, <3>1 DEF IndexBehind, NewestIsLast
  <2> QED BY <1>3, <2>1, <2>2, <2>4, <2>6
<1>9. CASE RetainIds(s) /\ ingest[s].left # {} BY <1>6, <1>9 DEF RetainIds
<1>10. CASE RemoveWord(s) /\ ingest[s].empty # {} BY <1>8, <1>10 DEF RemoveWord
<1> QED BY <1>5, <1>7, <1>9, <1>10

LEMMA LogStepInv ==
  ASSUME LogConstants, LogInv, [LogNext]_logVars
  PROVE  LogInv'
<1>1. CASE LogNext BY <1>1, DrawInv, IndexWordInv, AppendLogInv, RetainIdsInv DEF LogNext
<1>2. CASE UNCHANGED logVars
  BY <1>2 DEF logVars, LogInv, LogTyped, IdsAreOnce, OneIngest, Writing, Active, Holds, IndexAhead,
     IndexBehind, NewestIsLast, InOrder, Quiet
<1> QED BY <1>1, <1>2

LEMMA LogInvMeans ==
  ASSUME LogConstants, LogInv
  PROVE  LogTypeOK /\ IndexFollowsLogs
<1> USE DEF LogConstants
<1>0. LogTyped /\ IdsAreOnce /\ OneIngest BY DEF LogInv
<1>1. LogTypeOK BY <1>0 DEF LogTyped, LogTypeOK
<1>2. \A k \in Word : Kept(k) \subseteq 0..MaxLogs - 1
                       /\ \A x : x \in Kept(k) <=> Holds(x, k)
  BY <1>0, LogsAreLogs DEF Kept, ToSet, Holds, Log
<1>3. ASSUME Quiet, ~met, NEW k \in Word
      PROVE  index[k] = Kept(k)
  <2>1. \A x \in 0..MaxLogs - 1 : x \in index[k] <=> Holds(x, k) BY <1>0, <1>3 DEF OneIngest
  <2>2. index[k] \subseteq 0..MaxLogs - 1 BY <1>0 DEF LogTyped
  <2> QED BY <1>2, <2>1, <2>2
<1>4. ASSUME Quiet, ~met, nextId > 0
      PROVE  Last(logs).id = nextId - 1
  BY <1>0, <1>4 DEF OneIngest, NewestIsLast, Last
<1>5. \A i, j \in DOMAIN logs : logs[i].id = logs[j].id => i = j BY <1>0 DEF IdsAreOnce
<1> QED BY <1>1, <1>3, <1>4, <1>5 DEF IndexFollowsLogs

\* Between two calls that did not overlap with others, the index names exactly the
\* kept logs; a log is kept once (observability/log_aggregator.rs, ingest).
THEOREM IndexIsExact ==
  ASSUME LogConstants
  PROVE  LogSpec => []IndexFollowsLogs
<1>1. LogInit => LogInv BY LogInitInv
<1>2. LogInv /\ [LogNext]_logVars => LogInv' BY LogStepInv
<1>3. LogInv => IndexFollowsLogs BY LogInvMeans
<1> QED BY <1>1, <1>2, <1>3, PTL DEF LogSpec

-----------------------------------------------------------------------------
(* The data feed.                                                            *)
FeedConstants ==
  /\ IsFiniteSet(Checker) /\ BufferSize \in Nat \ {0} /\ MaxVersions \in Nat \ {0}
  /\ Idle \notin [step: {"fetch", "tell", "merge"}, last: 0..MaxVersions, found: 0..MaxVersions]

Checking == [step: {"fetch", "tell", "merge"}, last: 0..MaxVersions, found: 0..MaxVersions]

\* The checks that have told the webhook and not counted it.
Announced == {c \in Checker : check[c] # Idle /\ check[c].step = "merge" /\ Changed(check[c])}

FeedTyped ==
  /\ version \in 1..MaxVersions
  /\ watcher \in [seen: 0..MaxVersions, changes: Nat]
  /\ check \in [Checker -> {Idle} \cup Checking]
  /\ fetched \in 0..MaxVersions /\ told \in Nat /\ overlapped \in BOOLEAN
  /\ buffer \in [kept: 0..BufferSize - 1, batch: 0..BufferSize]
  /\ events \in [recorded: Nat, delivered: Nat, lost: Nat]

\* The webhook is told of changes only.
TellsChanges == \A c \in Checker : check[c] # Idle /\ check[c].step = "tell" => Changed(check[c])

ToldIsCounted == told = watcher.changes + Cardinality(Announced)

EventsAddUp == events.recorded = buffer.kept + buffer.batch + events.delivered + events.lost

\* Without an overlap one check is under way, and it knows what the watcher does.
OneCheck ==
  ~overlapped =>
    /\ \A b, c \in Checker : check[b] # Idle /\ check[c] # Idle => b = c
    /\ watcher.seen <= fetched /\ fetched <= version
    /\ watcher.changes = 0 \/ watcher.changes < watcher.seen
    /\ (\A c \in Checker : check[c] = Idle) => watcher.seen = fetched
    /\ \A c \in Checker : check[c] # Idle =>
         /\ check[c].last = watcher.seen
         /\ check[c].step = "fetch" => watcher.seen = fetched
         /\ check[c].step # "fetch" => check[c].found = fetched /\ fetched > 0

FeedInv == FeedTyped /\ TellsChanges /\ ToldIsCounted /\ EventsAddUp /\ OneCheck

LEMMA FeedInitInv ==
  ASSUME FeedConstants, FeedInit
  PROVE  FeedInv
<1>1. FeedTyped
  <2>1. check \in [Checker -> {Idle} \cup Checking] BY DEF FeedInit
  <2>2. buffer \in [kept: 0..BufferSize - 1, batch: 0..BufferSize]
    BY DEF FeedInit, FeedConstants
  <2>3. events \in [recorded: Nat, delivered: Nat, lost: Nat] BY DEF FeedInit
  <2>4. watcher \in [seen: 0..MaxVersions, changes: Nat] BY DEF FeedInit, FeedConstants
  <2>5. version \in 1..MaxVersions /\ fetched \in 0..MaxVersions /\ told \in Nat
    BY DEF FeedInit, FeedConstants
  <2>6. overlapped \in BOOLEAN BY DEF FeedInit
  <2> QED BY <2>1, <2>2, <2>3, <2>4, <2>5, <2>6 DEF FeedTyped
<1>2. Announced = {} BY DEF Announced, FeedInit
<1>3. ToldIsCounted BY <1>2, FS_EmptySet DEF ToldIsCounted, FeedInit
<1>4. EventsAddUp BY DEF EventsAddUp, FeedInit
<1>5. OneCheck BY DEF OneCheck, FeedInit
<1>6. TellsChanges BY DEF TellsChanges, FeedInit
<1> QED BY <1>1, <1>3, <1>4, <1>5, <1>6 DEF FeedInv

\* A caller's step changes its own entry only.
LEMMA FeedCheckerSteps ==
  ASSUME FeedConstants, FeedInv, NEW c \in Checker,
         Snapshot(c) \/ Fetch(c) \/ Tell(c) \/ Merge(c)
  PROVE  FeedInv'
<1> USE DEF FeedConstants
<1>0. FeedTyped /\ TellsChanges /\ ToldIsCounted /\ EventsAddUp /\ OneCheck BY DEF FeedInv
<1>1. /\ IsFiniteSet(Announced) /\ Cardinality(Announced) \in Nat
      /\ Announced \subseteq Checker
  BY FS_Subset, FS_CardinalityType DEF Announced
<1>2. UNCHANGED <<version, buffer, events>> /\ EventsAddUp'
  BY <1>0 DEF EventsAddUp, Snapshot, Fetch, Tell, Merge
<1>3. CASE Snapshot(c)
  <2>1. FeedTyped' BY <1>0, <1>3 DEF FeedTyped, Snapshot, Checking
  <2>2. Announced' = Announced BY <1>0, <1>3 DEF FeedTyped, Snapshot, Announced, Checking
  <2>3. ToldIsCounted' BY <1>0, <1>3, <2>2 DEF ToldIsCounted, Snapshot
  <2>4. OneCheck' BY <1>0, <1>3 DEF FeedTyped, Snapshot, OneCheck, Checking
  <2>5. TellsChanges' BY <1>0, <1>3 DEF FeedTyped, Snapshot, TellsChanges, Checking
  <2> QED BY <1>2, <2>1, <2>3, <2>4, <2>5 DEF FeedInv
<1>4. CASE Fetch(c)
  <2>0. /\ check[c] \in Checking /\ check[c].step = "fetch" /\ check[c] # Idle
        /\ UNCHANGED <<watcher, told, overlapped>>
    BY <1>0, <1>4 DEF FeedTyped, Fetch
  <2>1. CASE check' = [check EXCEPT ![c] = Idle] /\ UNCHANGED fetched
    <3>1. FeedTyped' BY <1>0, <1>2, <2>0, <2>1 DEF FeedTyped
    <3>2. Announced' = Announced BY <1>0, <2>0, <2>1 DEF FeedTyped, Announced
    <3>3. ToldIsCounted' BY <1>0, <2>0, <2>1, <3>2 DEF ToldIsCounted
    <3>4. OneCheck' BY <1>0, <1>2, <2>0, <2>1 DEF FeedTyped, OneCheck
    <3>5. TellsChanges' BY <1>0, <2>1 DEF FeedTyped, TellsChanges
    <3> QED BY <1>2, <3>1, <3>3, <3>4, <3>5 DEF FeedInv
  <2>2. ASSUME NEW k, k = [check[c] EXCEPT !.found = version],
               check' = [check EXCEPT ![c] = [k EXCEPT !.step = IF Changed(k) THEN "tell" ELSE "merge"]],
               fetched' = version
        PROVE  FeedInv'
    <3> DEFINE new == [k EXCEPT !.step = IF Changed(k) THEN "tell" ELSE "merge"]
    <3>1. k \in Checking /\ k.last = check[c].last /\ k.found = version
      BY <1>0, <2>0, <2>2 DEF FeedTyped, Checking
    <3>2. /\ new \in Checking /\ new # Idle /\ new.last = k.last /\ new.found = version
          /\ new.step = IF Changed(k) THEN "tell" ELSE "merge"
      BY <3>1 DEF Checking
    <3>3. Changed(new) <=> Changed(k) BY <3>1, <3>2 DEF Changed
    <3> HIDE DEF new
    <3>4. check' = [check EXCEPT ![c] = new] BY <2>2 DEF new
    <3>5. FeedTyped' BY <1>0, <1>2, <2>0, <2>2, <3>2, <3>4 DEF FeedTyped
    <3>6. TellsChanges' BY <1>0, <3>2, <3>3, <3>4 DEF FeedTyped, TellsChanges
    <3>7. Announced' = Announced BY <1>0, <2>0, <3>2, <3>3, <3>4 DEF FeedTyped, Announced
    <3>8. ToldIsCounted' BY <1>0, <2>0, <3>7 DEF ToldIsCounted
    <3>9. OneCheck' BY <1>0, <1>2, <2>0, <2>2, <3>1, <3>2, <3>4 DEF FeedTyped, OneCheck
    <3> QED BY <1>2, <3>5, <3>6, <3>8, <3>9 DEF FeedInv
  <2> QED BY <1>4, <2>1, <2>2 DEF Fetch
<1>5. CASE Tell(c)
  <2> DEFINE new == [check[c] EXCEPT !.step = "merge"]
  <2>1. /\ check[c] \in Checking /\ check[c].step = "tell" /\ check[c] # Idle
        /\ UNCHANGED <<watcher, overlapped, fetched>> /\ told' = told + 1
        /\ check' = [check EXCEPT ![c] = new]
    BY <1>0, <1>5 DEF FeedTyped, Tell
  <2>2. /\ new \in Checking /\ new # Idle /\ new.step = "merge"
        /\ new.last = check[c].last /\ new.found = check[c].found
    BY <2>1 DEF Checking
  <2>3. Changed(new) BY <1>0, <2>1, <2>2 DEF TellsChanges, Changed
  <2> HIDE DEF new
  <2>4. FeedTyped' BY <1>0, <1>2, <2>1, <2>2 DEF FeedTyped
  <2>5. TellsChanges' BY <1>0, <2>1, <2>2 DEF FeedTyped, TellsChanges
  <2>6. Announced' = Announced \cup {c} /\ c \notin Announced
    BY <1>0, <2>1, <2>2, <2>3 DEF FeedTyped, Announced
  <2>7. Cardinality(Announced') = Cardinality(Announced) + 1
    BY <1>1, <2>6, FS_AddElement
  <2>8. ToldIsCounted' BY <1>0, <1>1, <2>1, <2>7 DEF ToldIsCounted, FeedTyped
  <2>9. OneCheck' BY <1>0, <1>2, <2>1, <2>2 DEF FeedTyped, OneCheck
  <2> QED BY <1>2, <2>4, <2>5, <2>8, <2>9 DEF FeedInv
<1>6. CASE Merge(c)
  <2>1. /\ check[c] \in Checking /\ check[c].step = "merge" /\ check[c] # Idle
        /\ UNCHANGED <<overlapped, fetched, told>>
        /\ check' = [check EXCEPT ![c] = Idle]
        /\ watcher'.seen = check[c].found
        /\ watcher'.changes = watcher.changes + IF Changed(check[c]) THEN 1 ELSE 0
        /\ watcher' \in [seen: 0..MaxVersions, changes: Nat]
    BY <1>0, <1>6 DEF FeedTyped, Merge, Checking
  <2>2. FeedTyped' BY <1>0, <1>2, <2>1 DEF FeedTyped
  <2>3. TellsChanges' BY <1>0, <2>1 DEF FeedTyped, TellsChanges
  <2>4. CASE Changed(check[c])
    <3>1. Announced' = Announced \ {c} /\ c \in Announced
      BY <1>0, <2>1, <2>4 DEF FeedTyped, Announced
    <3>2. Cardinality(Announced') = Cardinality(Announced) - 1
      BY <1>1, <3>1, FS_RemoveElement
    <3>3. ToldIsCounted' BY <1>0, <1>1, <2>1, <2>4, <3>2 DEF ToldIsCounted, FeedTyped
    <3>4. OneCheck' BY <1>0, <1>2, <2>1, <2>4 DEF FeedTyped, OneCheck, Changed, Checking
    <3> QED BY <1>2, <2>2, <2>3, <3>3, <3>4 DEF FeedInv
  <2>5. CASE ~Changed(check[c])
    <3>1. Announced' = Announced BY <1>0, <2>1, <2>5 DEF FeedTyped, Announced
    <3>2. ToldIsCounted' BY <1>0, <1>1, <2>1, <2>5, <3>1 DEF ToldIsCounted, FeedTyped
    <3>3. OneCheck' BY <1>0, <1>2, <2>1, <2>5 DEF FeedTyped, OneCheck, Changed, Checking
    <3> QED BY <1>2, <2>2, <2>3, <3>2, <3>3 DEF FeedInv
  <2> QED BY <2>4, <2>5
<1> QED BY <1>3, <1>4, <1>5, <1>6

LEMMA FeedStepInv ==
  ASSUME FeedConstants, FeedInv, [FeedNext]_feedVars
  PROVE  FeedInv'
<1> USE DEF FeedConstants
<1>0. FeedTyped /\ TellsChanges /\ ToldIsCounted /\ EventsAddUp /\ OneCheck BY DEF FeedInv
<1>1. ASSUME UNCHANGED <<watcher, check, fetched, told, overlapped>>
      PROVE  Announced' = Announced /\ ToldIsCounted' /\ TellsChanges'
  <2>1. Announced' = Announced BY <1>1 DEF Announced
  <2> QED BY <1>0, <1>1, <2>1 DEF ToldIsCounted, TellsChanges
<1>2. CASE Edit
  <2>1. UNCHANGED <<watcher, check, fetched, told, overlapped, buffer, events>>
        /\ version' = version + 1 /\ version < MaxVersions
    BY <1>2 DEF Edit
  <2>2. FeedTyped' BY <1>0, <2>1 DEF FeedTyped
  <2>3. OneCheck' BY <1>0, <2>1 DEF FeedTyped, OneCheck
  <2>4. EventsAddUp' BY <1>0, <2>1 DEF EventsAddUp
  <2> QED BY <1>1, <2>1, <2>2, <2>3, <2>4 DEF FeedInv
<1>3. ASSUME RecordEvent \/ \E ok \in BOOLEAN : FlushBuffer(ok)
      PROVE  FeedInv'
  <2>1. UNCHANGED <<version, watcher, check, fetched, told, overlapped>>
    BY <1>3 DEF RecordEvent, FlushBuffer
  <2>2. buffer' \in [kept: 0..BufferSize - 1, batch: 0..BufferSize]
        /\ events' \in [recorded: Nat, delivered: Nat, lost: Nat] /\ EventsAddUp'
    <3>1. CASE RecordEvent
      <4> DEFINE one == [events EXCEPT !.recorded = @ + 1]
      <4>0. /\ one.recorded = events.recorded + 1 /\ one.lost = events.lost
            /\ one.delivered = events.delivered
            /\ one \in [recorded: Nat, delivered: Nat, lost: Nat]
        BY <1>0 DEF FeedTyped
      <4>1. CASE buffer.kept + 1 < BufferSize
        BY <1>0, <3>1, <4>1 DEF FeedTyped, RecordEvent, EventsAddUp
      <4>2. CASE ~(buffer.kept + 1 < BufferSize) /\ Sink
        <5>1. /\ buffer' = [kept |-> 0, batch |-> buffer.kept + 1] /\ buffer.batch = 0
              /\ events' = [one EXCEPT !.lost = one.lost]
          BY <1>0, <3>1, <4>2 DEF RecordEvent, FeedTyped
        <5>2. events'.recorded = events.recorded + 1 /\ events'.lost = events.lost
              /\ events'.delivered = events.delivered
              /\ events' \in [recorded: Nat, delivered: Nat, lost: Nat]
          <6> HIDE DEF one
          <6> QED BY <1>0, <4>0, <5>1 DEF FeedTyped
        <5> QED BY <1>0, <4>2, <5>1, <5>2 DEF FeedTyped, EventsAddUp
      <4>3. CASE ~(buffer.kept + 1 < BufferSize) /\ ~Sink
        <5>1. /\ buffer' = [kept |-> 0, batch |-> 0] /\ buffer.batch = 0
              /\ events' = [one EXCEPT !.lost = one.lost + (buffer.kept + 1)]
          BY <1>0, <3>1, <4>3 DEF RecordEvent, FeedTyped
        <5>2. events'.recorded = events.recorded + 1
              /\ events'.lost = events.lost + (buffer.kept + 1)
              /\ events'.delivered = events.delivered
              /\ events' \in [recorded: Nat, delivered: Nat, lost: Nat]
          <6> HIDE DEF one
          <6> QED BY <1>0, <4>0, <5>1 DEF FeedTyped
        <5> QED BY <1>0, <4>3, <5>1, <5>2 DEF FeedTyped, EventsAddUp
      <4> QED BY <4>1, <4>2, <4>3
    <3>2. ASSUME NEW ok \in BOOLEAN, FlushBuffer(ok)
          PROVE <2>2!:
      BY <1>0, <3>2 DEF FeedTyped, FlushBuffer, EventsAddUp
    <3> QED BY <1>3, <3>1, <3>2
  <2>3. FeedTyped' BY <1>0, <2>1, <2>2 DEF FeedTyped
  <2>4. OneCheck' BY <1>0, <2>1 DEF OneCheck
  <2> QED BY <1>1, <2>1, <2>2, <2>3, <2>4 DEF FeedInv
<1>4. CASE UNCHANGED feedVars
  BY <1>0, <1>1, <1>4 DEF feedVars, FeedInv, FeedTyped, EventsAddUp, OneCheck
<1> QED BY <1>2, <1>3, <1>4, FeedCheckerSteps DEF FeedNext

LEMMA FeedInvMeans ==
  ASSUME FeedConstants, FeedInv
  PROVE  FeedHolds
<1> USE DEF FeedConstants
<1>0. FeedTyped /\ ToldIsCounted /\ EventsAddUp /\ OneCheck BY DEF FeedInv
<1>1. ASSUME ~overlapped
      PROVE  told < version
  <2>1. CASE Announced = {}
    <3>1. told = watcher.changes BY <1>0, <2>1, FS_EmptySet DEF ToldIsCounted, FeedTyped
    <3> QED BY <1>0, <1>1, <3>1 DEF FeedTyped, OneCheck
  <2>2. ASSUME NEW c \in Announced PROVE told < version
    <3>1. Announced = {c} BY <1>0, <1>1 DEF Announced, OneCheck
    <3>2. told = watcher.changes + 1 BY <1>0, <3>1, FS_Singleton DEF ToldIsCounted
    <3>3. c \in Checker /\ check[c] \in Checking /\ check[c] # Idle /\ Changed(check[c])
          /\ check[c].step = "merge"
      BY <1>0 DEF Announced, FeedTyped
    <3> QED BY <1>0, <1>1, <3>2, <3>3 DEF FeedTyped, OneCheck, Changed, Checking
  <2> QED BY <2>1, <2>2
<1>2. ~overlapped => watcher.seen <= version
                    /\ (watcher.changes > 0 => watcher.changes < watcher.seen)
                    /\ ((\A c \in Checker : check[c] = Idle) => watcher.seen = fetched)
  BY <1>0 DEF OneCheck, FeedTyped
<1>3. told = watcher.changes
            + Cardinality({c \in Checker : check[c] # Idle /\ check[c].step = "merge"
                                             /\ Changed(check[c])})
  BY <1>0 DEF ToldIsCounted, Announced
<1>4. events.recorded = buffer.kept + buffer.batch + events.delivered + events.lost
      /\ buffer.kept < BufferSize
  BY <1>0 DEF EventsAddUp, FeedTyped
<1> QED BY <1>1, <1>2, <1>3, <1>4 DEF FeedHolds

\* The watcher counts what its webhook was told, and while checks do not overlap it
\* is told once per edit and remembers what was fetched last; every event is kept, on
\* its way, delivered or given up (datapipeline/pipeline.rs, check_changes and
\* flush_buffer).
THEOREM ChangesAreToldOnce ==
  ASSUME FeedConstants
  PROVE  FeedSpec => []FeedHolds
<1>1. FeedInit => FeedInv BY FeedInitInv
<1>2. FeedInv /\ [FeedNext]_feedVars => FeedInv' BY FeedStepInv
<1>3. FeedInv => FeedHolds BY FeedInvMeans
<1> QED BY <1>1, <1>2, <1>3, PTL DEF FeedSpec

-----------------------------------------------------------------------------
(* Webhooks and channels.                                                    *)
NotifyConstants ==
  /\ IsFiniteSet(Sender) /\ None \notin Hook \cup Channel \cup Url

SenderState ==
  [job: {"none", "hooks", "channels", "alert", "counting"}, targets: SUBSET (Hook \cup Channel),
   todo: SUBSET (Hook \cup Channel), at: Hook \cup Channel \cup Url \cup {None},
   ok: BOOLEAN, stale: BOOLEAN]

NotifyTyped ==
  /\ hooks \in [Hook -> [is: {"new", "registered", "gone"}, delivered: Nat, failed: Nat]]
  /\ sender \in [Sender -> SenderState]
  /\ settings \in [url: Url \cup {None}, enabled: BOOLEAN]
  /\ answered \in [Hook -> Nat] /\ channelled \in [Sender -> SUBSET Channel]

\* Webhooks that were registered once.
Known == {h \in Hook : hooks[h].is # "new"}

\* What a sender has before it, by its job.
AtWork(s) ==
  /\ sender[s].job = "none" => sender[s].todo = {} /\ sender[s].at = None
  /\ sender[s].job = "alert" => sender[s].todo = {} /\ sender[s].at \in Url
  /\ sender[s].job = "channels" =>
       /\ sender[s].at \in Channel \cup {None}
       /\ Channel = channelled[s] \cup sender[s].todo \cup ({sender[s].at} \ {None})
  /\ sender[s].job \in {"hooks", "counting"} =>
       /\ sender[s].todo \subseteq Known /\ sender[s].at \in Known \cup {None}
       /\ sender[s].job = "counting" => sender[s].at # None

Fresh(s) ==
  ~sender[s].stale =>
    /\ sender[s].job = "alert" => settings.enabled /\ settings.url = sender[s].at
    /\ sender[s].job \in {"hooks", "counting"} => sender[s].todo \subseteq Registered

Counting(h) == {s \in Running("counting") : sender[s].at = h}

Counted(h) ==
  /\ hooks[h].is = "registered" =>
       hooks[h].delivered + hooks[h].failed + Cardinality(Counting(h)) = answered[h]
  /\ hooks[h].is = "new" => hooks[h].delivered = 0 /\ hooks[h].failed = 0 /\ answered[h] = 0

NotifyInv ==
  /\ NotifyTyped
  /\ \A s \in Sender : AtWork(s) /\ Fresh(s)
  /\ \A h \in Hook : Counted(h)

LEMMA NotifyInitInv ==
  ASSUME NotifyConstants, NotifyInit
  PROVE  NotifyInv
<1>1. NotifyTyped
  <2>1. Rest \in SenderState BY DEF Rest, SenderState
  <2>2. hooks \in [Hook -> [is: {"new", "registered", "gone"}, delivered: Nat, failed: Nat]]
    BY DEF NotifyInit
  <2>3. sender \in [Sender -> SenderState] BY <2>1 DEF NotifyInit
  <2> QED BY <2>2, <2>3 DEF NotifyTyped, NotifyInit
<1>2. \A s \in Sender : AtWork(s) /\ Fresh(s) BY DEF NotifyInit, AtWork, Fresh, Rest
<1>3. \A h \in Hook : Counted(h) BY DEF NotifyInit, Counted
<1> QED BY <1>1, <1>2, <1>3 DEF NotifyInv

LEMMA CountingIsFinite ==
  ASSUME NotifyConstants
  PROVE  \A h : IsFiniteSet(Counting(h)) /\ Cardinality(Counting(h)) \in Nat
BY FS_Subset, FS_CardinalityType DEF Counting, Running, NotifyConstants

LEMMA RegisterInv ==
  ASSUME NotifyConstants, NotifyInv, NEW h \in Hook, Register(h)
  PROVE  NotifyInv'
<1> USE DEF NotifyConstants
<1>0. NotifyTyped /\ (\A s \in Sender : AtWork(s) /\ Fresh(s)) /\ \A g \in Hook : Counted(g)
  BY DEF NotifyInv
<1>1. /\ hooks[h].is = "new" /\ hooks' = [hooks EXCEPT ![h].is = "registered"]
      /\ UNCHANGED <<sender, settings, answered, channelled>>
  BY DEF Register
<1>2. /\ hooks' \in [Hook -> [is: {"new", "registered", "gone"}, delivered: Nat, failed: Nat]]
      /\ hooks'[h].is = "registered" /\ hooks'[h].delivered = hooks[h].delivered
      /\ hooks'[h].failed = hooks[h].failed /\ \A g \in Hook \ {h} : hooks'[g] = hooks[g]
  BY <1>0, <1>1 DEF NotifyTyped
<1>3. NotifyTyped' BY <1>0, <1>1, <1>2 DEF NotifyTyped
<1>4. Known \subseteq Known' /\ Registered \subseteq Registered' /\ h \notin Known
  BY <1>1, <1>2 DEF Known, Registered
<1>5. ASSUME NEW s \in Sender PROVE AtWork(s)' BY <1>0, <1>1, <1>4 DEF AtWork
<1>6. ASSUME NEW s \in Sender PROVE Fresh(s)' BY <1>0, <1>1, <1>4 DEF Fresh
<1>7. ASSUME NEW g \in Hook PROVE Counted(g)'
  <2>1. Counting(g)' = Counting(g) BY <1>1 DEF Counting, Running
  <2>2. Counting(h) = {} BY <1>0, <1>4 DEF AtWork, Counting, Running
  <2>3. Cardinality(Counting(h)) = 0 BY <2>2, FS_EmptySet
  <2>4. CASE g = h BY <1>0, <1>1, <1>2, <2>1, <2>3, <2>4 DEF Counted
  <2>5. CASE g # h BY <1>0, <1>1, <1>2, <2>1, <2>5 DEF Counted
  <2> QED BY <2>4, <2>5
<1> QED BY <1>3, <1>5, <1>6, <1>7 DEF NotifyInv

\* A mark on some senders changes nothing they have before them.
LEMMA MarkedSenders ==
  ASSUME NotifyConstants, NotifyTyped, NEW marked,
         sender' = [s \in Sender |-> IF s \in marked THEN [sender[s] EXCEPT !.stale = TRUE]
                                     ELSE sender[s]]
  PROVE  /\ sender' \in [Sender -> SenderState]
         /\ \A s \in Sender : /\ sender'[s].job = sender[s].job /\ sender'[s].todo = sender[s].todo
                              /\ sender'[s].at = sender[s].at
                              /\ s \in marked => sender'[s].stale
                              /\ s \notin marked => sender'[s] = sender[s]
<1> USE DEF NotifyConstants
<1>1. \A s \in Sender : sender[s] \in SenderState BY DEF NotifyTyped
<1>2. \A r \in SenderState : /\ [r EXCEPT !.stale = TRUE] \in SenderState
                             /\ [r EXCEPT !.stale = TRUE].job = r.job
                             /\ [r EXCEPT !.stale = TRUE].todo = r.todo
                             /\ [r EXCEPT !.stale = TRUE].at = r.at
                             /\ [r EXCEPT !.stale = TRUE].stale
  BY DEF SenderState
<1> QED BY <1>1, <1>2

LEMMA RemoveHookInv ==
  ASSUME NotifyConstants, NotifyInv, NEW h \in Hook, RemoveHook(h)
  PROVE  NotifyInv'
<1> USE DEF NotifyConstants
<1>0. NotifyTyped /\ (\A s \in Sender : AtWork(s) /\ Fresh(s)) /\ \A g \in Hook : Counted(g)
  BY DEF NotifyInv
<1> DEFINE marked == {s \in Sender : h \in sender[s].todo \cup {sender[s].at}}
<1>1. /\ hooks[h].is = "registered"
      /\ hooks' = [hooks EXCEPT ![h] = [is |-> "gone", delivered |-> 0, failed |-> 0]]
      /\ UNCHANGED <<settings, answered, channelled>>
  BY DEF RemoveHook, Registered
<1>2. sender' = [s \in Sender |-> IF s \in marked THEN [sender[s] EXCEPT !.stale = TRUE]
                                  ELSE sender[s]]
  BY DEF RemoveHook
<1>3. \A s \in Sender : s \notin marked => h \notin sender[s].todo /\ h # sender[s].at
  OBVIOUS
<1> HIDE DEF marked
<1>4. /\ sender' \in [Sender -> SenderState]
      /\ \A s \in Sender : /\ sender'[s].job = sender[s].job /\ sender'[s].todo = sender[s].todo
                           /\ sender'[s].at = sender[s].at
                           /\ s \in marked => sender'[s].stale
                           /\ s \notin marked => sender'[s] = sender[s]
  BY <1>0, <1>2, MarkedSenders
<1>5. /\ hooks' \in [Hook -> [is: {"new", "registered", "gone"}, delivered: Nat, failed: Nat]]
      /\ hooks'[h].is = "gone" /\ \A g \in Hook \ {h} : hooks'[g] = hooks[g]
  BY <1>0, <1>1 DEF NotifyTyped
<1>6. NotifyTyped' BY <1>0, <1>1, <1>4, <1>5 DEF NotifyTyped
<1>7. Known' = Known /\ Registered' = Registered \ {h}
  <2>1. Known' = Known BY <1>1, <1>5 DEF Known
  <2>2. Registered' = Registered \ {h} BY <1>1, <1>5 DEF Registered
  <2> QED BY <2>1, <2>2
<1>8. ASSUME NEW s \in Sender PROVE AtWork(s)' BY <1>0, <1>1, <1>4, <1>7 DEF AtWork
<1>9. ASSUME NEW s \in Sender PROVE Fresh(s)' BY <1>0, <1>1, <1>3, <1>4, <1>7 DEF Fresh
<1>10. ASSUME NEW g \in Hook PROVE Counted(g)'
  <2>1. Counting(g)' = Counting(g) BY <1>4 DEF Counting, Running
  <2>2. CASE g = h BY <1>5, <2>2 DEF Counted
  <2>3. CASE g # h BY <1>0, <1>1, <1>5, <2>1, <2>3 DEF Counted
  <2> QED BY <2>2, <2>3
<1> QED BY <1>6, <1>8, <1>9, <1>10 DEF NotifyInv

LEMMA UpdateSettingsInv ==
  ASSUME NotifyConstants, NotifyInv, NEW url \in Url \cup {None}, NEW usable \in BOOLEAN,
         UpdateSettings(url, usable)
  PROVE  NotifyInv'
<1> USE DEF NotifyConstants
<1>0. NotifyTyped /\ (\A s \in Sender : AtWork(s) /\ Fresh(s)) /\ \A g \in Hook : Counted(g)
  BY DEF NotifyInv
<1> DEFINE marked == {s \in Sender : sender[s].job = "alert"}
<1>1. settings' = [url |-> url, enabled |-> usable] /\ UNCHANGED <<hooks, answered, channelled>>
  BY DEF UpdateSettings
<1>2. sender' = [s \in Sender |-> IF s \in marked THEN [sender[s] EXCEPT !.stale = TRUE]
                                  ELSE sender[s]]
  BY DEF UpdateSettings
<1>3. \A s \in Sender : s \notin marked => sender[s].job # "alert" OBVIOUS
<1> HIDE DEF marked
<1>4. /\ sender' \in [Sender -> SenderState]
      /\ \A s \in Sender : /\ sender'[s].job = sender[s].job /\ sender'[s].todo = sender[s].todo
                           /\ sender'[s].at = sender[s].at
                           /\ s \in marked => sender'[s].stale
                           /\ s \notin marked => sender'[s] = sender[s]
  BY <1>0, <1>2, MarkedSenders
<1>5. NotifyTyped' BY <1>0, <1>1, <1>4 DEF NotifyTyped
<1>6. Known' = Known /\ Registered' = Registered BY <1>1 DEF Known, Registered
<1>7. ASSUME NEW s \in Sender PROVE AtWork(s)' BY <1>0, <1>1, <1>4, <1>6 DEF AtWork
<1>8. ASSUME NEW s \in Sender PROVE Fresh(s)' BY <1>0, <1>3, <1>4, <1>6 DEF Fresh
<1>9. ASSUME NEW g \in Hook PROVE Counted(g)'
  <2>1. Counting(g)' = Counting(g) BY <1>4 DEF Counting, Running
  <2> QED BY <1>0, <1>1, <2>1 DEF Counted
<1> QED BY <1>5, <1>7, <1>8, <1>9 DEF NotifyInv

\* What is left to show when one sender moved to a new state and no webhook was
\* counted: the sender itself, and who is about to count.
LEMMA OneSenderMoves ==
  ASSUME NotifyConstants, NotifyInv, NEW s \in Sender, NEW r \in SenderState,
         sender' = [sender EXCEPT ![s] = r], UNCHANGED <<hooks, settings, answered>>,
         channelled' \in [Sender -> SUBSET Channel],
         \A z \in Sender \ {s} : channelled'[z] = channelled[z],
         sender[s].job # "counting", r.job # "counting", AtWork(s)', Fresh(s)'
  PROVE  NotifyInv'
<1> USE DEF NotifyConstants
<1>0. NotifyTyped /\ (\A z \in Sender : AtWork(z) /\ Fresh(z)) /\ \A g \in Hook : Counted(g)
  BY DEF NotifyInv
<1>1. /\ sender' \in [Sender -> SenderState] /\ sender'[s] = r
      /\ \A z \in Sender \ {s} : sender'[z] = sender[z]
  BY <1>0 DEF NotifyTyped
<1>2. NotifyTyped' BY <1>0, <1>1 DEF NotifyTyped
<1>3. Known' = Known /\ Registered' = Registered BY DEF Known, Registered
<1>4. ASSUME NEW z \in Sender PROVE AtWork(z)' /\ Fresh(z)'
  <2>1. CASE z = s BY <2>1
  <2>2. CASE z # s
    <3>1. AtWork(z)' BY <1>0, <1>1, <1>3, <2>2 DEF AtWork
    <3>2. Fresh(z)' BY <1>0, <1>1, <1>3, <2>2 DEF Fresh
    <3> QED BY <3>1, <3>2
  <2> QED BY <2>1, <2>2
<1>5. ASSUME NEW g \in Hook PROVE Counted(g)'
  <2>1. Counting(g)' = Counting(g) BY <1>1 DEF Counting, Running
  <2> QED BY <1>0, <2>1 DEF Counted
<1> QED BY <1>2, <1>4, <1>5 DEF NotifyInv

LEMMA SenderStepInv ==
  ASSUME NotifyConstants, NotifyInv, NEW s \in Sender,
         \/ \E wanted \in SUBSET Hook : FireEvent(s, wanted)
         \/ DispatchAlert(s) \/ RaiseAlert(s) \/ NextTarget(s) \/ Finished(s)
  PROVE  NotifyInv'
<1> USE DEF NotifyConstants
<1>0. NotifyTyped /\ AtWork(s) /\ Fresh(s) BY DEF NotifyInv
<1>a. sender \in [Sender -> SenderState] /\ sender[s] \in SenderState BY <1>0 DEF NotifyTyped
<1>b. channelled \in [Sender -> SUBSET Channel] BY <1>0 DEF NotifyTyped
<1>c. Rest \in SenderState /\ Rest.job = "none" /\ Rest.todo = {} /\ Rest.at = None
  BY DEF Rest, SenderState
<1>1. ASSUME NEW wanted \in SUBSET Hook, FireEvent(s, wanted) PROVE NotifyInv'
  <2> DEFINE targets == Registered \cap wanted
             r == [Rest EXCEPT !.job = "hooks", !.targets = targets, !.todo = targets]
  <2>1. /\ sender[s] = Rest /\ sender' = [sender EXCEPT ![s] = r]
        /\ UNCHANGED <<hooks, settings, answered, channelled>>
    BY <1>1 DEF FireEvent
  <2>2. targets \subseteq Registered /\ Registered \subseteq Known /\ Known \subseteq Hook
    BY DEF Registered, Known
  <2>3. r \in SenderState /\ r.job = "hooks" /\ r.todo = targets /\ r.at = None
    BY <2>2 DEF Rest, SenderState
  <2> HIDE DEF r, targets
  <2>4. sender'[s] = r BY <1>a, <2>1
  <2>5. Known' = Known /\ Registered' = Registered BY <2>1 DEF Known, Registered
  <2>6. AtWork(s)' BY <2>2, <2>3, <2>4, <2>5 DEF AtWork
  <2>7. Fresh(s)' BY <2>2, <2>3, <2>4, <2>5 DEF Fresh
  <2> QED BY <1>b, <1>c, <2>1, <2>3, <2>6, <2>7, OneSenderMoves
<1>2. ASSUME DispatchAlert(s) PROVE NotifyInv'
  <2> DEFINE r == [Rest EXCEPT !.job = "channels", !.targets = Channel, !.todo = Channel]
  <2>1. /\ sender[s] = Rest /\ sender' = [sender EXCEPT ![s] = r]
        /\ channelled' = [channelled EXCEPT ![s] = {}] /\ UNCHANGED <<hooks, settings, answered>>
    BY <1>2 DEF DispatchAlert
  <2>3. r \in SenderState /\ r.job = "channels" /\ r.todo = Channel /\ r.at = None
    BY DEF Rest, SenderState
  <2> HIDE DEF r
  <2>4. sender'[s] = r BY <1>a, <2>1
  <2>5. /\ channelled' \in [Sender -> SUBSET Channel]
        /\ \A z \in Sender \ {s} : channelled'[z] = channelled[z]
    BY <1>b, <2>1
  <2>6. AtWork(s)' BY <1>b, <2>1, <2>3, <2>4 DEF AtWork
  <2>7. Fresh(s)' BY <2>3, <2>4 DEF Fresh
  <2> QED BY <1>c, <2>1, <2>3, <2>5, <2>6, <2>7, OneSenderMoves
<1>3. ASSUME RaiseAlert(s) PROVE NotifyInv'
  <2> DEFINE r == [Rest EXCEPT !.job = "alert", !.at = settings.url]
  <2>1. /\ sender[s] = Rest /\ sender' = [sender EXCEPT ![s] = r]
        /\ settings.enabled /\ settings.url # None
        /\ UNCHANGED <<hooks, settings, answered, channelled>>
    BY <1>3 DEF RaiseAlert
  <2>2. settings.url \in Url BY <1>0, <2>1 DEF NotifyTyped
  <2>3. r \in SenderState /\ r.job = "alert" /\ r.todo = {} /\ r.at = settings.url
    BY <2>2 DEF Rest, SenderState
  <2> HIDE DEF r
  <2>4. sender'[s] = r BY <1>a, <2>1
  <2>6. AtWork(s)' BY <2>2, <2>3, <2>4 DEF AtWork
  <2>7. Fresh(s)'
    <3>1. settings' = settings BY <2>1
    <3> QED BY <2>1, <2>3, <2>4, <3>1 DEF Fresh
  <2> QED BY <1>b, <1>c, <2>1, <2>3, <2>6, <2>7, OneSenderMoves
<1>4. ASSUME NextTarget(s) PROVE NotifyInv'
  <2>1. PICK t \in sender[s].todo : sender' = [sender EXCEPT ![s].at = t, ![s].todo = @ \ {t}]
    BY <1>4 DEF NextTarget
  <2>2. sender[s].at = None /\ UNCHANGED <<hooks, settings, answered, channelled>>
    BY <1>4 DEF NextTarget
  <2>3. PICK r : r = [sender[s] EXCEPT !.at = t, !.todo = @ \ {t}] OBVIOUS
  <2>4. /\ r \in SenderState /\ r.job = sender[s].job /\ r.todo = sender[s].todo \ {t}
        /\ r.at = t /\ r.stale = sender[s].stale
    BY <1>a, <2>3 DEF SenderState
  <2>5. sender' = [sender EXCEPT ![s] = r] /\ sender'[s] = r BY <1>a, <2>1, <2>3
  <2>6. Known' = Known /\ Registered' = Registered BY <2>2 DEF Known, Registered
  <2>7. sender[s].job # "counting" BY <1>0, <2>2 DEF AtWork
  <2>t. t # None BY <1>a DEF SenderState
  <2>8. AtWork(s)'
    <3>1. CASE sender[s].job = "channels"
      <4>1. Channel = channelled[s] \cup sender[s].todo \cup ({None} \ {None})
        BY <1>0, <2>2, <3>1 DEF AtWork
      <4>2. t \in Channel BY <4>1
      <4>3. Channel = channelled'[s] \cup (sender[s].todo \ {t}) \cup ({t} \ {None})
        BY <4>1, <2>2, <2>t
      <4> QED BY <2>4, <2>5, <3>1, <4>2, <4>3 DEF AtWork
    <3>2. CASE sender[s].job = "hooks"
      BY <1>0, <2>4, <2>5, <2>6, <3>2 DEF AtWork
    <3>3. CASE sender[s].job \in {"none", "alert"} BY <1>0, <3>3 DEF AtWork
    <3> QED BY <1>a, <2>7, <3>1, <3>2, <3>3 DEF SenderState
  <2>9. Fresh(s)'
    <3>1. sender[s].job # "alert" BY <1>0, <2>2 DEF AtWork
    <3> QED BY <1>0, <2>4, <2>5, <2>6, <3>1 DEF Fresh
  <2> QED BY <1>b, <2>2, <2>4, <2>5, <2>7, <2>8, <2>9, OneSenderMoves
<1>5. ASSUME Finished(s) PROVE NotifyInv'
  <2>1. /\ sender[s].at = None /\ sender' = [sender EXCEPT ![s] = Rest]
        /\ UNCHANGED <<hooks, settings, answered, channelled>>
    BY <1>5 DEF Finished
  <2>2. sender'[s] = Rest BY <1>a, <2>1
  <2>3. sender[s].job # "counting" BY <1>0, <2>1 DEF AtWork
  <2>4. AtWork(s)' /\ Fresh(s)' BY <1>c, <2>2 DEF AtWork, Fresh
  <2> QED BY <1>b, <1>c, <2>1, <2>3, <2>4, OneSenderMoves
<1> QED BY <1>1, <1>2, <1>3, <1>4, <1>5

LEMMA AttemptInv ==
  ASSUME NotifyConstants, NotifyInv, NEW s \in Sender, NEW ok \in BOOLEAN, Attempt(s, ok)
  PROVE  NotifyInv'
<1> USE DEF NotifyConstants
<1>0. NotifyTyped /\ (\A z \in Sender : AtWork(z) /\ Fresh(z)) /\ \A g \in Hook : Counted(g)
  BY DEF NotifyInv
<1>a. sender \in [Sender -> SenderState] /\ sender[s] \in SenderState BY <1>0 DEF NotifyTyped
<1>b. channelled \in [Sender -> SUBSET Channel] BY <1>0 DEF NotifyTyped
<1>c. Rest \in SenderState /\ Rest.job = "none" /\ Rest.todo = {} /\ Rest.at = None
  BY DEF Rest, SenderState
<1>d. sender[s].at # None /\ sender[s].job # "counting" /\ UNCHANGED <<hooks, settings>>
  BY DEF Attempt
<1>e. sender[s].job # "none" BY <1>0, <1>d DEF AtWork
<1>1. CASE sender[s].job = "hooks"
  <2>1. PICK h : h = sender[s].at OBVIOUS
  <2>2. /\ answered' = [answered EXCEPT ![h] = @ + 1]
        /\ sender' = [sender EXCEPT ![s].job = "counting", ![s].ok = ok] /\ UNCHANGED channelled
    BY <1>1, <2>1 DEF Attempt
  <2>3. h \in Known /\ h \in Hook BY <1>0, <1>1, <1>d, <2>1 DEF AtWork, Known
  <2>4. PICK r : r = [sender[s] EXCEPT !.job = "counting", !.ok = ok] OBVIOUS
  <2>5. /\ r \in SenderState /\ r.job = "counting" /\ r.todo = sender[s].todo
        /\ r.at = sender[s].at /\ r.stale = sender[s].stale
    BY <1>a, <2>4 DEF SenderState
  <2>6. sender' = [sender EXCEPT ![s] = r] BY <1>a, <2>2, <2>4
  <2>7. /\ sender' \in [Sender -> SenderState] /\ sender'[s] = r
        /\ \A z \in Sender \ {s} : sender'[z] = sender[z]
    BY <1>a, <2>5, <2>6
  <2>8. /\ answered' \in [Hook -> Nat] /\ answered'[h] = answered[h] + 1
        /\ \A g \in Hook \ {h} : answered'[g] = answered[g]
    BY <1>0, <2>2, <2>3 DEF NotifyTyped
  <2>9. NotifyTyped' BY <1>0, <1>d, <2>2, <2>7, <2>8 DEF NotifyTyped
  <2>10. Known' = Known /\ Registered' = Registered BY <1>d DEF Known, Registered
  <2>11. ASSUME NEW z \in Sender PROVE AtWork(z)' /\ Fresh(z)'
    <3>1. CASE z = s
      <4>1. AtWork(s)' BY <1>0, <1>1, <1>d, <2>5, <2>7, <2>10 DEF AtWork
      <4>2. Fresh(s)' BY <1>0, <1>1, <2>5, <2>7, <2>10 DEF Fresh
      <4> QED BY <3>1, <4>1, <4>2
    <3>2. CASE z # s
      <4>1. AtWork(z)' BY <1>0, <2>2, <2>7, <2>10, <3>2 DEF AtWork
      <4>2. Fresh(z)' BY <1>0, <1>d, <2>7, <2>10, <3>2 DEF Fresh
      <4> QED BY <4>1, <4>2
    <3> QED BY <3>1, <3>2
  <2>12. ASSUME NEW g \in Hook PROVE Counted(g)'
    <3>1. CASE g # h
      <4>1. Counting(g)' = Counting(g) BY <1>d, <2>1, <2>5, <2>7, <3>1 DEF Counting, Running
      <4> QED BY <1>0, <1>d, <2>8, <3>1, <4>1 DEF Counted
    <3>2. CASE g = h
      <4>1. Counting(h)' = Counting(h) \cup {s} BY <2>1, <2>5, <2>7 DEF Counting, Running
      <4>2. s \notin Counting(h) BY <1>1 DEF Counting, Running
      <4>3. IsFiniteSet(Counting(h)) /\ Cardinality(Counting(h)) \in Nat BY CountingIsFinite
      <4>4. Cardinality(Counting(h) \cup {s}) = Cardinality(Counting(h)) + 1
        BY <4>2, <4>3, FS_AddElement
      <4>5. Cardinality(Counting(h)') = Cardinality(Counting(h)) + 1 BY <4>1, <4>4
      <4>6. Counted(h) /\ hooks[h].is # "new" BY <1>0, <2>3 DEF Known
      <4>7. hooks[h].delivered \in Nat /\ hooks[h].failed \in Nat /\ answered[h] \in Nat
        BY <1>0, <2>3 DEF NotifyTyped
      <4> QED BY <1>d, <2>8, <3>2, <4>3, <4>5, <4>6, <4>7 DEF Counted
    <3> QED BY <3>1, <3>2
  <2> QED BY <2>9, <2>11, <2>12 DEF NotifyInv
<1>2. CASE sender[s].job = "channels"
  <2>1. PICK c : c = sender[s].at OBVIOUS
  <2>2. /\ channelled' = [channelled EXCEPT ![s] = @ \cup {c}]
        /\ sender' = [sender EXCEPT ![s].at = None] /\ UNCHANGED answered
    BY <1>2, <2>1 DEF Attempt
  <2>3. c \in Channel /\ Channel = channelled[s] \cup sender[s].todo \cup ({c} \ {None})
    BY <1>0, <1>2, <1>d, <2>1 DEF AtWork
  <2>4. PICK r : r = [sender[s] EXCEPT !.at = None] OBVIOUS
  <2>5. /\ r \in SenderState /\ r.job = "channels" /\ r.todo = sender[s].todo /\ r.at = None
    BY <1>2, <1>a, <2>4 DEF SenderState
  <2>6. sender' = [sender EXCEPT ![s] = r] /\ sender'[s] = r BY <1>a, <2>2, <2>4
  <2>7. /\ channelled' \in [Sender -> SUBSET Channel]
        /\ \A z \in Sender \ {s} : channelled'[z] = channelled[z]
        /\ channelled'[s] = channelled[s] \cup {c}
    BY <1>b, <2>2, <2>3
  <2>8. Channel = channelled'[s] \cup r.todo \cup ({None} \ {None}) BY <2>3, <2>5, <2>7, <1>d, <2>1
  <2>9. AtWork(s)' BY <2>5, <2>6, <2>8 DEF AtWork
  <2>10. Fresh(s)' BY <2>5, <2>6 DEF Fresh
  <2> QED BY <1>2, <1>d, <2>2, <2>5, <2>6, <2>7, <2>9, <2>10, OneSenderMoves
<1>3. CASE sender[s].job = "alert"
  <2>1. sender' = [sender EXCEPT ![s] = Rest] /\ UNCHANGED <<answered, channelled>>
    BY <1>3 DEF Attempt
  <2>2. sender'[s] = Rest BY <1>a, <2>1
  <2>3. AtWork(s)' /\ Fresh(s)' BY <1>c, <2>2 DEF AtWork, Fresh
  <2> QED BY <1>3, <1>b, <1>c, <1>d, <2>1, <2>3, OneSenderMoves
<1> QED BY <1>a, <1>d, <1>e, <1>1, <1>2, <1>3 DEF SenderState

LEMMA BumpInv ==
  ASSUME NotifyConstants, NotifyInv, NEW s \in Sender, Bump(s)
  PROVE  NotifyInv'
<1> USE DEF NotifyConstants
<1>0. NotifyTyped /\ (\A z \in Sender : AtWork(z) /\ Fresh(z)) /\ \A g \in Hook : Counted(g)
  BY DEF NotifyInv
<1>a. sender \in [Sender -> SenderState] /\ sender[s] \in SenderState BY <1>0 DEF NotifyTyped
<1>1. PICK h : h = sender[s].at OBVIOUS
<1>2. /\ sender[s].job = "counting" /\ UNCHANGED <<settings, answered, channelled>>
      /\ sender' = [sender EXCEPT ![s].job = "hooks", ![s].at = None]
      /\ hooks' = IF h \notin Registered THEN hooks
                  ELSE IF sender[s].ok THEN [hooks EXCEPT ![h].delivered = @ + 1]
                  ELSE [hooks EXCEPT ![h].failed = @ + 1]
  BY <1>1 DEF Bump
<1>3. h \in Known /\ h \in Hook BY <1>0, <1>1, <1>2 DEF AtWork, Known
<1>4. PICK r : r = [sender[s] EXCEPT !.job = "hooks", !.at = None] OBVIOUS
<1>5. /\ r \in SenderState /\ r.job = "hooks" /\ r.todo = sender[s].todo
      /\ r.at = None /\ r.stale = sender[s].stale
  BY <1>a, <1>4 DEF SenderState
<1>6. sender' = [sender EXCEPT ![s] = r] BY <1>a, <1>2, <1>4
<1>7. /\ sender' \in [Sender -> SenderState] /\ sender'[s] = r
      /\ \A z \in Sender \ {s} : sender'[z] = sender[z]
  BY <1>a, <1>5, <1>6
<1>8. /\ hooks' \in [Hook -> [is: {"new", "registered", "gone"}, delivered: Nat, failed: Nat]]
      /\ \A g \in Hook : hooks'[g].is = hooks[g].is
      /\ \A g \in Hook \ {h} : hooks'[g] = hooks[g]
      /\ hooks[h].is = "registered" =>
           hooks'[h].delivered + hooks'[h].failed = hooks[h].delivered + hooks[h].failed + 1
  <2>1. hooks \in [Hook -> [is: {"new", "registered", "gone"}, delivered: Nat, failed: Nat]]
    BY <1>0 DEF NotifyTyped
  <2>2. CASE h \notin Registered BY <1>2, <1>3, <2>1, <2>2 DEF Registered
  <2>3. CASE h \in Registered /\ sender[s].ok BY <1>2, <1>3, <2>1, <2>3
  <2>4. CASE h \in Registered /\ ~sender[s].ok BY <1>2, <1>3, <2>1, <2>4
  <2> QED BY <2>2, <2>3, <2>4
<1>9. NotifyTyped' BY <1>0, <1>2, <1>7, <1>8 DEF NotifyTyped
<1>10. Known' = Known /\ Registered' = Registered
  <2>1. Known' = Known BY <1>8 DEF Known
  <2>2. Registered' = Registered BY <1>8 DEF Registered
  <2> QED BY <2>1, <2>2
<1>11. ASSUME NEW z \in Sender PROVE AtWork(z)' /\ Fresh(z)'
  <2>1. CASE z = s
    <3>1. AtWork(s)' BY <1>0, <1>2, <1>5, <1>7, <1>10 DEF AtWork
    <3>2. Fresh(s)' BY <1>0, <1>2, <1>5, <1>7, <1>10 DEF Fresh
    <3> QED BY <2>1, <3>1, <3>2
  <2>2. CASE z # s
    <3>1. AtWork(z)' BY <1>0, <1>2, <1>7, <1>10, <2>2 DEF AtWork
    <3>2. Fresh(z)' BY <1>0, <1>2, <1>7, <1>10, <2>2 DEF Fresh
    <3> QED BY <3>1, <3>2
  <2> QED BY <2>1, <2>2
<1>12. ASSUME NEW g \in Hook PROVE Counted(g)'
  <2>1. CASE g # h
    <3>1. Counting(g)' = Counting(g) BY <1>1, <1>5, <1>7, <2>1 DEF Counting, Running
    <3> QED BY <1>0, <1>2, <1>8, <2>1, <3>1 DEF Counted
  <2>2. CASE g = h
    <3>1. Counting(h)' = Counting(h) \ {s} BY <1>1, <1>2, <1>5, <1>7 DEF Counting, Running
    <3>2. s \in Counting(h) BY <1>1, <1>2 DEF Counting, Running
    <3>3. IsFiniteSet(Counting(h)) /\ Cardinality(Counting(h)) \in Nat BY CountingIsFinite
    <3>4. Cardinality(Counting(h) \ {s}) = Cardinality(Counting(h)) - 1
      BY <3>2, <3>3, FS_RemoveElement
    <3>5. Cardinality(Counting(h)') = Cardinality(Counting(h)) - 1 BY <3>1, <3>4
    <3>6. Counted(h) /\ hooks[h].is # "new" BY <1>0, <1>3 DEF Known
    <3>7. /\ hooks[h].delivered \in Nat /\ hooks[h].failed \in Nat /\ answered[h] \in Nat
          /\ hooks'[h].delivered \in Nat /\ hooks'[h].failed \in Nat
      BY <1>0, <1>3, <1>8 DEF NotifyTyped
    <3> QED BY <1>2, <1>8, <2>2, <3>3, <3>5, <3>6, <3>7 DEF Counted
  <2> QED BY <2>1, <2>2
<1> QED BY <1>9, <1>11, <1>12 DEF NotifyInv

LEMMA NotifyStepInv ==
  ASSUME NotifyConstants, NotifyInv, [NotifyNext]_notifyVars
  PROVE  NotifyInv'
<1>1. CASE UNCHANGED notifyVars
  <2>1. UNCHANGED <<hooks, sender, settings, answered, channelled>> BY <1>1 DEF notifyVars
  <2> QED BY <2>1 DEF NotifyInv, NotifyTyped, AtWork, Fresh, Counted, Known, Registered, Counting,
                      Running
<1>2. CASE NotifyNext BY <1>2, RegisterInv, RemoveHookInv, UpdateSettingsInv, SenderStepInv,
                         AttemptInv, BumpInv DEF NotifyNext
<1> QED BY <1>1, <1>2

LEMMA NotifyInvMeans ==
  ASSUME NotifyConstants, NotifyInv
  PROVE  NotifyHolds
<1>0. NotifyTyped /\ (\A s \in Sender : AtWork(s) /\ Fresh(s)) /\ \A g \in Hook : Counted(g)
  BY DEF NotifyInv
<1>1. \A h \in Registered :
        hooks[h].delivered + hooks[h].failed
          + Cardinality({s \in Running("counting") : sender[s].at = h}) = answered[h]
  BY <1>0 DEF Counted, Counting, Registered
<1>2. \A s \in Running("channels") :
        sender[s].todo = {} /\ sender[s].at = None => channelled[s] = Channel
  BY <1>0 DEF Running, AtWork
<1>3. \A s \in Sender : ~sender[s].stale =>
        /\ sender[s].job = "alert" => settings.enabled /\ settings.url = sender[s].at
        /\ sender[s].job = "hooks" => sender[s].todo \subseteq Registered
  BY <1>0 DEF Fresh
<1> QED BY <1>1, <1>2, <1>3 DEF NotifyHolds

\* What is sent adds up (alerting/webhooks.rs, fire_event; channels.rs; mod.rs): the
\* counts of a webhook are its attempts, no channel is skipped, and only a sender
\* that began before knows what is removed or replaced since.
THEOREM NotificationsAddUp ==
  ASSUME NotifyConstants
  PROVE  NotifySpec => []NotifyHolds
<1>1. NotifyInit => NotifyInv BY NotifyInitInv
<1>2. NotifyInv /\ [NotifyNext]_notifyVars => NotifyInv' BY NotifyStepInv
<1>3. NotifyInv => NotifyHolds BY NotifyInvMeans
<1> QED BY <1>1, <1>2, <1>3, PTL DEF NotifySpec

-----------------------------------------------------------------------------
(* The configuration.                                                        *)
SettingsConstants == 0 \notin Patterns /\ Broken \notin Config

SettingsTyped ==
  /\ file \in Config \cup {Broken} /\ writes \in Seq(Config)
  /\ watching \in {"off", "waiting", "debounced"}
  /\ pending \in BOOLEAN /\ up \in BOOLEAN /\ overlap \in BOOLEAN /\ missed \in BOOLEAN
  /\ up => sharedConfig \in Config /\ installed \in [limit: Limits, waf: Patterns, hash: Patterns \cup {0}]

\* The file loaded last, written or not.
Latest == IF writes = <<>> THEN base ELSE writes[1]

\* What the file is while nothing announces a change of it.
FileIsFollowed ==
  /\ ~overlap => Len(writes) <= 1
  /\ up /\ watching = "off" => ~pending /\ writes = <<>>
  /\ up /\ ~overlap /\ ~missed /\ ~pending /\ watching # "debounced" => file \in {Latest, Broken}

\* The hash the sync task remembers is that of the patterns the WAF has.
HashIsTrue == up => /\ installed.hash # 0 => installed.waf = installed.hash
                    /\ \A s \in Sections \ dirty : installed[s] = sharedConfig[s]

SettingsInv == SettingsTyped /\ FileIsFollowed /\ HashIsTrue

LEMMA SettingsInitInv ==
  ASSUME SettingsConstants, SettingsInit
  PROVE  SettingsInv
<1>1. PICK c \in Config :
        /\ file = c /\ sharedConfig = c /\ base = c /\ up = Validate(c)
        /\ installed = [limit |-> c.limit, waf |-> c.waf, hash |-> 0]
        /\ watching = "off" /\ pending = FALSE /\ writes = <<>>
        /\ dirty = {} /\ overlap = FALSE /\ missed = FALSE
  BY DEF SettingsInit
<1>2. Validate(c) \in BOOLEAN BY DEF Validate
<1>3. up \in BOOLEAN BY <1>1, <1>2, Zenon
<1>4. c.limit \in Limits /\ c.waf \in Patterns BY DEF Config
<1>5. SettingsTyped
  <2>1. sharedConfig \in Config /\ installed \in [limit: Limits, waf: Patterns, hash: Patterns \cup {0}]
    BY <1>1, <1>4
  <2>2. file \in Config \cup {Broken} /\ writes \in Seq(Config) BY <1>1
  <2> QED BY <1>1, <1>3, <2>1, <2>2, Zenon DEF SettingsTyped
<1>6. FileIsFollowed BY <1>1 DEF FileIsFollowed, Latest
<1>7. HashIsTrue BY <1>1 DEF HashIsTrue, Sections
<1> QED BY <1>5, <1>6, <1>7 DEF SettingsInv

LEMMA BootInv ==
  ASSUME SettingsConstants, SettingsInv, Boot
  PROVE  SettingsInv'
<1>1. PICK c : c = IF file = Broken THEN Default ELSE file OBVIOUS
<1>2. /\ up' = Validate(c) /\ sharedConfig' = c /\ base' = c /\ file' = file
      /\ installed' = [limit |-> c.limit, waf |-> c.waf, hash |-> 0]
      /\ watching' = "off" /\ pending' = FALSE /\ writes' = <<>>
      /\ dirty' = {} /\ overlap' = FALSE /\ missed' = FALSE
  BY <1>1 DEF Boot, Booted
<1>3. up' \in BOOLEAN
  <2>1. Validate(c) \in BOOLEAN BY DEF Validate
  <2> QED BY <1>2, <2>1, Zenon
<1>4. up' => c \in Config
  <2>1. CASE file = Broken
    <3>1. ~Validate(Default) BY DEF Validate, Default
    <3> QED BY <1>1, <1>2, <2>1, <3>1, Zenon
  <2>2. CASE file # Broken BY <1>1, <2>2 DEF SettingsInv, SettingsTyped
  <2> QED BY <2>1, <2>2
<1>5. c \in Config => c.limit \in Limits /\ c.waf \in Patterns BY DEF Config
<1>6. file \in Config \cup {Broken} BY DEF SettingsInv, SettingsTyped
<1>7. SettingsTyped'
  <2>1. c \in Config => installed' \in [limit: Limits, waf: Patterns, hash: Patterns \cup {0}]
    BY <1>2, <1>5
  <2>2. writes' \in Seq(Config) BY <1>2
  <2> QED BY <1>2, <1>3, <1>4, <1>6, <2>1, <2>2, Zenon DEF SettingsTyped
<1>8. FileIsFollowed' BY <1>1, <1>2 DEF FileIsFollowed, Latest
<1>9. HashIsTrue' BY <1>2 DEF HashIsTrue, Sections
<1> QED BY <1>7, <1>8, <1>9 DEF SettingsInv

\* A save, and what the watcher does with it.
LEMMA FileStepInv ==
  ASSUME SettingsConstants, SettingsInv,
         (\E c \in Config \cup {Broken} : SaveFile(c)) \/ StartWatch \/ Debounce \/ LoadFile
  PROVE  SettingsInv'
<1>0. SettingsTyped /\ FileIsFollowed /\ HashIsTrue BY DEF SettingsInv
<1>1. UNCHANGED <<sharedConfig, installed, up, base, dirty>>
  BY DEF SaveFile, StartWatch, Debounce, LoadFile
<1>2. HashIsTrue' BY <1>0, <1>1 DEF HashIsTrue
<1>3. ASSUME NEW c \in Config \cup {Broken}, SaveFile(c) PROVE SettingsTyped' /\ FileIsFollowed'
  <2>1. /\ file' = c /\ pending' = (up /\ watching # "off")
        /\ missed' = (missed \/ (up /\ watching = "off")) /\ UNCHANGED <<watching, writes, overlap>>
    BY <1>3 DEF SaveFile
  <2>2. pending' \in BOOLEAN /\ missed' \in BOOLEAN BY <2>1, Zenon
  <2>3. SettingsTyped' BY <1>0, <1>1, <2>1, <2>2 DEF SettingsTyped
  <2>4. up /\ watching # "off" => pending' BY <2>1, Zenon
  <2>5. up /\ watching = "off" => missed' /\ ~pending' BY <2>1, Zenon
  <2>6. FileIsFollowed' BY <1>0, <1>1, <2>1, <2>4, <2>5 DEF FileIsFollowed
  <2> QED BY <2>3, <2>6
<1>4. CASE StartWatch
  <2>1. UNCHANGED <<file, pending, writes, overlap, missed>> /\ watching' = "waiting" /\ watching = "off"
    BY <1>4 DEF StartWatch
  <2>2. SettingsTyped' BY <1>0, <1>1, <2>1 DEF SettingsTyped
  <2>3. FileIsFollowed' BY <1>0, <1>1, <2>1 DEF FileIsFollowed, Latest
  <2> QED BY <1>2, <2>2, <2>3 DEF SettingsInv
<1>5. CASE Debounce
  <2>1. UNCHANGED <<file, writes, overlap, missed>> /\ watching' = "debounced" /\ pending' = FALSE
    BY <1>5 DEF Debounce
  <2>2. SettingsTyped' BY <1>0, <1>1, <2>1 DEF SettingsTyped
  <2>3. FileIsFollowed' BY <1>0, <1>1, <2>1 DEF FileIsFollowed
  <2> QED BY <1>2, <2>2, <2>3 DEF SettingsInv
<1>6. CASE LoadFile
  <2>1. /\ UNCHANGED <<file, pending, missed>> /\ watching' = "waiting"
        /\ writes' = (IF file = Broken THEN writes ELSE Append(writes, file))
        /\ overlap' = (overlap \/ (file # Broken /\ writes # <<>>))
    BY <1>6 DEF LoadFile
  <2>2. overlap' \in BOOLEAN /\ (~overlap' => ~overlap /\ (file = Broken \/ writes = <<>>))
    BY <2>1, Zenon
  <2>3. CASE file = Broken
    <3>1. writes' = writes BY <2>1, <2>3
    <3>2. SettingsTyped' BY <1>0, <1>1, <2>1, <2>2, <3>1 DEF SettingsTyped
    <3>3. FileIsFollowed' BY <1>0, <1>1, <2>1, <2>2, <2>3, <3>1 DEF FileIsFollowed
    <3> QED BY <1>2, <3>2, <3>3 DEF SettingsInv
  <2>4. CASE file # Broken
    <3>0. file \in Config /\ writes \in Seq(Config) BY <1>0, <2>4 DEF SettingsTyped
    <3>1. writes' = Append(writes, file) /\ writes' \in Seq(Config) BY <2>1, <2>4, <3>0
    <3>2. SettingsTyped' BY <1>0, <1>1, <2>1, <2>2, <3>1 DEF SettingsTyped
    <3>3. ~overlap' => writes' # <<>> /\ Len(writes') = 1 /\ writes'[1] = file
      BY <2>2, <2>4, <3>0, <3>1
    <3>4. FileIsFollowed' BY <1>0, <1>1, <2>1, <2>2, <3>3 DEF FileIsFollowed, Latest
    <3> QED BY <1>2, <3>2, <3>4 DEF SettingsInv
  <2> QED BY <2>3, <2>4
<1> QED BY <1>2, <1>3, <1>4, <1>5, <1>6 DEF SettingsInv

LEMMA WriteLoadedInv ==
  ASSUME SettingsConstants, SettingsInv, NEW i, WriteLoaded(i)
  PROVE  SettingsInv'
<1>0. SettingsTyped /\ FileIsFollowed /\ HashIsTrue BY DEF SettingsInv
<1>1. /\ up /\ i \in DOMAIN writes /\ sharedConfig' = writes[i] /\ base' = writes[i]
      /\ dirty' = Sections
      /\ writes' = SubSeq(writes, 1, i - 1) \o SubSeq(writes, i + 1, Len(writes))
      /\ UNCHANGED <<file, pending, watching, installed, up, overlap, missed>>
  BY DEF WriteLoaded
<1>2. writes \in Seq(Config) /\ i \in 1..Len(writes) /\ Len(writes) \in Nat
  BY <1>0, <1>1 DEF SettingsTyped
<1>3. PICK a, b : a = SubSeq(writes, 1, i - 1) /\ b = SubSeq(writes, i + 1, Len(writes)) OBVIOUS
<1>4. a \in Seq(Config) /\ b \in Seq(Config) /\ Len(a) = i - 1 /\ Len(b) = Len(writes) - i
  BY <1>2, <1>3
<1>5. writes' \in Seq(Config) /\ Len(writes') = Len(writes) - 1
  <2>1. writes' = a \o b BY <1>1, <1>3
  <2>2. a \o b \in Seq(Config) /\ Len(a \o b) = Len(a) + Len(b) BY <1>4
  <2> QED BY <1>2, <1>4, <2>1, <2>2
<1>6. writes[i] \in Config BY <1>2
<1>7. SettingsTyped' BY <1>0, <1>1, <1>5, <1>6 DEF SettingsTyped
<1>8. ~overlap => i = 1 /\ writes # <<>> /\ writes' = <<>> BY <1>0, <1>2, <1>5 DEF FileIsFollowed
<1>9. FileIsFollowed'
  <2>a. ~overlap => Len(writes') <= 1
    <3>1. ~overlap => Len(writes) <= 1 BY <1>0 DEF FileIsFollowed
    <3> QED BY <1>2, <1>5, <3>1
  <2>1. ~overlap' => Len(writes') <= 1
    <3>1. overlap' = overlap BY <1>1
    <3> QED BY <2>a, <3>1, Zenon
  <2>2. watching # "off" BY <1>0, <1>1, <1>2 DEF FileIsFollowed
  <2>3. ~overlap => Latest' = Latest BY <1>1, <1>8 DEF Latest
  <2> QED BY <1>0, <1>1, <2>1, <2>2, <2>3 DEF FileIsFollowed
<1>10. HashIsTrue' BY <1>0, <1>1 DEF HashIsTrue
<1> QED BY <1>7, <1>9, <1>10 DEF SettingsInv

\* PUT, and a tick of the sync task.
LEMMA InstallInv ==
  ASSUME SettingsConstants, SettingsInv, Sync \/ \E l \in Limits : PutLimit(l)
  PROVE  SettingsInv'
<1>0. SettingsTyped /\ FileIsFollowed /\ HashIsTrue BY DEF SettingsInv
<1>1. UNCHANGED <<file, pending, watching, writes, up, base, overlap, missed>> /\ up
  BY DEF Sync, PutLimit
<1>2. FileIsFollowed' BY <1>0, <1>1 DEF FileIsFollowed, Latest
<1>3. /\ sharedConfig \in Config
      /\ installed \in [limit: Limits, waf: Patterns, hash: Patterns \cup {0}]
  BY <1>0, <1>1 DEF SettingsTyped
<1>4. sharedConfig.limit \in Limits /\ sharedConfig.waf \in Patterns BY <1>3 DEF Config
<1>5. CASE Sync
  <2>1. /\ sharedConfig' = sharedConfig /\ dirty' = {} /\ installed'.limit = sharedConfig.limit
        /\ installed'.hash = sharedConfig.waf
        /\ installed'.waf = IF sharedConfig.waf # installed.hash THEN sharedConfig.waf ELSE installed.waf
        /\ installed' \in [limit: Limits, waf: Patterns, hash: Patterns \cup {0}]
    BY <1>3, <1>4, <1>5 DEF Sync
  <2>2. sharedConfig.waf # 0 BY <1>4 DEF SettingsConstants
  <2>3. installed'.waf = sharedConfig.waf BY <1>0, <1>1, <2>1, <2>2 DEF HashIsTrue
  <2>4. HashIsTrue' BY <2>1, <2>3 DEF HashIsTrue, Sections
  <2>5. SettingsTyped' BY <1>0, <1>1, <1>3, <2>1 DEF SettingsTyped
  <2> QED BY <1>2, <2>4, <2>5 DEF SettingsInv
<1>6. ASSUME NEW l \in Limits, PutLimit(l) PROVE SettingsInv'
  <2>1. /\ sharedConfig' = [sharedConfig EXCEPT !.limit = l]
        /\ installed' = [installed EXCEPT !.limit = l] /\ dirty' = dirty \ {"limit"}
    BY <1>6 DEF PutLimit
  <2>2. /\ sharedConfig' \in Config /\ sharedConfig'.limit = l /\ sharedConfig'.waf = sharedConfig.waf
    BY <1>3, <2>1 DEF Config
  <2>3. /\ installed' \in [limit: Limits, waf: Patterns, hash: Patterns \cup {0}]
        /\ installed'.limit = l /\ installed'.waf = installed.waf /\ installed'.hash = installed.hash
    BY <1>3, <2>1
  <2>4. HashIsTrue' BY <1>0, <1>1, <2>1, <2>2, <2>3 DEF HashIsTrue, Sections
  <2>5. SettingsTyped' BY <1>0, <1>1, <2>2, <2>3 DEF SettingsTyped
  <2> QED BY <1>2, <2>4, <2>5 DEF SettingsInv
<1> QED BY <1>5, <1>6

LEMMA SettingsStepInv ==
  ASSUME SettingsConstants, SettingsInv, [SettingsNext]_settingsVars
  PROVE  SettingsInv'
<1>1. CASE UNCHANGED settingsVars
  <2>1. UNCHANGED <<file, pending, watching, writes, sharedConfig, installed, up, base, dirty,
                    overlap, missed>>
    BY <1>1 DEF settingsVars
  <2> QED BY <2>1 DEF SettingsInv, SettingsTyped, FileIsFollowed, HashIsTrue, Latest
<1>2. CASE SettingsNext
  BY <1>2, BootInv, FileStepInv, WriteLoadedInv, InstallInv DEF SettingsNext
<1> QED BY <1>1, <1>2

LEMMA SettingsInvMeans ==
  ASSUME SettingsInv
  PROVE  SettingsAreCurrent
<1>1. SettingsTyped /\ FileIsFollowed /\ HashIsTrue BY DEF SettingsInv
<1>2. up /\ ~pending /\ watching = "waiting" /\ writes = <<>> /\ ~overlap /\ ~missed
        => file \in {base, Broken}
  BY <1>1 DEF FileIsFollowed, Latest
<1>3. up => \A s \in Sections \ dirty : installed[s] = sharedConfig[s] BY <1>1 DEF HashIsTrue
<1> QED BY <1>2, <1>3 DEF SettingsAreCurrent

LEMMA ChecksOfJwt == JwtChecksAgree
BY DEF JwtChecksAgree, Algorithms, Secrets, ValidJwt, NewJwt

\* However saves, loads, PUT, the sync task and restarts interleave, what runs is the
\* file saved last, but where two loads overlapped or a save came before the watch
\* (config/mod.rs, the watcher; bootstrap/state.rs, spawn_config_sync).
THEOREM ReloadsArrive ==
  ASSUME SettingsConstants
  PROVE  SettingsSpec => []SettingsAreCurrent
<1>1. SettingsInit => SettingsInv BY SettingsInitInv
<1>2. SettingsInv /\ [SettingsNext]_settingsVars => SettingsInv' BY SettingsStepInv
<1>3. SettingsInv => SettingsAreCurrent BY SettingsInvMeans
<1> QED BY <1>1, <1>2, <1>3, PTL DEF SettingsSpec

-----------------------------------------------------------------------------
(* Releases and flags.                                                       *)
RolloutConstants == Buckets \in Nat

RolloutTyped ==
  /\ release \in [status: {"Active", "RolledBack"}, active: {"blue", "green"}, rollbacks: Nat]
  /\ before \in {"blue", "green"} /\ switches \in Nat
  /\ flag \in [enabled: BOOLEAN, percentage: 0..Buckets, rules: SUBSET Rules, evals: Nat, trues: Nat]

\* Before the rollback as well as after it, the colour before the last switch is
\* the other one or the restored one.
ColourIsKnown ==
  /\ release.status = "Active" =>
       release.rollbacks = 0 /\ (switches > 0 => before = FlipColor(release.active))
  /\ release.status = "RolledBack" =>
       release.rollbacks = 1 /\ (switches > 0 => release.active = before)

FlagIsCounted ==
  /\ flag.trues <= flag.evals /\ (flag.trues > 0 <=> on # {})
  /\ \A c \in on : HashOf[c] < flag.percentage \/ flag.percentage = Buckets

RolloutInv == RolloutTyped /\ ColourIsKnown /\ FlagIsCounted

LEMMA RolloutInitInv ==
  ASSUME RolloutConstants, RolloutInit
  PROVE  RolloutInv
BY DEF RolloutConstants, RolloutInit, NewFlag, RolloutInv, RolloutTyped, ColourIsKnown, FlagIsCounted

\* A call on the release.
LEMMA ReleaseInv ==
  ASSUME RolloutInv, Switch \/ CheckRollback
  PROVE  RolloutInv'
<1>1. FlagIsCounted' BY DEF RolloutInv, FlagIsCounted, Switch, CheckRollback
<1>2. CASE Switch
  <2>1. PICK new : new = FlipColor(release.active) OBVIOUS
  <2>2. new \in {"blue", "green"} /\ release.active = FlipColor(new)
    BY <2>1 DEF RolloutInv, RolloutTyped, FlipColor
  <2>3. /\ release'.status = "Active" /\ release'.active = new
        /\ release'.rollbacks = release.rollbacks /\ before' = release.active
        /\ release' \in [status: {"Active", "RolledBack"}, active: {"blue", "green"}, rollbacks: Nat]
    BY <1>2, <2>1, <2>2 DEF Switch, RolloutInv, RolloutTyped
  <2>4. RolloutTyped' BY <1>2, <2>3 DEF Switch, RolloutInv, RolloutTyped
  <2>5. ColourIsKnown' BY <1>2, <2>2, <2>3 DEF Switch, RolloutInv, ColourIsKnown
  <2> QED BY <1>1, <2>4, <2>5 DEF RolloutInv
<1>3. CASE CheckRollback
  <2>1. /\ release'.status = "RolledBack" /\ release'.active = FlipColor(release.active)
        /\ release'.rollbacks = release.rollbacks + 1 /\ release.status = "Active"
        /\ release' \in [status: {"Active", "RolledBack"}, active: {"blue", "green"}, rollbacks: Nat]
    BY <1>3 DEF CheckRollback, RolloutInv, RolloutTyped, FlipColor
  <2>2. RolloutTyped' BY <1>3, <2>1 DEF CheckRollback, RolloutInv, RolloutTyped
  <2>3. ColourIsKnown' BY <1>3, <2>1 DEF CheckRollback, RolloutInv, ColourIsKnown
  <2> QED BY <1>1, <2>2, <2>3 DEF RolloutInv
<1> QED BY <1>2, <1>3

\* A call on the flag.
LEMMA FlagInv ==
  ASSUME RolloutConstants, RolloutInv,
         \/ Toggle
         \/ \E usable \in BOOLEAN, p \in 0..Buckets : CreateFlag(usable, p)
         \/ \E r \in Rules : AddRule(r)
         \/ \E c \in Context : Evaluate(c)
  PROVE  RolloutInv'
<1> DEFINE Flags == [enabled: BOOLEAN, percentage: 0..Buckets, rules: SUBSET Rules, evals: Nat,
                     trues: Nat]
<1>0. RolloutTyped /\ ColourIsKnown /\ FlagIsCounted /\ flag \in Flags BY DEF RolloutInv, RolloutTyped
<1>1. UNCHANGED <<release, before, switches>> BY DEF Toggle, CreateFlag, AddRule, Evaluate
<1>2. ColourIsKnown' BY <1>0, <1>1 DEF ColourIsKnown
<1>3. SUFFICES flag' \in Flags /\ FlagIsCounted' BY <1>0, <1>1, <1>2 DEF RolloutInv, RolloutTyped
<1>4. CASE Toggle
  <2>1. flag' = [flag EXCEPT !.enabled = ~flag.enabled] /\ on' = on BY <1>4 DEF Toggle
  <2>2. PICK b \in BOOLEAN : b = ~flag.enabled OBVIOUS
  <2>3. flag' = [flag EXCEPT !.enabled = b] BY <2>1, <2>2, Zenon
  <2>4. /\ flag' \in Flags /\ flag'.trues = flag.trues /\ flag'.evals = flag.evals
        /\ flag'.percentage = flag.percentage
    BY <1>0, <2>3
  <2> QED BY <1>0, <2>1, <2>4 DEF FlagIsCounted
<1>5. ASSUME NEW usable \in BOOLEAN, NEW p \in 0..Buckets, CreateFlag(usable, p)
      PROVE  flag' \in Flags /\ FlagIsCounted'
  <2>1. /\ flag' \in Flags /\ flag'.trues = 0 /\ flag'.evals = 0 /\ on' = {}
    BY <1>5 DEF CreateFlag, NewFlag
  <2> QED BY <2>1 DEF FlagIsCounted
<1>6. ASSUME NEW r \in Rules, AddRule(r) PROVE flag' \in Flags /\ FlagIsCounted'
  <2>1. /\ flag' \in Flags /\ flag'.trues = flag.trues /\ flag'.evals = flag.evals
        /\ flag'.percentage = flag.percentage /\ on' = on
    BY <1>0, <1>6 DEF AddRule
  <2> QED BY <1>0, <2>1 DEF FlagIsCounted
<1>7. ASSUME NEW c \in Context, Evaluate(c) PROVE flag' \in Flags /\ FlagIsCounted'
  <2>1. CASE IsOn(flag, c)
    <3>1. flag' = [flag EXCEPT !.evals = @ + 1, !.trues = @ + 1] /\ on' = on \cup {c}
      BY <1>7, <2>1 DEF Evaluate
    <3>a. PICK e, t : e = flag.evals + 1 /\ t = flag.trues + 1 OBVIOUS
    <3>b. flag' = [flag EXCEPT !.evals = e, !.trues = t] /\ e \in Nat /\ t \in Nat BY <1>0, <3>1, <3>a
    <3>2. /\ flag' \in Flags /\ flag'.trues = flag.trues + 1 /\ flag'.evals = flag.evals + 1
          /\ flag'.percentage = flag.percentage
      BY <1>0, <3>a, <3>b
    <3>3. flag.percentage < Buckets => HashOf[c] < flag.percentage BY <2>1 DEF IsOn
    <3>4. HashOf[c] < flag.percentage \/ flag.percentage = Buckets
      BY <1>0, <3>3 DEF RolloutConstants
    <3> QED BY <1>0, <3>1, <3>2, <3>4 DEF FlagIsCounted
  <2>2. CASE ~IsOn(flag, c)
    <3>1. flag' = [flag EXCEPT !.evals = @ + 1, !.trues = @ + 0] /\ on' = on
      BY <1>7, <2>2 DEF Evaluate
    <3>a. PICK e, t : e = flag.evals + 1 /\ t = flag.trues + 0 OBVIOUS
    <3>b. flag' = [flag EXCEPT !.evals = e, !.trues = t] /\ e \in Nat /\ t = flag.trues BY <1>0, <3>1, <3>a
    <3>2. /\ flag' \in Flags /\ flag'.trues = flag.trues /\ flag'.evals = flag.evals + 1
          /\ flag'.percentage = flag.percentage
      BY <1>0, <3>a, <3>b
    <3> QED BY <1>0, <3>1, <3>2 DEF FlagIsCounted
  <2> QED BY <2>1, <2>2
<1> QED BY <1>4, <1>5, <1>6, <1>7

LEMMA RolloutStepInv ==
  ASSUME RolloutConstants, RolloutInv, [RolloutNext]_rolloutVars
  PROVE  RolloutInv'
<1>1. CASE UNCHANGED rolloutVars
  BY <1>1 DEF rolloutVars, RolloutInv, RolloutTyped, ColourIsKnown, FlagIsCounted
<1>2. CASE RolloutNext BY <1>2, ReleaseInv, FlagInv DEF RolloutNext
<1> QED BY <1>1, <1>2

LEMMA RolloutInvMeans ==
  ASSUME RolloutInv
  PROVE  RolloutHolds
BY DEF RolloutInv, ColourIsKnown, FlagIsCounted, RolloutHolds

\* However switches, the rollback and calls on a flag interleave, a rollback restores
\* the colour before the last switch, and a flag's counts are those of its answers
\* (deployment/releases.rs, switch and check_rollback;
\* deployment/feature_flags.rs).
THEOREM RollbackRestores ==
  ASSUME RolloutConstants
  PROVE  RolloutSpec => []RolloutHolds
<1>1. RolloutInit => RolloutInv BY RolloutInitInv
<1>2. RolloutInv /\ [RolloutNext]_rolloutVars => RolloutInv' BY RolloutStepInv
<1>3. RolloutInv => RolloutHolds BY RolloutInvMeans
<1> QED BY <1>1, <1>2, <1>3, PTL DEF RolloutSpec

-----------------------------------------------------------------------------
(* Sessions, roles and the admin handlers.                                   *)
AccessConstants == NoOne \notin User \cup Areas

Visiting ==
  [next: -1..5, area: Areas \cup {NoOne}, who: User \cup {NoOne}, op: AdminOps \cup {NoOne},
   target: User \cup {NoOne}, overtaken: BOOLEAN]

AccessTyped ==
  /\ role \in [User -> {"SuperAdmin", "Viewer"}] /\ enabled \in [User -> BOOLEAN]
  /\ live \subseteq User /\ old \subseteq User /\ late \subseteq User
  /\ visit \in [Visitor -> Visiting]

\* What a request has passed still holds, or it was overtaken.
Admitted(w) ==
  visit[w].area = "admin" /\ ~visit[w].overtaken =>
    /\ visit[w].next >= 4 => visit[w].who \in live
    /\ visit[w].next = 5 => role[visit[w].who] = "SuperAdmin"

\* A request is somebody's, about somebody; only an administrator's sweeps.
WellFormed(w) ==
  /\ visit[w].next = 0 => visit[w] = NoVisit
  /\ visit[w].next = -1 => visit[w].area = "admin"
  /\ visit[w].next # 0 => visit[w].area # NoOne
  /\ visit[w].area \in {"admin", "own", "login"} => visit[w].who \in User
  /\ visit[w].area = "admin" => visit[w].target \in User

SessionsClose ==
  /\ \A u \in old : Sweeping(u)
  /\ \A u \in live : ~enabled[u] => Sweeping(u) \/ u \in late

AccessInv ==
  /\ AccessTyped /\ SessionsClose
  /\ \A w \in Visitor : WellFormed(w) /\ Admitted(w)

\* The filters of each area, one by one.
LEMMA DemandsOfAreas ==
  /\ Demands("admin") = <<"ip", "rate", "session", "role">> /\ Len(Demands("admin")) = 4
  /\ Demands("own") = <<"ip", "rate", "session">> /\ Len(Demands("own")) = 3
  /\ Demands("login") = <<"ip", "rate">> /\ Len(Demands("login")) = 2
  /\ Demands("api") = <<"key", "ip", "rate">> /\ Len(Demands("api")) = 3
  /\ Demands("service") = <<"ip", "jwt", "rate">> /\ Len(Demands("service")) = 3
BY DEF Demands

\* Where a request is when a filter looks at it, and when it has passed them all.
LEMMA WhereAtFilter ==
  ASSUME AccessConstants, AccessInv, NEW w \in Visitor
  PROVE  /\ \A f \in {"key", "ip", "jwt", "rate"} : At(visit[w], f) =>
              visit[w].next \in 1..3 /\ (visit[w].area = "admin" => visit[w].next \in 1..2)
         /\ At(visit[w], "session") =>
              visit[w].next = 3 /\ visit[w].area \in {"admin", "own"}
         /\ At(visit[w], "role") => visit[w].next = 4 /\ visit[w].area = "admin"
         /\ Done(visit[w]) => /\ visit[w].next \in 1..5 /\ visit[w].area \in Areas
                              /\ visit[w].area = "admin" => visit[w].next = 5
<1>1. PICK r : r = visit[w] OBVIOUS
<1>2. r # NoVisit => r.area \in Areas /\ r.next \in -1..5
  BY <1>1 DEF AccessInv, WellFormed, AccessTyped, Visiting
<1>3. \A area \in Areas : area \in {"admin", "own", "login", "api", "service"} BY DEF Areas
<1>4. r # NoVisit =>
        \/ r.area = "admin" /\ Demands(r.area) = <<"ip", "rate", "session", "role">>
                            /\ Len(Demands(r.area)) = 4
        \/ r.area = "own" /\ Demands(r.area) = <<"ip", "rate", "session">>
                          /\ Len(Demands(r.area)) = 3
        \/ r.area = "login" /\ Demands(r.area) = <<"ip", "rate">> /\ Len(Demands(r.area)) = 2
        \/ r.area = "api" /\ Demands(r.area) = <<"key", "ip", "rate">> /\ Len(Demands(r.area)) = 3
        \/ r.area = "service" /\ Demands(r.area) = <<"ip", "jwt", "rate">>
                              /\ Len(Demands(r.area)) = 3
  BY <1>2, <1>3, DemandsOfAreas
<1>5. ASSUME NEW f \in {"key", "ip", "jwt", "rate"}, At(r, f)
      PROVE  r.next \in 1..3 /\ (r.area = "admin" => r.next \in 1..2)
  BY <1>4, <1>5 DEF At
<1>6. At(r, "session") => r.next = 3 /\ r.area \in {"admin", "own"} BY <1>4 DEF At
<1>7. At(r, "role") => r.next = 4 /\ r.area = "admin" BY <1>4 DEF At
<1>8. Done(r) => r.next \in 1..5 /\ r.area \in Areas /\ (r.area = "admin" => r.next = 5)
  <2>1. PICK k : k = Len(Demands(r.area)) OBVIOUS
  <2>2. Done(r) => r # NoVisit /\ r.next = k + 1 BY <2>1 DEF Done
  <2>3. r # NoVisit => k \in {2, 3, 4} /\ (r.area = "admin" => k = 4) BY <1>4, <2>1
  <2> QED BY <1>2, <2>2, <2>3
<1> QED BY <1>1, <1>5, <1>6, <1>7, <1>8

LEMMA AccessInitInv ==
  ASSUME AccessConstants, AccessInit
  PROVE  AccessInv
<1>1. NoVisit \in Visiting BY DEF NoVisit, Visiting
<1>2. AccessTyped BY <1>1 DEF AccessInit, AccessTyped
<1>3. SessionsClose BY DEF AccessInit, SessionsClose
<1>4. \A w \in Visitor : WellFormed(w) /\ Admitted(w)
  BY DEF AccessInit, WellFormed, Admitted, NoVisit, AccessConstants, Areas
<1> QED BY <1>2, <1>3, <1>4 DEF AccessInv

\* Who sweeps goes on sweeping.
LEMMA SweepersStay ==
  ASSUME NEW u, Sweeping(u),
         \A v \in Visitor : visit[v].next = -1 /\ visit[v].target = u =>
           visit'[v].next = -1 /\ visit'[v].target = u
  PROVE  Sweeping(u)'
BY DEF Sweeping

\* A request goes on, to a new place that is right for it, or away.
LEMMA OneVisitMoves ==
  ASSUME AccessConstants, AccessInv, NEW w \in Visitor, NEW r \in Visiting,
         visit' = [visit EXCEPT ![w] = r], visit[w].next # -1,
         UNCHANGED <<role, enabled, live, old, late>>, WellFormed(w)', Admitted(w)'
  PROVE  AccessInv'
<1>1. AccessTyped /\ SessionsClose /\ \A v \in Visitor : WellFormed(v) /\ Admitted(v)
  BY DEF AccessInv
<1>2. /\ visit' \in [Visitor -> Visiting] /\ \A v \in Visitor \ {w} : visit'[v] = visit[v]
  BY <1>1 DEF AccessTyped
<1>3. AccessTyped' BY <1>1, <1>2 DEF AccessTyped
<1>4. \A u : Sweeping(u) => Sweeping(u)' BY <1>2 DEF Sweeping
<1>5. SessionsClose' BY <1>1, <1>4 DEF SessionsClose
<1>6. ASSUME NEW v \in Visitor \ {w} PROVE WellFormed(v)' /\ Admitted(v)'
  BY <1>1, <1>2, <1>6 DEF WellFormed, Admitted
<1> QED BY <1>3, <1>5, <1>6 DEF AccessInv

LEMMA GoneAway ==
  ASSUME AccessConstants, AccessInv, NEW w \in Visitor, visit' = [visit EXCEPT ![w] = NoVisit]
  PROVE  NoVisit \in Visiting /\ WellFormed(w)' /\ Admitted(w)'
<1>1. NoVisit \in Visiting BY DEF NoVisit, Visiting
<1>2. visit'[w] = NoVisit BY DEF AccessInv, AccessTyped
<1>3. WellFormed(w)' /\ Admitted(w)'
  BY <1>2 DEF WellFormed, Admitted, NoVisit, AccessConstants, Areas
<1> QED BY <1>1, <1>3

LEMMA AskInv ==
  ASSUME AccessConstants, AccessInv, NEW w \in Visitor,
         NEW area \in Areas, NEW who \in User \cup {NoOne}, NEW op \in AdminOps \cup {NoOne},
         NEW target \in User \cup {NoOne}, area \in {"admin", "own", "login"} => who \in User,
         area = "admin" => target \in User, Ask(w, area, who, op, target)
  PROVE  AccessInv'
<1>1. PICK r : r = [next |-> 1, area |-> area, who |-> who, op |-> op, target |-> target,
                    overtaken |-> FALSE]
  OBVIOUS
<1>2. /\ visit[w] = NoVisit /\ visit' = [visit EXCEPT ![w] = r]
      /\ UNCHANGED <<role, enabled, live, old, late>>
  BY <1>1 DEF Ask
<1>3. r \in Visiting BY <1>1 DEF Visiting
<1>4. visit'[w] = r BY <1>2 DEF AccessInv, AccessTyped
<1>5. WellFormed(w)' BY <1>1, <1>4 DEF WellFormed, AccessConstants
<1>6. Admitted(w)' BY <1>1, <1>4 DEF Admitted
<1>7. visit[w].next # -1 BY <1>2 DEF NoVisit
<1> QED BY <1>2, <1>3, <1>5, <1>6, <1>7, OneVisitMoves

LEMMA PassInv ==
  ASSUME AccessConstants, AccessInv, NEW w \in Visitor,
         PassStateless(w) \/ PassSession(w) \/ PassRole(w) \/ Respond(w)
  PROVE  AccessInv'
<1>1. PICK r : r = [visit[w] EXCEPT !.next = visit[w].next + 1] OBVIOUS
<1>2. PICK n : n = visit[w].next OBVIOUS
<1>3. visit \in [Visitor -> Visiting] /\ visit[w] \in Visiting /\ WellFormed(w) /\ Admitted(w)
  BY DEF AccessInv, AccessTyped
<1>4. UNCHANGED <<role, enabled, live, old, late>>
  BY DEF PassStateless, PassSession, PassRole, Respond
<1>a. /\ \A f \in {"key", "ip", "jwt", "rate"} : At(visit[w], f) =>
             n \in 1..3 /\ (visit[w].area = "admin" => n \in 1..2)
      /\ At(visit[w], "session") => n = 3
      /\ (At(visit[w], "role") => n = 4) /\ (Done(visit[w]) => n \in 1..5)
  BY <1>2, WhereAtFilter
<1>5. n \in 1..5
  <2>1. /\ PassStateless(w) => \E f \in {"key", "ip", "jwt", "rate"} : At(visit[w], f)
        /\ PassSession(w) => At(visit[w], "session")
        /\ (PassRole(w) => At(visit[w], "role")) /\ (Respond(w) => Done(visit[w]))
    BY DEF PassStateless, PassSession, PassRole, Respond
  <2>2. CASE PassStateless(w)
    <3>1. PICK f \in {"key", "ip", "jwt", "rate"} : At(visit[w], f) BY <2>1, <2>2
    <3>2. n \in 1..3 BY <1>a, <3>1
    <3> QED BY <3>2
  <2>3. CASE PassSession(w) BY <1>a, <2>1, <2>3
  <2>4. CASE PassRole(w) BY <1>a, <2>1, <2>4
  <2>5. CASE Respond(w) BY <1>a, <2>1, <2>5
  <2> QED BY <2>2, <2>3, <2>4, <2>5
<1>b. visit[w].next # -1 BY <1>2, <1>5
<1>6. ASSUME visit' = [visit EXCEPT ![w] = NoVisit] PROVE AccessInv'
  <2>1. NoVisit \in Visiting /\ WellFormed(w)' /\ Admitted(w)' BY <1>6, GoneAway
  <2> QED BY <1>4, <1>b, <1>6, <2>1, OneVisitMoves
<1>7. ASSUME visit' = [visit EXCEPT ![w] = r], n \in 1..4,
             visit[w].area = "admin" /\ n = 3 => visit[w].who \in live,
             visit[w].area = "admin" /\ n = 4 => role[visit[w].who] = "SuperAdmin"
      PROVE  AccessInv'
  <2>1. /\ r \in Visiting /\ r.next = n + 1 /\ r.area = visit[w].area /\ r.who = visit[w].who
        /\ r.target = visit[w].target /\ r.overtaken = visit[w].overtaken
    BY <1>1, <1>2, <1>3, <1>7 DEF Visiting
  <2>2. visit'[w] = r BY <1>3, <1>7
  <2>3. WellFormed(w)' BY <1>2, <1>3, <1>7, <2>1, <2>2 DEF WellFormed
  <2>4. Admitted(w)' BY <1>2, <1>3, <1>4, <1>7, <2>1, <2>2 DEF Admitted
  <2> QED BY <1>4, <1>b, <1>7, <2>1, <2>3, <2>4, OneVisitMoves
<1>8. CASE PassStateless(w)
  <2>1. n \in 1..3 /\ (visit[w].area = "admin" => n \in 1..2)
    BY <1>a, <1>8 DEF PassStateless
  <2>2. visit' = [visit EXCEPT ![w] = r] \/ visit' = [visit EXCEPT ![w] = NoVisit]
    BY <1>1, <1>3, <1>8 DEF PassStateless
  <2> QED BY <1>6, <1>7, <2>1, <2>2
<1>9. CASE PassSession(w)
  <2>1. n = 3 BY <1>a, <1>9 DEF PassSession
  <2>2. \/ visit' = [visit EXCEPT ![w] = r] /\ visit[w].who \in live
        \/ visit' = [visit EXCEPT ![w] = NoVisit]
    <3>1. CASE visit[w].who \in live BY <1>1, <1>3, <1>9, <3>1 DEF PassSession
    <3>2. CASE ~(visit[w].who \in live) BY <1>9, <3>2 DEF PassSession
    <3> QED BY <3>1, <3>2
  <2> QED BY <1>6, <1>7, <2>1, <2>2
<1>10. CASE PassRole(w)
  <2>1. n = 4 BY <1>a, <1>10 DEF PassRole
  <2>2. \/ visit' = [visit EXCEPT ![w] = r] /\ role[visit[w].who] = "SuperAdmin"
        \/ visit' = [visit EXCEPT ![w] = NoVisit]
    <3>1. CASE role[visit[w].who] = "SuperAdmin" BY <1>1, <1>3, <1>10, <3>1 DEF PassRole
    <3>2. CASE ~(role[visit[w].who] = "SuperAdmin") BY <1>10, <3>2 DEF PassRole
    <3> QED BY <3>1, <3>2
  <2> QED BY <1>6, <1>7, <2>1, <2>2
<1>11. CASE Respond(w) BY <1>6, <1>11 DEF Respond
<1> QED BY <1>8, <1>9, <1>10, <1>11

\* Requests that a change of u overtakes keep their place.
LEMMA Overtaken ==
  ASSUME AccessInv, NEW u, NEW w \in Visitor
  PROVE  /\ Overtake(u, w) \in [Visitor -> Visiting] /\ Overtake(u, w)[w] = NoVisit
         /\ \A v \in Visitor \ {w} :
              /\ Overtake(u, w)[v].next = visit[v].next /\ Overtake(u, w)[v].area = visit[v].area
              /\ Overtake(u, w)[v].who = visit[v].who
              /\ Overtake(u, w)[v].target = visit[v].target
              /\ visit[v].who = u => Overtake(u, w)[v].overtaken
              /\ visit[v].who # u => Overtake(u, w)[v] = visit[v]
<1>1. visit \in [Visitor -> Visiting] BY DEF AccessInv, AccessTyped
<1>2. \A r \in Visiting : /\ [r EXCEPT !.overtaken = TRUE] \in Visiting
                          /\ [r EXCEPT !.overtaken = TRUE].next = r.next
                          /\ [r EXCEPT !.overtaken = TRUE].area = r.area
                          /\ [r EXCEPT !.overtaken = TRUE].who = r.who
                          /\ [r EXCEPT !.overtaken = TRUE].target = r.target
                          /\ [r EXCEPT !.overtaken = TRUE].overtaken
  BY DEF Visiting
<1>3. NoVisit \in Visiting BY DEF NoVisit, Visiting
<1> QED BY <1>1, <1>2, <1>3 DEF Overtake

\* Overtaken requests stay well-formed and admitted when only u's sessions and role changed.
LEMMA OthersOvertaken ==
  ASSUME AccessConstants, AccessInv, NEW u \in User, NEW w \in Visitor, NEW v \in Visitor \ {w},
         visit'[v] = Overtake(u, w)[v],
         \A x \in User \ {u} : (x \in live => x \in live') /\ role'[x] = role[x]
  PROVE  WellFormed(v)' /\ Admitted(v)'
<1>1. WellFormed(v) /\ Admitted(v) /\ visit[v] \in Visiting BY DEF AccessInv, AccessTyped
<1>2. CASE visit[v].who # u
  <2>1. visit'[v] = visit[v] BY <1>2, Overtaken
  <2>2. WellFormed(v)' BY <1>1, <2>1 DEF WellFormed
  <2>3. visit[v].area = "admin" => visit[v].who \in User \ {u} BY <1>1, <1>2 DEF WellFormed
  <2>4. Admitted(v)' BY <1>1, <2>1, <2>3 DEF Admitted
  <2> QED BY <2>2, <2>4
<1>3. CASE visit[v].who = u
  <2>1. /\ visit'[v].next = visit[v].next /\ visit'[v].area = visit[v].area
        /\ visit'[v].who = visit[v].who /\ visit'[v].target = visit[v].target
        /\ visit'[v].overtaken
    BY <1>3, Overtaken
  <2>2. visit[v].next # 0
    <3>1. NoVisit.who # u BY DEF NoVisit, AccessConstants
    <3> QED BY <1>1, <1>3, <3>1 DEF WellFormed
  <2>3. WellFormed(v)' BY <1>1, <2>1, <2>2 DEF WellFormed
  <2>4. Admitted(v)' BY <2>1 DEF Admitted
  <2> QED BY <2>3, <2>4
<1> QED BY <1>2, <1>3

\* UpdateRole and DisableUser, and InvalidateAll, which ends what they began.
LEMMA UpdateRoleInv ==
  ASSUME AccessConstants, AccessInv, NEW w \in Visitor, NEW new \in {"SuperAdmin", "Viewer"},
         UpdateRole(w, new)
  PROVE  AccessInv'
<1>1. PICK u : u = visit[w].target OBVIOUS
<1>2. PICK r : r = [visit[w] EXCEPT !.next = -1] OBVIOUS
<1>3. PICK o : o = Overtake(u, w) OBVIOUS
<1>4. /\ Done(visit[w]) /\ visit[w].area = "admin" /\ role' = [role EXCEPT ![u] = new]
      /\ old' = (IF u \in live THEN old \cup {u} ELSE old) /\ visit' = [o EXCEPT ![w] = r]
      /\ UNCHANGED <<enabled, live, late>>
  BY <1>1, <1>2, <1>3 DEF UpdateRole, NowSweep
<1>5. AccessTyped /\ SessionsClose /\ visit[w] \in Visiting /\ WellFormed(w)
  BY DEF AccessInv, AccessTyped
<1>6. u \in User /\ visit[w].next = 5 BY <1>1, <1>4, <1>5, WhereAtFilter DEF WellFormed
<1>7. /\ r \in Visiting /\ r.next = -1 /\ r.area = "admin" /\ r.who = visit[w].who /\ r.target = u
  BY <1>1, <1>2, <1>4, <1>5 DEF Visiting
<1>8. /\ visit' \in [Visitor -> Visiting] /\ visit'[w] = r
      /\ \A v \in Visitor \ {w} : visit'[v] = Overtake(u, w)[v]
  BY <1>3, <1>4, <1>7, Overtaken
<1>9. /\ role' \in [User -> {"SuperAdmin", "Viewer"}] /\ \A x \in User \ {u} : role'[x] = role[x]
  BY <1>4, <1>5 DEF AccessTyped
<1>10. AccessTyped' BY <1>4, <1>5, <1>6, <1>8, <1>9 DEF AccessTyped
<1>11. Sweeping(u)' BY <1>7, <1>8 DEF Sweeping
<1>12. ASSUME NEW x, Sweeping(x) PROVE Sweeping(x)'
  <2>1. PICK v \in Visitor : visit[v].next = -1 /\ visit[v].target = x BY <1>12 DEF Sweeping
  <2>2. v # w BY <1>6, <2>1
  <2> QED BY <1>8, <2>1, <2>2, Overtaken DEF Sweeping
<1>13. SessionsClose' BY <1>4, <1>5, <1>11, <1>12 DEF SessionsClose
<1>14. ASSUME NEW v \in Visitor PROVE WellFormed(v)' /\ Admitted(v)'
  <2>1. CASE v = w
    <3>1. WellFormed(w)' BY <1>4, <1>5, <1>6, <1>7, <1>8 DEF WellFormed, AccessConstants, Areas
    <3>2. Admitted(w)' BY <1>7, <1>8 DEF Admitted
    <3> QED BY <2>1, <3>1, <3>2
  <2>2. CASE v # w BY <1>4, <1>6, <1>8, <1>9, <2>2, OthersOvertaken
  <2> QED BY <2>1, <2>2
<1> QED BY <1>10, <1>13, <1>14 DEF AccessInv

LEMMA DisableUserInv ==
  ASSUME AccessConstants, AccessInv, NEW w \in Visitor, DisableUser(w)
  PROVE  AccessInv'
<1>1. PICK u : u = visit[w].target OBVIOUS
<1>2. PICK r : r = [visit[w] EXCEPT !.next = -1] OBVIOUS
<1>4. /\ Done(visit[w]) /\ visit[w].area = "admin" /\ enabled' = [enabled EXCEPT ![u] = FALSE]
      /\ visit' = [visit EXCEPT ![w] = r] /\ UNCHANGED <<role, live, old, late>>
  BY <1>1, <1>2 DEF DisableUser, NowSweep
<1>5. /\ AccessTyped /\ SessionsClose /\ visit[w] \in Visiting
      /\ \A v \in Visitor : WellFormed(v) /\ Admitted(v)
  BY DEF AccessInv, AccessTyped
<1>6. u \in User /\ visit[w].next = 5 BY <1>1, <1>4, <1>5, WhereAtFilter DEF WellFormed
<1>7. /\ r \in Visiting /\ r.next = -1 /\ r.area = "admin" /\ r.who = visit[w].who /\ r.target = u
  BY <1>1, <1>2, <1>4, <1>5 DEF Visiting
<1>8. /\ visit' \in [Visitor -> Visiting] /\ visit'[w] = r
      /\ \A v \in Visitor \ {w} : visit'[v] = visit[v]
  BY <1>4, <1>5, <1>7 DEF AccessTyped
<1>9. enabled' \in [User -> BOOLEAN] /\ \A x \in User \ {u} : enabled'[x] = enabled[x]
  BY <1>4, <1>5 DEF AccessTyped
<1>10. AccessTyped' BY <1>4, <1>5, <1>8, <1>9 DEF AccessTyped
<1>11. Sweeping(u)' BY <1>7, <1>8 DEF Sweeping
<1>12. ASSUME NEW x, Sweeping(x) PROVE Sweeping(x)'
  <2>1. PICK v \in Visitor : visit[v].next = -1 /\ visit[v].target = x BY <1>12 DEF Sweeping
  <2>2. v # w BY <1>6, <2>1
  <2> QED BY <1>8, <2>1, <2>2 DEF Sweeping
<1>13. SessionsClose'
  <2>1. \A x \in old : Sweeping(x)' BY <1>5, <1>12 DEF SessionsClose
  <2>2. ASSUME NEW x \in live, ~enabled'[x] PROVE Sweeping(x)' \/ x \in late
    <3>1. CASE x = u BY <1>11, <3>1
    <3>2. CASE x # u
      <4>1. x \in User BY <1>5 DEF AccessTyped
      <4>2. ~enabled[x] BY <1>9, <2>2, <3>2, <4>1
      <4> QED BY <1>5, <1>12, <4>2 DEF SessionsClose
    <3> QED BY <3>1, <3>2
  <2> QED BY <1>4, <2>1, <2>2 DEF SessionsClose
<1>14. ASSUME NEW v \in Visitor PROVE WellFormed(v)' /\ Admitted(v)'
  <2>1. CASE v = w
    <3>1. WellFormed(w)' BY <1>4, <1>5, <1>6, <1>7, <1>8 DEF WellFormed, AccessConstants, Areas
    <3>2. Admitted(w)' BY <1>7, <1>8 DEF Admitted
    <3> QED BY <2>1, <3>1, <3>2
  <2>2. CASE v # w
    <3>1. WellFormed(v)' BY <1>5, <1>8, <2>2 DEF WellFormed
    <3>2. Admitted(v)' BY <1>4, <1>5, <1>8, <2>2 DEF Admitted
    <3> QED BY <3>1, <3>2
  <2> QED BY <2>1, <2>2
<1> QED BY <1>10, <1>13, <1>14 DEF AccessInv

LEMMA InvalidateAllInv ==
  ASSUME AccessConstants, AccessInv, NEW w \in Visitor, InvalidateAll(w)
  PROVE  AccessInv'
<1>1. PICK u : u = IF visit[w].area = "own" THEN visit[w].who ELSE visit[w].target OBVIOUS
<1>2. /\ \/ visit[w].next = -1
         \/ Done(visit[w]) /\ visit[w].area \in {"own", "admin"}
      /\ live' = live \ {u} /\ old' = old \ {u} /\ late' = late \ {u}
      /\ visit' = Overtake(u, w) /\ UNCHANGED <<role, enabled>>
  BY <1>1 DEF InvalidateAll
<1>3. AccessTyped /\ SessionsClose /\ visit[w] \in Visiting /\ WellFormed(w)
  BY DEF AccessInv, AccessTyped
<1>4. u \in User
  <2>1. visit[w].area \in {"own", "admin"} BY <1>2, <1>3 DEF WellFormed
  <2> QED BY <1>1, <1>3, <2>1 DEF WellFormed
<1>5. /\ visit' \in [Visitor -> Visiting] /\ visit'[w] = NoVisit
      /\ \A v \in Visitor \ {w} : visit'[v] = Overtake(u, w)[v]
  BY <1>2, Overtaken
<1>6. AccessTyped' BY <1>2, <1>3, <1>5 DEF AccessTyped
<1>7. visit[w].next = -1 => visit[w].target = u BY <1>1, <1>3 DEF WellFormed
<1>8. ASSUME NEW x, x # u, Sweeping(x) PROVE Sweeping(x)'
  <2>1. PICK v \in Visitor : visit[v].next = -1 /\ visit[v].target = x BY <1>8 DEF Sweeping
  <2>2. v # w BY <1>7, <1>8, <2>1
  <2> QED BY <1>5, <2>1, <2>2, Overtaken DEF Sweeping
<1>9. SessionsClose' BY <1>2, <1>3, <1>8 DEF SessionsClose
<1>10. ASSUME NEW v \in Visitor PROVE WellFormed(v)' /\ Admitted(v)'
  <2>1. CASE v = w
    <3>1. WellFormed(w)' BY <1>5 DEF WellFormed, NoVisit, AccessConstants, Areas
    <3>2. Admitted(w)' BY <1>5 DEF Admitted, NoVisit, AccessConstants, Areas
    <3> QED BY <2>1, <3>1, <3>2
  <2>2. CASE v # w BY <1>2, <1>4, <1>5, <2>2, OthersOvertaken
  <2> QED BY <2>1, <2>2
<1> QED BY <1>6, <1>9, <1>10 DEF AccessInv

LEMMA IssueSessionInv ==
  ASSUME AccessConstants, AccessInv, NEW w \in Visitor, IssueSession(w)
  PROVE  AccessInv'
<1>1. PICK u : u = visit[w].who OBVIOUS
<1>2. /\ Done(visit[w]) /\ visit[w].area = "login" /\ live' = live \cup {u}
      /\ late' = (IF enabled[u] THEN late ELSE late \cup {u})
      /\ visit' = [visit EXCEPT ![w] = NoVisit] /\ UNCHANGED <<role, enabled, old>>
  BY <1>1 DEF IssueSession
<1>3. /\ AccessTyped /\ SessionsClose /\ visit \in [Visitor -> Visiting]
      /\ \A v \in Visitor : WellFormed(v) /\ Admitted(v)
  BY DEF AccessInv, AccessTyped
<1>4. u \in User BY <1>1, <1>2, <1>3 DEF WellFormed
<1>5. NoVisit \in Visiting /\ WellFormed(w)' /\ Admitted(w)' BY <1>2, GoneAway
<1>6. /\ visit' \in [Visitor -> Visiting] /\ \A v \in Visitor \ {w} : visit'[v] = visit[v]
  BY <1>2, <1>3, <1>5
<1>7. AccessTyped' BY <1>2, <1>3, <1>4, <1>6 DEF AccessTyped
<1>8. visit[w].next # -1 BY <1>2, WhereAtFilter
<1>9. ASSUME NEW x, Sweeping(x) PROVE Sweeping(x)' BY <1>6, <1>8, <1>9 DEF Sweeping
<1>10. SessionsClose'
  <2>1. \A x \in old : Sweeping(x)' BY <1>3, <1>9 DEF SessionsClose
  <2>2. ASSUME NEW x \in live', ~enabled[x] PROVE Sweeping(x)' \/ x \in late'
    <3>1. CASE x = u BY <1>2, <2>2, <3>1
    <3>2. CASE x # u BY <1>2, <1>3, <1>9, <2>2, <3>2 DEF SessionsClose
    <3> QED BY <3>1, <3>2
  <2> QED BY <1>2, <2>1, <2>2 DEF SessionsClose
<1>11. ASSUME NEW v \in Visitor PROVE WellFormed(v)' /\ Admitted(v)'
  <2>1. CASE v = w BY <1>5, <2>1
  <2>2. CASE v # w
    <3>1. WellFormed(v)' BY <1>3, <1>6, <2>2 DEF WellFormed
    <3>2. Admitted(v)' BY <1>2, <1>3, <1>6, <2>2 DEF Admitted
    <3> QED BY <3>1, <3>2
  <2> QED BY <2>1, <2>2
<1> QED BY <1>7, <1>10, <1>11 DEF AccessInv

LEMMA AccessStepInv ==
  ASSUME AccessConstants, AccessInv, [AccessNext]_accessVars
  PROVE  AccessInv'
<1>1. CASE UNCHANGED accessVars
  <2>1. UNCHANGED <<role, enabled, live, old, late, visit>> BY <1>1 DEF accessVars
  <2> QED BY <2>1 DEF AccessInv, AccessTyped, SessionsClose, Sweeping, WellFormed, Admitted
<1>2. CASE AccessNext
  <2>1. PICK w \in Visitor :
          \/ \E u, t \in User, op \in AdminOps : Ask(w, "admin", u, op, t)
          \/ \E u \in User, area \in {"own", "login"} : Ask(w, area, u, NoOne, NoOne)
          \/ \E area \in {"api", "service"} : Ask(w, area, NoOne, NoOne, NoOne)
          \/ PassStateless(w) \/ PassSession(w) \/ PassRole(w)
          \/ \E new \in {"SuperAdmin", "Viewer"} : UpdateRole(w, new)
          \/ DisableUser(w) \/ InvalidateAll(w) \/ IssueSession(w) \/ Respond(w)
    BY <1>2 DEF AccessNext
  <2>2. ASSUME NEW u \in User, NEW t \in User, NEW op \in AdminOps, Ask(w, "admin", u, op, t)
        PROVE  AccessInv'
    BY <2>2, AskInv DEF Areas
  <2>3. ASSUME NEW u \in User, NEW area \in {"own", "login"}, Ask(w, area, u, NoOne, NoOne)
        PROVE  AccessInv'
    BY <2>3, AskInv DEF Areas
  <2>4. ASSUME NEW area \in {"api", "service"}, Ask(w, area, NoOne, NoOne, NoOne)
        PROVE  AccessInv'
    BY <2>4, AskInv DEF Areas
  <2> QED BY <2>1, <2>2, <2>3, <2>4, PassInv, UpdateRoleInv, DisableUserInv, InvalidateAllInv,
             IssueSessionInv
<1> QED BY <1>1, <1>2

LEMMA AccessInvMeans ==
  ASSUME AccessConstants, AccessInv
  PROVE  AccessIsCurrent
<1>1. ASSUME NEW w \in Visitor, Done(visit[w]), visit[w].area = "admin", ~visit[w].overtaken
      PROVE  visit[w].who \in live /\ role[visit[w].who] = "SuperAdmin"
  <2>1. visit[w].next = 5 BY <1>1, WhereAtFilter
  <2> QED BY <1>1, <2>1 DEF AccessInv, Admitted
<1> QED BY <1>1 DEF AccessIsCurrent, AccessInv, SessionsClose

\* Whoever is at an admin handler is a SuperAdmin with a session, or was overtaken by
\* a change; sessions outlive a change of their user only while its handler runs
\* (middleware/session.rs, role.rs; admin/v2_handlers.rs).
THEOREM AdminsAreAdmins ==
  ASSUME AccessConstants
  PROVE  AccessSpec => []AccessIsCurrent
<1>1. AccessInit => AccessInv BY AccessInitInv
<1>2. AccessInv /\ [AccessNext]_accessVars => AccessInv' BY AccessStepInv
<1>3. AccessInv => AccessIsCurrent BY AccessInvMeans
<1> QED BY <1>1, <1>2, <1>3, PTL DEF AccessSpec

-----------------------------------------------------------------------------
(* The scheduler.                                                            *)
CronConstants == Every \in [Job -> Nat] /\ NoJob \notin Nat

Time == Nat \cup {NoJob}
CronTyped ==
  /\ jobs \in [Job -> Time] /\ cronRows \in [Job -> Time]
  /\ saving = NoJob \/ saving \in [job: Job, wait: Time]

\* A job that add_job has still to push is not in memory.
AddedLater == \A j \in adding : j \in Job /\ jobs[j] = NoJob

\* Neither the daemon's copy nor add_job can write the row of job j again.
NoWriter(j) == j \notin adding /\ (saving # NoJob => saving.job # j)

\* From the deletion of its row on a job is out of the table, and from the end
\* of its removal out of memory, and nobody is about to write it.
RemovingIsOut == \A j \in removing \ raced : j \in Job /\ cronRows[j] = NoJob /\ NoWriter(j)
RemovedIsOut ==
  \A j \in removed \ raced :
    j \in Job /\ j \notin removing /\ jobs[j] = NoJob /\ cronRows[j] = NoJob /\ NoWriter(j)

CronInv == CronTyped /\ AddedLater /\ RemovingIsOut /\ RemovedIsOut
-----------------------------------------------------------------------------
LEMMA CronInitInv == CronConstants /\ CronInit => CronInv
<1> SUFFICES ASSUME CronConstants, CronInit
             PROVE  CronInv
  OBVIOUS
<1>1. CronTyped
  BY DEF CronInit, CronTyped, Time
<1> QED BY <1>1 DEF CronInit, CronInv, AddedLater, RemovingIsOut, RemovedIsOut

LEMMA LessType == ASSUME NEW w \in Time, CronConstants PROVE Less(w) \in Time
BY DEF Time, Less, CronConstants

LEMMA CronStepInv == CronConstants /\ CronInv /\ [CronNext]_cronVars => CronInv'
<1> SUFFICES ASSUME CronConstants, CronInv, [CronNext]_cronVars
             PROVE  CronInv'
  OBVIOUS
<1>t. /\ CronTyped /\ AddedLater /\ RemovingIsOut /\ RemovedIsOut
      /\ Every \in [Job -> Nat] /\ NoJob \notin Nat
  BY DEF CronInv, CronConstants
<1> USE DEF NoWriter
<1>1. CASE Second
  <2>1. /\ jobs' = [j \in Job |-> Less(jobs[j])] /\ cronRows' = [j \in Job |-> Less(cronRows[j])]
        /\ saving' = IF saving = NoJob THEN NoJob ELSE [saving EXCEPT !.wait = Less(@)]
        /\ adding' = adding /\ removing' = removing /\ removed' = removed /\ raced' = raced
    BY <1>1 DEF Second
  <2>2. Less(NoJob) = NoJob
    BY DEF Less
  <2>3. \A j \in Job : Less(jobs[j]) \in Time /\ Less(cronRows[j]) \in Time
    BY <1>t, LessType DEF CronTyped
  <2>4. saving # NoJob => Less(saving.wait) \in Time
    BY <1>t, LessType DEF CronTyped
  <2>5. saving' # NoJob => saving # NoJob /\ saving'.job = saving.job
    BY <2>1, <1>t DEF CronTyped
  <2>6. CronTyped'
    BY <2>1, <2>3, <2>4, <1>t DEF CronTyped, Time
  <2>7. AddedLater' /\ RemovingIsOut' /\ RemovedIsOut'
    BY <2>1, <2>2, <2>5, <1>t DEF AddedLater, RemovingIsOut, RemovedIsOut
  <2> QED BY <2>6, <2>7 DEF CronInv
<1>2. CASE TakeDue
  <2>1. /\ jobs' = [j \in Job |-> IF j \in Due THEN Every[j] ELSE jobs[j]]
        /\ UNCHANGED <<cronRows, saving, adding, removing, removed, raced>>
    BY <1>2 DEF TakeDue
  <2>2. \A j \in Job : jobs[j] = NoJob => j \notin Due
    BY DEF Due, Present
  <2>3. CronTyped'
    BY <2>1, <1>t DEF CronTyped, Time
  <2>4. AddedLater' /\ RemovingIsOut' /\ RemovedIsOut'
    BY <2>1, <2>2, <1>t DEF AddedLater, RemovingIsOut, RemovedIsOut
  <2> QED BY <2>3, <2>4 DEF CronInv
<1>3. CASE Collect
  <2> DEFINE h == Head(handles)
  <2>1. /\ saving' = IF h \in Present THEN [job |-> h, wait |-> jobs[h]] ELSE NoJob
        /\ raced' = IF h \in Present \cap removing THEN raced \cup {h} ELSE raced
        /\ UNCHANGED <<jobs, cronRows, adding, removing, removed>>
    BY <1>3 DEF Collect
  <2>2. h \in Present => h \in Job /\ jobs[h] # NoJob
    BY DEF Present
  <2>3. CronTyped'
    BY <2>1, <2>2, <1>t DEF CronTyped
  <2>4. saving' # NoJob => saving'.job = h /\ h \in Present
    BY <2>1
  <2>5. raced \subseteq raced' /\ (h \in Present \cap removing => h \in raced')
    BY <2>1
  <2>6. AddedLater' /\ RemovingIsOut' /\ RemovedIsOut'
    BY <2>1, <2>2, <2>4, <2>5, <1>t DEF AddedLater, RemovingIsOut, RemovedIsOut
  <2> QED BY <2>3, <2>6 DEF CronInv
<1>4. CASE Persist
  <2>1. /\ saving # NoJob /\ cronRows' = [cronRows EXCEPT ![saving.job] = saving.wait] /\ saving' = NoJob
        /\ UNCHANGED <<jobs, adding, removing, removed, raced>>
    BY <1>4 DEF Persist
  <2>2. CronTyped'
    BY <2>1, <1>t DEF CronTyped
  <2>3. AddedLater' /\ RemovingIsOut' /\ RemovedIsOut'
    BY <2>1, <1>t DEF CronTyped, AddedLater, RemovingIsOut, RemovedIsOut
  <2> QED BY <2>2, <2>3 DEF CronInv
<1>5. CASE CronCrash
  <2>1. /\ jobs' = cronRows /\ cronRows' = cronRows /\ saving' = NoJob /\ adding' = {} /\ removing' = {}
        /\ removed' = removed /\ raced' = raced
    BY <1>5 DEF CronCrash
  <2> QED BY <2>1, <1>t DEF CronInv, CronTyped, AddedLater, RemovingIsOut, RemovedIsOut
<1>6. ASSUME NEW j \in Job, AddJob(j)
      PROVE  CronInv'
  <2>1. /\ j \notin Present /\ j \notin removed /\ j \notin removing
        /\ cronRows' = [cronRows EXCEPT ![j] = Every[j]] /\ adding' = adding \cup {j}
        /\ UNCHANGED <<jobs, saving, removing, removed, raced>>
    BY <1>6 DEF AddJob, Used
  <2>2. jobs[j] = NoJob
    BY <2>1 DEF Present
  <2>3. CronTyped'
    BY <2>1, <1>t DEF CronTyped, Time
  <2>4. AddedLater' /\ RemovingIsOut' /\ RemovedIsOut'
    BY <2>1, <2>2, <1>t DEF CronTyped, AddedLater, RemovingIsOut, RemovedIsOut
  <2> QED BY <2>3, <2>4 DEF CronInv
<1>7. ASSUME NEW j \in Job, Push(j)
      PROVE  CronInv'
  <2>1. /\ j \in adding /\ jobs' = [jobs EXCEPT ![j] = cronRows[j]] /\ adding' = adding \ {j}
        /\ UNCHANGED <<cronRows, saving, removing, removed, raced>>
    BY <1>7 DEF Push
  <2>2. CronTyped'
    BY <2>1, <1>t DEF CronTyped
  <2>3. AddedLater' /\ RemovingIsOut' /\ RemovedIsOut'
    BY <2>1, <1>t DEF CronTyped, AddedLater, RemovingIsOut, RemovedIsOut
  <2> QED BY <2>2, <2>3 DEF CronInv
<1>8. ASSUME NEW j \in Job, DeleteJob(j)
      PROVE  CronInv'
  <2>1. /\ j \in Present /\ cronRows' = [cronRows EXCEPT ![j] = NoJob] /\ removing' = removing \cup {j}
        /\ raced' = IF saving # NoJob /\ saving.job = j THEN raced \cup {j} ELSE raced
        /\ UNCHANGED <<jobs, saving, adding, removed>>
    BY <1>8 DEF DeleteJob
  <2>2. /\ jobs[j] # NoJob /\ j \notin adding
        /\ raced \subseteq raced' /\ (saving # NoJob /\ saving.job = j => j \in raced')
    BY <2>1, <1>t DEF Present, AddedLater
  <2>3. CronTyped'
    BY <2>1, <1>t DEF CronTyped, Time
  <2>4. AddedLater' /\ RemovingIsOut' /\ RemovedIsOut'
    BY <2>1, <2>2, <1>t DEF CronTyped, AddedLater, RemovingIsOut, RemovedIsOut
  <2> QED BY <2>3, <2>4 DEF CronInv
<1>9. ASSUME NEW j \in Job, Retain(j)
      PROVE  CronInv'
  <2>1. /\ j \in removing /\ jobs' = [jobs EXCEPT ![j] = NoJob]
        /\ removing' = removing \ {j} /\ removed' = removed \cup {j}
        /\ UNCHANGED <<cronRows, saving, adding, raced>>
    BY <1>9 DEF Retain
  <2>2. CronTyped'
    BY <2>1, <1>t DEF CronTyped, Time
  <2>3. AddedLater' /\ RemovingIsOut' /\ RemovedIsOut'
    BY <2>1, <1>t DEF CronTyped, AddedLater, RemovingIsOut, RemovedIsOut
  <2> QED BY <2>2, <2>3 DEF CronInv
<1>10. ASSUME NEW j \in Job, Finish(j)
       PROVE  CronInv'
  BY <1>10, <1>t DEF Finish, CronInv, CronTyped, AddedLater, RemovingIsOut, RemovedIsOut
<1>11. CASE UNCHANGED cronVars
  BY <1>11, <1>t DEF cronVars, CronInv, CronTyped, AddedLater, RemovingIsOut, RemovedIsOut
<1> QED
  BY <1>1, <1>2, <1>3, <1>4, <1>5, <1>6, <1>7, <1>8, <1>9, <1>10, <1>11 DEF CronNext

\* The copy tick is about to write is of a job that it was given in memory and is
\* at most as late as the job.
CopyIsOfAJob == saving # NoJob => saving.job \in (Present \cup removed) \ adding
CopyIsEarly ==
  saving # NoJob /\ saving.job \in Present =>
    saving.wait # NoJob /\ saving.wait <= jobs[saving.job]

DelayInv == CronTyped /\ AddedLater /\ CopyIsOfAJob /\ CopyIsEarly /\ RestartNeverDelays

LEMMA LessKeeps ==
  ASSUME CronConstants, NEW v \in Time, NEW w \in Time
  PROVE  /\ Less(v) \in Time /\ (Less(v) = NoJob <=> v = NoJob)
         /\ v # NoJob /\ w # NoJob /\ v <= w => Less(v) <= Less(w)
BY DEF Time, Less, CronConstants

LEMMA DelayStepInv == CronConstants /\ CronInv /\ DelayInv /\ [CronNext]_cronVars => DelayInv'
<1> SUFFICES ASSUME CronConstants, CronInv, DelayInv, [CronNext]_cronVars
             PROVE  DelayInv'
  OBVIOUS
<1>t. /\ jobs \in [Job -> Time] /\ cronRows \in [Job -> Time]
      /\ saving = NoJob \/ saving \in [job: Job, wait: Time]
      /\ AddedLater /\ CopyIsOfAJob /\ CopyIsEarly /\ RestartNeverDelays
      /\ Every \in [Job -> Nat] /\ NoJob \notin Nat
  BY DEF DelayInv, CronTyped, CronConstants
<1>i. CronTyped' /\ AddedLater'
  BY CronStepInv DEF CronInv
<1>1. CASE Second
  <2>1. /\ jobs' = [j \in Job |-> Less(jobs[j])] /\ cronRows' = [j \in Job |-> Less(cronRows[j])]
        /\ saving' = IF saving = NoJob THEN NoJob ELSE [saving EXCEPT !.wait = Less(@)]
        /\ adding' = adding /\ removed' = removed
    BY <1>1 DEF Second
  <2>2. Present' = Present /\ Stored' = Stored
    BY <2>1, <1>t, LessKeeps DEF Present, Stored
  <2>3. saving' # NoJob =>
          saving # NoJob /\ saving'.job = saving.job /\ saving'.wait = Less(saving.wait)
    BY <2>1, <1>t
  <2>4. CopyIsOfAJob'
    BY <2>1, <2>2, <2>3, <1>t DEF CopyIsOfAJob
  <2>5. CopyIsEarly'
    BY <2>1, <2>2, <2>3, <1>t, LessKeeps DEF CopyIsEarly, Present
  <2>6. RestartNeverDelays'
    BY <2>1, <2>2, <1>t, LessKeeps DEF RestartNeverDelays, Present, Stored
  <2> QED BY <1>i, <2>4, <2>5, <2>6 DEF DelayInv
<1>2. CASE TakeDue
  <2>1. /\ jobs' = [j \in Job |-> IF j \in Due THEN Every[j] ELSE jobs[j]]
        /\ saving = NoJob /\ UNCHANGED <<cronRows, saving, adding, removed>>
    BY <1>2 DEF TakeDue, Resting
  <2>2. Present' = Present /\ Stored' = Stored
    BY <2>1, <1>t DEF Present, Stored, Due
  <2>3. \A j \in Due : j \in Job /\ jobs[j] = 0 /\ Every[j] \in Nat
    BY <1>t DEF Due, Present
  <2>4. RestartNeverDelays'
    BY <2>1, <2>2, <2>3, <1>t DEF RestartNeverDelays, Present, Stored, Time
  <2> QED BY <1>i, <2>1, <2>4 DEF DelayInv, CopyIsOfAJob, CopyIsEarly
<1>3. CASE Collect
  <2> DEFINE h == Head(handles)
  <2>1. /\ saving' = IF h \in Present THEN [job |-> h, wait |-> jobs[h]] ELSE NoJob
        /\ UNCHANGED <<jobs, cronRows, adding, removed>>
    BY <1>3 DEF Collect
  <2>2. Present' = Present /\ Stored' = Stored
    BY <2>1 DEF Present, Stored
  <2>3. saving' # NoJob => h \in Present /\ saving'.job = h /\ saving'.wait = jobs[h]
    BY <2>1
  <2>4. h \in Present => h \in Job /\ jobs[h] # NoJob /\ h \notin adding
    BY <1>t DEF Present, AddedLater
  <2> HIDE DEF h
  <2>5. CopyIsOfAJob' /\ CopyIsEarly'
    BY <2>1, <2>2, <2>3, <2>4, <1>t DEF CopyIsOfAJob, CopyIsEarly, Time
  <2>6. RestartNeverDelays'
    BY <2>1, <2>2, <1>t DEF RestartNeverDelays
  <2> QED BY <1>i, <2>5, <2>6 DEF DelayInv
<1>4. CASE Persist
  <2>1. /\ saving # NoJob /\ cronRows' = [cronRows EXCEPT ![saving.job] = saving.wait]
        /\ saving' = NoJob /\ jobs' = jobs
    BY <1>4 DEF Persist
  <2>2. Present' = Present /\ \A j \in Stored' : j \in Stored \/ j = saving.job
    BY <2>1, <1>t DEF Present, Stored
  <2>3. RestartNeverDelays'
    BY <2>1, <2>2, <1>t DEF RestartNeverDelays, CopyIsEarly
  <2> QED BY <1>i, <2>1, <2>3 DEF DelayInv, CopyIsOfAJob, CopyIsEarly
<1>5. CASE CronCrash
  <2>1. jobs' = cronRows /\ cronRows' = cronRows /\ saving' = NoJob
    BY <1>5 DEF CronCrash
  <2>2. RestartNeverDelays'
    BY <2>1, <1>t DEF RestartNeverDelays, Present, Stored, Time
  <2> QED BY <1>i, <2>1, <2>2 DEF DelayInv, CopyIsOfAJob, CopyIsEarly
<1>6. ASSUME NEW j \in Job, AddJob(j)
      PROVE  DelayInv'
  <2>1. /\ j \notin Present /\ j \notin removed /\ adding' = adding \cup {j}
        /\ cronRows' = [cronRows EXCEPT ![j] = Every[j]] /\ UNCHANGED <<jobs, saving, removed>>
    BY <1>6 DEF AddJob, Used
  <2>2. Present' = Present /\ \A i \in Stored' : i \in Stored \/ i = j
    BY <2>1, <1>t DEF Present, Stored
  <2>3. CopyIsOfAJob' /\ CopyIsEarly'
    BY <2>1, <2>2, <1>t DEF CopyIsOfAJob, CopyIsEarly
  <2>4. RestartNeverDelays'
    BY <2>1, <2>2, <1>t DEF RestartNeverDelays
  <2> QED BY <1>i, <2>3, <2>4 DEF DelayInv
<1>7. ASSUME NEW j \in Job, Push(j)
      PROVE  DelayInv'
  <2>1. /\ j \in adding /\ jobs' = [jobs EXCEPT ![j] = cronRows[j]] /\ adding' = adding \ {j}
        /\ UNCHANGED <<cronRows, saving, removed>>
    BY <1>7 DEF Push
  <2>2. jobs[j] = NoJob /\ Stored' = Stored /\ Present \subseteq Present' /\ Present' \subseteq Present \cup {j}
    BY <2>1, <1>t DEF AddedLater, Present, Stored
  <2>3. saving # NoJob => saving.job # j
    BY <2>1, <1>t DEF CopyIsOfAJob
  <2>4. CopyIsOfAJob' /\ CopyIsEarly'
    BY <2>1, <2>2, <2>3, <1>t DEF CopyIsOfAJob, CopyIsEarly
  <2>5. RestartNeverDelays'
    BY <2>1, <2>2, <1>t DEF RestartNeverDelays, Stored, Time
  <2> QED BY <1>i, <2>4, <2>5 DEF DelayInv
<1>8. ASSUME NEW j \in Job, DeleteJob(j)
      PROVE  DelayInv'
  <2>1. cronRows' = [cronRows EXCEPT ![j] = NoJob] /\ UNCHANGED <<jobs, saving, adding, removed>>
    BY <1>8 DEF DeleteJob
  <2>2. Present' = Present /\ \A i \in Stored' : i \in Stored /\ i # j
    BY <2>1, <1>t DEF Present, Stored
  <2> QED BY <2>1, <2>2, <1>t, <1>i DEF DelayInv, CopyIsOfAJob, CopyIsEarly, RestartNeverDelays
<1>9. ASSUME NEW j \in Job, Retain(j)
      PROVE  DelayInv'
  <2>1. /\ jobs' = [jobs EXCEPT ![j] = NoJob] /\ removed' = removed \cup {j}
        /\ UNCHANGED <<cronRows, saving, adding>>
    BY <1>9 DEF Retain
  <2>2. Present' = Present \ {j} /\ Stored' = Stored
    BY <2>1, <1>t DEF Present, Stored
  <2>3. CopyIsOfAJob' /\ CopyIsEarly'
    BY <2>1, <2>2, <1>t DEF CopyIsOfAJob, CopyIsEarly
  <2>4. RestartNeverDelays'
    BY <2>1, <2>2, <1>t DEF RestartNeverDelays, Present
  <2> QED BY <1>i, <2>3, <2>4 DEF DelayInv
<1>10. CASE UNCHANGED <<jobs, cronRows, saving, adding, removed>>
  <2>1. Present' = Present /\ Stored' = Stored
    BY <1>10 DEF Present, Stored
  <2> QED BY <2>1, <1>10, <1>t, <1>i DEF DelayInv, CopyIsOfAJob, CopyIsEarly, RestartNeverDelays
<1> QED
  BY <1>1, <1>2, <1>3, <1>4, <1>5, <1>6, <1>7, <1>8, <1>9, <1>10 DEF CronNext, Finish, cronVars

LEMMA DelayInitInv == CronConstants /\ CronInit => DelayInv
BY CronInitInv DEF CronInit, DelayInv, CronInv, CopyIsOfAJob, CopyIsEarly, RestartNeverDelays, Present

\* The two together: what a step needs of the removals and of the delays.
SchedulerInv == CronInv /\ DelayInv

LEMMA SchedulerInitInv == CronConstants /\ CronInit => SchedulerInv
BY CronInitInv, DelayInitInv DEF SchedulerInv

LEMMA SchedulerStepInv == CronConstants /\ SchedulerInv /\ [CronNext]_cronVars => SchedulerInv'
BY CronStepInv, DelayStepInv DEF SchedulerInv

LEMMA SchedulerInvMeans == SchedulerInv => RemovedIsFinal /\ RestartNeverDelays
BY DEF SchedulerInv, DelayInv, CronInv, RemovedIsOut, RemovedIsFinal

\* However a removal, the runs of the job, the late writes of tick and restarts
\* interleave: a job whose removal was answered is neither in memory nor in the
\* table, but for one removed while tick had its result in hand (remove_job,
\* tick, persist_job).
THEOREM RemovedStaysOut ==
  ASSUME CronConstants
  PROVE  CronSpec => []RemovedIsFinal
<1> QED BY SchedulerInitInv, SchedulerStepInv, SchedulerInvMeans, PTL DEF CronSpec

\* A row is never later than its job: whatever is written late or dies half-way, a
\* restart runs no job later than the schedule said (tick, persist_job,
\* with_storage).
THEOREM RestartsDelayNothing ==
  ASSUME CronConstants
  PROVE  CronSpec => []RestartNeverDelays
<1> QED BY SchedulerInitInv, SchedulerStepInv, SchedulerInvMeans, PTL DEF CronSpec


-----------------------------------------------------------------------------
(* The workflows.                                                            *)
\* A plan is a list of failure actions, and Retry(max) asks for some attempt.
FlowConstants ==
  /\ Plan \in Seq(OnFailure) /\ MaxRuns \in Nat /\ Retries \in Nat \ {0}

RunState == [at: 0..Len(Plan) + 1, left: 0..Retries, skipped: BOOLEAN]

\* Only a step is retried.
RetriesAStep == \A r \in Runner : run[r].left > 0 => run[r].at \in StepNo

\* Without an overlap one caller executes, and the steps behind it are its own:
\* all successful, or one of them skipped and remembered as such.
Alone == \A r, q \in Runner : run[r].at # 0 /\ run[q].at # 0 => r = q
BehindIt(r) ==
  run[r].at # 0 =>
    \/ run[r].skipped = FALSE /\ \A i \in StepNo : i < run[r].at => steps[i] = "Success"
    \/ run[r].skipped = TRUE /\ \E i \in StepNo : i < run[r].at /\ steps[i] = "Skipped"
AloneHolds == shared = FALSE => Alone /\ \A r \in Runner : BehindIt(r)

FlowInv == FlowTypeOK /\ RetriesAStep /\ AloneHolds /\ OutcomeMatchesSteps
-----------------------------------------------------------------------------
LEMMA PlanLength == FlowConstants => Len(Plan) \in Nat
BY DEF FlowConstants

\* Who does not execute is nowhere in the plan.
LEMMA NobodyExecutes ==
  ASSUME Executing = {}
  PROVE  \A r \in Runner : run[r].at = 0
<1>1. NotRunning.at = 0 /\ \A r \in Runner : run[r] = NotRunning
  BY DEF NotRunning, Executing
<1> QED BY <1>1

LEMMA FlowInitInv == FlowConstants /\ FlowInit => FlowInv
<1> SUFFICES ASSUME FlowConstants, FlowInit
             PROVE  FlowInv
  OBVIOUS
<1>1. /\ Len(Plan) \in Nat /\ Retries \in Nat /\ MaxRuns \in Nat
      /\ run = [r \in Runner |-> [at |-> 0, left |-> 0, skipped |-> FALSE]]
      /\ shared = FALSE /\ error = FALSE
  BY PlanLength DEF FlowConstants, FlowInit, NotRunning
<1>a. [at |-> 0, left |-> 0, skipped |-> FALSE] \in RunState
  BY <1>1 DEF RunState
<1>2. run \in [Runner -> RunState]
  BY <1>a, <1>1
<1>c. steps \in [StepNo -> {"Pending", "Success", "Failed", "Skipped"}] /\ calls \in 0..MaxRuns
  BY <1>1 DEF FlowInit
<1>b. error \in BOOLEAN /\ shared \in BOOLEAN
  BY <1>1
<1>f. FlowTypeOK
  BY <1>2, <1>b, <1>c DEF FlowInit, FlowTypeOK, RunState
<1>3. RetriesAStep /\ AloneHolds
  BY <1>1 DEF RetriesAStep, AloneHolds, Alone, BehindIt, NotRunning
<1>4. OutcomeMatchesSteps
  BY DEF FlowInit, OutcomeMatchesSteps
<1> QED BY <1>f, <1>3, <1>4 DEF FlowInv

\* A caller that goes on to the step after i, whose result it has just written.
LEMMA StepToKeeps ==
  ASSUME FlowConstants, FlowInv, NEW r \in Runner, NEW result \in {"Success", "Skipped"},
         NEW skipped \in BOOLEAN, StepOf(r) \in StepNo, StepTo(r, StepOf(r), result, skipped),
         \/ result = "Success" /\ skipped = run[r].skipped
         \/ result = "Skipped" /\ skipped = TRUE,
         UNCHANGED <<calls, shared>>
  PROVE  FlowInv'
<1>t. /\ Len(Plan) \in Nat /\ Retries \in Nat /\ StepNo = 1..Len(Plan)
      /\ run \in [Runner -> RunState] /\ RetriesAStep /\ StepOf(r) = run[r].at /\ run[r].at \in StepNo
      /\ steps \in [StepNo -> {"Pending", "Success", "Failed", "Skipped"}]
  BY PlanLength DEF FlowConstants, FlowInv, FlowTypeOK, RunState, StepOf, StepNo
<1> DEFINE here == run[r].at
<1>1. /\ steps' = [steps EXCEPT ![here] = result]
      /\ run' = [run EXCEPT ![r] = [at |-> here + 1, left |-> 0, skipped |-> skipped]]
      /\ status' = status /\ error' = error /\ calls' = calls /\ shared' = shared
  BY <1>t DEF StepTo
<1>2. run' \in [Runner -> RunState] /\ steps' \in [StepNo -> {"Pending", "Success", "Failed", "Skipped"}]
  BY <1>1, <1>t DEF RunState
<1>3. FlowTypeOK'
  BY <1>1, <1>2 DEF FlowInv, FlowTypeOK, RunState
<1>4. RetriesAStep'
  <2>1. run'[r].at # 0 /\ run'[r].left = 0 /\ \A q \in Runner \ {r} : run'[q] = run[q]
    BY <1>1, <1>t
  <2> QED BY <2>1, <1>t DEF RetriesAStep, StepNo
<1>5. ASSUME shared = FALSE
      PROVE  Alone' /\ \A q \in Runner : BehindIt(q)'
  <2>1. Alone /\ BehindIt(r)
    BY <1>5 DEF FlowInv, AloneHolds
  <2>2. Alone' /\ \A q \in Runner \ {r} : run'[q].at = 0
    BY <2>1, <1>1, <1>t DEF Alone
  <2>3. /\ run'[r].at = here + 1 /\ run'[r].skipped = skipped /\ steps'[here] = result
        /\ \A i \in StepNo : i < here => steps'[i] = steps[i]
        /\ here \in Nat \ {0}
    BY <1>1, <1>t
  <2>4. BehindIt(r)'
    <3>1. CASE result = "Skipped"
      BY <3>1, <2>3, <1>t DEF BehindIt
    <3>2. CASE result = "Success" /\ run[r].skipped = TRUE
      <4>1. PICK i \in StepNo : i < here /\ steps[i] = "Skipped"
        BY <3>2, <2>1, <2>3 DEF BehindIt
      <4>2. i < here + 1 /\ steps'[i] = "Skipped" /\ skipped = TRUE
        BY <4>1, <3>2, <2>3, <1>t
      <4> QED BY <4>2, <2>3 DEF BehindIt
    <3>3. CASE result = "Success" /\ run[r].skipped = FALSE
      <4>1. skipped = FALSE /\ \A i \in StepNo : i < here => steps[i] = "Success"
        BY <3>3, <2>1, <2>3 DEF BehindIt
      <4>2. \A i \in StepNo : i < here + 1 => steps'[i] = "Success"
        BY <4>1, <3>3, <2>3, <1>t
      <4> QED BY <4>1, <4>2, <2>3 DEF BehindIt
    <3>4. run[r].skipped \in BOOLEAN
      BY <1>t DEF RunState
    <3> QED BY <3>1, <3>2, <3>3, <3>4
  <2> QED BY <2>2, <2>4 DEF BehindIt
<1>6. OutcomeMatchesSteps'
  <2>1. r \in Executing'
    BY <1>1, <1>t DEF Executing, NotRunning
  <2> QED BY <2>1 DEF OutcomeMatchesSteps
<1>7. AloneHolds'
  BY <1>1, <1>5 DEF AloneHolds
<1> QED BY <1>3, <1>4, <1>6, <1>7 DEF FlowInv

\* A caller whose execution is over: nobody executes then, without an overlap.
LEMMA EndKeeps ==
  ASSUME FlowConstants, FlowInv, NEW r \in Runner, NEW outcome \in {"Completed", "Failed"},
         run[r].at # 0, EndAs(r, outcome), UNCHANGED <<calls, shared>>,
         steps' \in [StepNo -> {"Pending", "Success", "Failed", "Skipped"}],
         shared = FALSE /\ outcome = "Completed" => \A i \in StepNo : steps'[i] = "Success",
         shared = FALSE /\ outcome = "Failed" => \E i \in StepNo : steps'[i] \in {"Failed", "Skipped"}
  PROVE  FlowInv'
<1>t. /\ Len(Plan) \in Nat /\ Retries \in Nat
      /\ run \in [Runner -> RunState] /\ RetriesAStep
  BY PlanLength DEF FlowConstants, FlowInv, FlowTypeOK, RunState
<1>1. /\ status' = outcome
      /\ run' = [run EXCEPT ![r] = [at |-> 0, left |-> 0, skipped |-> FALSE]]
      /\ calls' = calls /\ shared' = shared
  BY DEF EndAs, NotRunning
<1>e. outcome = "Failed" => error' = TRUE
  BY DEF EndAs
<1>f. error' \in BOOLEAN
  BY DEF EndAs, FlowInv, FlowTypeOK
<1>2. run' \in [Runner -> RunState]
  BY <1>1, <1>t DEF RunState
<1>3. FlowTypeOK'
  BY <1>1, <1>2, <1>f DEF FlowInv, FlowTypeOK, RunState
<1>4. RetriesAStep'
  BY <1>1, <1>t DEF RetriesAStep
<1>5. ASSUME shared = FALSE
      PROVE  \A q \in Runner : run'[q].at = 0
  BY <1>5, <1>1, <1>t DEF FlowInv, AloneHolds, Alone
<1>6. AloneHolds'
  BY <1>1, <1>5 DEF AloneHolds, Alone, BehindIt
<1>7. OutcomeMatchesSteps'
  BY <1>1, <1>e DEF OutcomeMatchesSteps
<1> QED BY <1>3, <1>4, <1>6, <1>7 DEF FlowInv

LEMMA FlowStepInv == FlowConstants /\ FlowInv /\ [FlowNext]_flowVars => FlowInv'
<1> SUFFICES ASSUME FlowConstants, FlowInv, [FlowNext]_flowVars
             PROVE  FlowInv'
  OBVIOUS
<1>t. /\ Len(Plan) \in Nat /\ Retries \in Nat \ {0} /\ MaxRuns \in Nat /\ StepNo = 1..Len(Plan)
      /\ run \in [Runner -> RunState] /\ RetriesAStep
      /\ steps \in [StepNo -> {"Pending", "Success", "Failed", "Skipped"}]
  BY PlanLength DEF FlowConstants, FlowInv, FlowTypeOK, RunState, StepNo
<1>1. ASSUME NEW r \in Runner, Execute(r)
      PROVE  FlowInv'
  <2>0. /\ run[r] = NotRunning /\ calls < MaxRuns /\ calls' = calls + 1
        /\ status' = "Running" /\ steps' = steps /\ run' = [run EXCEPT ![r].at = 1]
    BY <1>1 DEF Execute
  <2>1. /\ run'[r].at = 1 /\ run'[r].left = 0 /\ run'[r].skipped = FALSE
        /\ \A q \in Runner \ {r} : run'[q] = run[q]
    BY <2>0, <1>t DEF NotRunning
  <2>2. error' = error /\ shared' \in BOOLEAN
    BY <1>1 DEF Execute, FlowInv, FlowTypeOK
  <2>3. shared' = FALSE => shared = FALSE /\ Executing = {}
    BY <1>1 DEF Execute, FlowInv, FlowTypeOK
  <2>4. run' \in [Runner -> RunState]
    BY <2>0, <1>t DEF RunState
  <2>5. FlowTypeOK'
    BY <2>0, <2>2, <2>4, <1>t DEF FlowInv, FlowTypeOK, RunState
  <2>6. RetriesAStep'
    BY <2>1, <1>t DEF RetriesAStep, StepNo
  <2>7. ASSUME shared' = FALSE
        PROVE  Alone' /\ \A q \in Runner : BehindIt(q)'
    <3>1. \A q \in Runner : run[q].at = 0
      BY <2>3, <2>7, NobodyExecutes
    <3>2. run'[r].at = 1 /\ run'[r].skipped = FALSE /\ \A q \in Runner \ {r} : run'[q].at = 0
      BY <3>1, <2>1, <1>t
    <3> QED BY <3>2, <1>t DEF Alone, BehindIt
  <2>8. OutcomeMatchesSteps'
    <3>1. r \in Executing'
      BY <2>1, <1>t DEF Executing, NotRunning
    <3> QED BY <3>1 DEF OutcomeMatchesSteps
  <2>9. AloneHolds'
    BY <2>7 DEF AloneHolds
  <2> QED BY <2>5, <2>6, <2>8, <2>9 DEF FlowInv
<1>2. ASSUME NEW r \in Runner, Success(r)
      PROVE  FlowInv'
  <2>1. StepOf(r) \in StepNo /\ StepTo(r, StepOf(r), "Success", run[r].skipped) /\ UNCHANGED <<calls, shared>>
    BY <1>2 DEF Success, Sending
  <2>2. run[r].skipped \in BOOLEAN
    BY <1>t DEF RunState
  <2> QED BY <2>1, <2>2, StepToKeeps
\* A step that failed for good ends the execution, and is there to be seen.
<1>3. ASSUME NEW r \in Runner, StepOf(r) \in StepNo, steps' = [steps EXCEPT ![StepOf(r)] = "Failed"],
             EndAs(r, "Failed"), UNCHANGED <<calls, shared>>
      PROVE  FlowInv'
  <2>1. run[r].at # 0 /\ steps'[StepOf(r)] = "Failed"
        /\ steps' \in [StepNo -> {"Pending", "Success", "Failed", "Skipped"}]
    BY <1>3, <1>t DEF StepOf
  <2> QED BY <1>3, <2>1, EndKeeps
\* Nothing but the attempts left, and what the step is called, changes.
<1>4. ASSUME NEW r \in Runner, StepOf(r) \in StepNo, NEW n \in 1..Retries,
             run' = [run EXCEPT ![r].left = n],
             steps' = steps \/ steps' = [steps EXCEPT ![StepOf(r)] = "Failed"],
             UNCHANGED <<status, error, calls, shared>>
      PROVE  FlowInv'
  <2>1. /\ run'[r].at = run[r].at /\ run'[r].skipped = run[r].skipped /\ run'[r].left = n
        /\ \A q \in Runner \ {r} : run'[q] = run[q]
        /\ run' \in [Runner -> RunState] /\ StepOf(r) = run[r].at
    BY <1>4, <1>t DEF StepOf, RunState
  <2>2. /\ steps' \in [StepNo -> {"Pending", "Success", "Failed", "Skipped"}]
        /\ \A i \in StepNo : i < run[r].at => steps'[i] = steps[i]
    BY <1>4, <2>1, <1>t
  <2>3. FlowTypeOK'
    BY <1>4, <2>1, <2>2 DEF FlowInv, FlowTypeOK, RunState
  <2>4. RetriesAStep'
    BY <1>4, <2>1, <1>t DEF RetriesAStep
  <2>5. ASSUME shared = FALSE
        PROVE  Alone' /\ \A q \in Runner : BehindIt(q)'
    <3>1. Alone /\ BehindIt(r)
      BY <2>5 DEF FlowInv, AloneHolds
    <3>2. Alone' /\ \A q \in Runner \ {r} : run'[q].at = 0
      BY <3>1, <2>1, <1>4, <1>t DEF Alone
    <3>3. BehindIt(r)'
      BY <3>1, <2>1, <2>2 DEF BehindIt
    <3> QED BY <3>2, <3>3 DEF BehindIt
  <2>6. OutcomeMatchesSteps'
    <3>1. r \in Executing'
      BY <2>1, <1>4, <1>t DEF Executing, NotRunning, StepOf
    <3> QED BY <3>1 DEF OutcomeMatchesSteps
  <2>7. AloneHolds'
    BY <1>4, <2>5 DEF AloneHolds
  <2> QED BY <2>3, <2>4, <2>6, <2>7 DEF FlowInv
<1>5. ASSUME NEW r \in Runner, NEW b \in BOOLEAN, Failure(r, b)
      PROVE  FlowInv'
  <2>1. StepOf(r) \in StepNo /\ UNCHANGED <<calls, shared>>
    BY <1>5 DEF Failure, Sending
  <2>2. CASE Plan[StepOf(r)] = "Skip"
    <3>1. StepTo(r, StepOf(r), "Skipped", TRUE)
      BY <1>5, <2>2 DEF Failure
    <3> QED BY <3>1, <2>1, StepToKeeps
  <2>3. CASE Plan[StepOf(r)] = "Retry" /\ b
    <3>1. /\ steps' = [steps EXCEPT ![StepOf(r)] = "Failed"] /\ run' = [run EXCEPT ![r].left = Retries]
          /\ UNCHANGED <<status, error>>
      BY <1>5, <2>3 DEF Failure
    <3>2. Retries \in 1..Retries
      BY <1>t
    <3> QED BY <3>1, <3>2, <2>1, <1>4
  <2>4. CASE ~(Plan[StepOf(r)] = "Skip") /\ ~(Plan[StepOf(r)] = "Retry" /\ b)
    <3>1. steps' = [steps EXCEPT ![StepOf(r)] = "Failed"] /\ EndAs(r, "Failed")
      BY <1>5, <2>4 DEF Failure
    <3> QED BY <3>1, <2>1, <1>3
  <2> QED BY <2>2, <2>3, <2>4
<1>6. ASSUME NEW r \in Runner, Retry(r)
      PROVE  FlowInv'
  <2>1. run[r].left > 0 /\ StepOf(r) \in StepNo /\ UNCHANGED <<calls, shared>>
    BY <1>6, <1>t DEF Retry, RetriesAStep, StepOf
  <2>2. run[r].skipped \in BOOLEAN /\ run[r].left \in 0..Retries
    BY <1>t DEF RunState
  <2>3. CASE StepTo(r, StepOf(r), "Success", run[r].skipped)
    BY <2>1, <2>2, <2>3, StepToKeeps
  <2>4. CASE run[r].left > 1 /\ run' = [run EXCEPT ![r].left = @ - 1] /\ UNCHANGED <<status, steps, error>>
    <3>1. run' = [run EXCEPT ![r].left = run[r].left - 1] /\ run[r].left - 1 \in 1..Retries
      BY <2>4, <2>2, <1>t
    <3> QED BY <3>1, <2>1, <2>4, <1>4
  <2>5. CASE steps' = [steps EXCEPT ![StepOf(r)] = "Failed"] /\ EndAs(r, "Failed")
    BY <2>1, <2>5, <1>3
  <2> QED BY <1>6, <2>3, <2>4, <2>5 DEF Retry
<1>7. ASSUME NEW r \in Runner, Conclude(r)
      PROVE  FlowInv'
  <2>1. /\ run[r].at = Len(Plan) + 1 /\ steps' = steps /\ UNCHANGED <<calls, shared>>
        /\ run[r].at # 0 /\ \A i \in StepNo : i < run[r].at
    BY <1>7, <1>t DEF Conclude, StepOf
  <2>2. shared = FALSE => BehindIt(r)
    BY DEF FlowInv, AloneHolds
  <2>3. CASE run[r].skipped = TRUE
    <3>1. EndAs(r, "Failed")
      BY <1>7, <2>3 DEF Conclude
    <3>2. shared = FALSE => \E i \in StepNo : steps'[i] = "Skipped"
      BY <2>1, <2>2, <2>3 DEF BehindIt
    <3> QED BY <3>1, <3>2, <2>1, <1>t, EndKeeps
  <2>4. CASE run[r].skipped = FALSE
    <3>1. EndAs(r, "Completed")
      BY <1>7, <2>4 DEF Conclude
    <3>2. shared = FALSE => \A i \in StepNo : steps'[i] = "Success"
      BY <2>1, <2>2, <2>4 DEF BehindIt
    <3> QED BY <3>1, <3>2, <2>1, <1>t, EndKeeps
  <2>5. run[r].skipped \in BOOLEAN
    BY <1>t DEF RunState
  <2> QED BY <2>3, <2>4, <2>5
<1>8. CASE UNCHANGED flowVars
  <2>1. /\ status' = status /\ steps' = steps /\ error' = error /\ run' = run
        /\ calls' = calls /\ shared' = shared
    BY <1>8 DEF flowVars
  <2> QED BY <2>1 DEF FlowInv, FlowTypeOK, RetriesAStep, AloneHolds, Alone, BehindIt,
                      OutcomeMatchesSteps, Executing
<1> QED BY <1>1, <1>2, <1>5, <1>6, <1>7, <1>8 DEF FlowNext

LEMMA FlowInvMeans == FlowInv => OutcomeMatchesSteps
BY DEF FlowInv

\* Whatever steps fail, are skipped or retried, and whatever an earlier execution
\* left behind: without an overlap a workflow is Completed only if all its steps
\* succeeded, and Failed only with an error and a step that did not
\* (WorkflowEngine::execute).
THEOREM NoSilentFailure ==
  ASSUME FlowConstants
  PROVE  FlowSpec => []OutcomeMatchesSteps
<1>1. FlowInit => FlowInv
  BY FlowInitInv
<1>2. FlowInv /\ [FlowNext]_flowVars => FlowInv'
  BY FlowStepInv
<1>3. FlowInv => OutcomeMatchesSteps
  BY FlowInvMeans
<1> QED BY <1>1, <1>2, <1>3, PTL DEF FlowSpec

-----------------------------------------------------------------------------
(* The type invariants, and the bounds they name.                            *)
\* Longest is the longest interval of finitely many jobs.
CronSizes ==
  /\ IsFiniteSet(Job) /\ MaxCrashes \in Nat
  /\ Longest \in Nat /\ \A j \in Job : Every[j] <= Longest

LEMMA CronTypesInit == CronSizes /\ CronInit => CronTypeOK
BY DEF CronInit, CronTypeOK, CronSizes

LEMMA LessWaits ==
  ASSUME CronConstants, CronSizes
  PROVE  /\ \A w \in Wait : Less(w) \in Wait
         /\ Less(NoJob) = NoJob
         /\ \A j \in Job : Every[j] \in Wait
BY DEF Wait, Less, CronSizes, CronConstants

LEMMA CronTypesStep ==
  ASSUME CronConstants, CronSizes, CronTypeOK, [CronNext]_cronVars
  PROVE  CronTypeOK'
<1>1. /\ jobs \in [Job -> Wait \cup {NoJob}] /\ cronRows \in [Job -> Wait \cup {NoJob}]
      /\ inFlight \subseteq Job /\ running \subseteq Job /\ handles \in Seq(Job)
      /\ saving \in [job: Job, wait: Wait] \cup {NoJob}
      /\ adding \subseteq Job /\ removing \subseteq Job /\ crashes \in 0..MaxCrashes
      /\ removed \subseteq Job /\ raced \subseteq Job /\ Due \subseteq Job
  BY DEF CronTypeOK, Due, Present
<1>2. CASE Second
  <2>1. jobs' \in [Job -> Wait \cup {NoJob}] /\ cronRows' \in [Job -> Wait \cup {NoJob}]
    BY <1>1, <1>2, LessWaits DEF Second
  <2>2. saving' \in [job: Job, wait: Wait] \cup {NoJob}
    <3>1. CASE saving = NoJob BY <1>2, <3>1 DEF Second
    <3>2. CASE saving # NoJob
      <4>1. saving \in [job: Job, wait: Wait] /\ saving' = [saving EXCEPT !.wait = Less(saving.wait)]
        BY <1>1, <1>2, <3>2 DEF Second
      <4>2. Less(saving.wait) \in Wait BY <4>1, LessWaits
      <4> QED BY <4>1, <4>2
    <3> QED BY <3>1, <3>2
  <2> QED BY <1>1, <1>2, <2>1, <2>2 DEF Second, CronTypeOK
<1>3. CASE TakeDue
  <2>1. handles' \in Seq(Job)
    <3>1. Cardinality(Due) \in Nat BY <1>1, FS_Subset, FS_CardinalityType DEF CronSizes
    <3>2. handles' \in [1..Cardinality(Due) -> Due] BY <1>3 DEF TakeDue, Orders
    <3> QED BY <1>1, <3>1, <3>2
  <2>2. jobs' \in [Job -> Wait \cup {NoJob}] BY <1>1, <1>3, LessWaits DEF TakeDue
  <2> QED BY <1>1, <1>3, <2>1, <2>2 DEF TakeDue, CronTypeOK
<1>4. CASE Collect
  <2>1. Head(handles) \in Job /\ Tail(handles) \in Seq(Job) BY <1>1, <1>4 DEF Collect
  <2>2. PICK j : j = Head(handles) OBVIOUS
  <2>3. /\ saving' = IF j \in Present THEN [job |-> j, wait |-> jobs[j]] ELSE NoJob
        /\ raced' = IF j \in Present \cap removing THEN raced \cup {j} ELSE raced
    BY <1>4, <2>2 DEF Collect
  <2>4. j \in Present => jobs[j] \in Wait BY <1>1, <2>1, <2>2 DEF Present
  <2>5. saving' \in [job: Job, wait: Wait] \cup {NoJob} /\ raced' \subseteq Job
    BY <1>1, <2>1, <2>2, <2>3, <2>4
  <2> QED BY <1>1, <1>4, <2>1, <2>5 DEF Collect, CronTypeOK
<1>5. CASE Persist
  <2>1. saving \in [job: Job, wait: Wait] BY <1>1, <1>5 DEF Persist
  <2> QED BY <1>1, <1>5, <2>1 DEF Persist, CronTypeOK
<1>6. CASE CronCrash
  BY <1>1, <1>6 DEF CronCrash, CronTypeOK, CronSizes
<1>7. ASSUME NEW j \in Job, AddJob(j) \/ Push(j) \/ DeleteJob(j) \/ Retain(j) \/ Finish(j)
      PROVE  CronTypeOK'
  <2>1. Every[j] \in Wait BY LessWaits
  <2> QED BY <1>1, <1>7, <2>1 DEF AddJob, Push, DeleteJob, Retain, Finish, CronTypeOK
<1>8. CASE UNCHANGED cronVars BY <1>1, <1>8 DEF cronVars, CronTypeOK
<1> QED BY <1>2, <1>3, <1>4, <1>5, <1>6, <1>7, <1>8 DEF CronNext

\* An entry is one writer's, and the writes of the table that failed are of different
\* entries.
RowsLost ==
  /\ \A v, w \in Worker : worker[v] # NoEntry /\ worker[v] = worker[w] => v = w
  /\ \A w \in Worker : worker[w] # NoEntry => worker[w] \notin lost.table
  /\ errors[0] <= Cardinality(lost.table)
  /\ Sinks = <<>> => refused = 0

LEMMA RowsLostInit == TrailConstants /\ TrailInit => RowsLost
<1> SUFFICES ASSUME TrailConstants, TrailInit PROVE RowsLost
  OBVIOUS
<1>1. Cardinality(lost.table) = 0 BY FS_EmptySet DEF TrailInit
<1> QED BY <1>1 DEF TrailInit, RowsLost, Places

LEMMA RowsLostStep ==
  ASSUME TrailConstants, TrailInv, RowsLost, [TrailNext]_trailVars
  PROVE  RowsLost'
<1>1. /\ worker \in [Worker -> Entry \cup {NoEntry}] /\ errors \in [Places -> Nat]
      /\ lost \in [channel: SUBSET Entry, table: SUBSET Entry]
      /\ hand # NoEntry => hand.at \in SinkNo
      /\ SinkNo = 1..Len(Sinks) /\ Len(Sinks) \in Nat /\ 0 \in Places /\ 0 \notin SinkNo
  BY TrailFacts DEF TrailInv, TrailTyped, Places
<1>2. \A S \in SUBSET Entry : IsFiniteSet(S) /\ Cardinality(S) \in Nat
  BY FS_Subset, FS_CardinalityType DEF TrailConstants
<1>3. ASSUME NEW w \in Worker, NEW e \in Entry, Dispatch(w, e) PROVE RowsLost'
  <2>1. /\ worker' = [worker EXCEPT ![w] = e] /\ UNCHANGED <<errors, lost>>
        /\ Sinks = <<>> => refused' = refused
    BY <1>3 DEF Dispatch
  <2>2. e # NoEntry /\ e \notin lost.table /\ \A v \in Worker : worker[v] # e
    BY <1>3 DEF Dispatch, Seen, TrailConstants
  <2>3. \A v \in Worker : worker'[v] = IF v = w THEN e ELSE worker[v] BY <1>1, <2>1
  <2> QED BY <2>1, <2>2, <2>3 DEF RowsLost
<1>4. ASSUME NEW w \in Worker, InsertRow(w) PROVE RowsLost'
  <2>1. /\ worker' = [worker EXCEPT ![w] = NoEntry] /\ refused' = refused
        /\ worker[w] \in Entry /\ worker[w] \notin lost.table
    BY <1>1, <1>4 DEF InsertRow, RowsLost
  <2>2. \A v \in Worker : worker'[v] = IF v = w THEN NoEntry ELSE worker[v] BY <1>1, <2>1
  <2>3. CASE UNCHANGED <<errors, lost>> BY <2>1, <2>2, <2>3 DEF RowsLost
  <2>4. CASE /\ errors' = [errors EXCEPT ![0] = @ + 1]
             /\ lost' = [lost EXCEPT !.table = @ \cup {worker[w]}]
    <3>1. lost'.table = lost.table \cup {worker[w]} /\ errors'[0] = errors[0] + 1 /\ errors[0] \in Nat
      BY <1>1, <2>4
    <3>2. lost.table \in SUBSET Entry BY <1>1
    <3>3. Cardinality(lost'.table) = Cardinality(lost.table) + 1
      BY <1>2, <2>1, <3>1, <3>2, FS_AddElement
    <3>4. errors'[0] <= Cardinality(lost'.table) BY <1>2, <3>1, <3>2, <3>3 DEF RowsLost
    <3>5. ASSUME NEW v \in Worker, worker'[v] # NoEntry PROVE worker'[v] \notin lost'.table
      BY <2>2, <3>1, <3>5 DEF RowsLost
    <3> QED BY <2>1, <2>2, <3>4, <3>5 DEF RowsLost
  <2> QED BY <1>4, <2>3, <2>4 DEF InsertRow
<1>5. CASE Receive BY <1>5 DEF Receive, RowsLost
<1>6. CASE WriteSink
  <2>1. UNCHANGED <<worker, refused, lost>> /\ hand.at \in Places /\ hand.at # 0
    BY <1>1, <1>6 DEF WriteSink, Places
  <2>2. errors'[0] = errors[0] BY <1>1, <1>6, <2>1 DEF WriteSink
  <2> QED BY <2>1, <2>2 DEF RowsLost
<1>7. CASE TrailCrash
  <2>1. UNCHANGED <<errors, refused>> /\ worker' = [w \in Worker |-> NoEntry]
        /\ lost'.table = lost.table \cup ({worker[w] : w \in Worker} \ {NoEntry})
    BY <1>7 DEF TrailCrash
  <2>2. lost.table \subseteq lost'.table /\ lost'.table \in SUBSET Entry BY <1>1, <2>1
  <2>3. Cardinality(lost.table) <= Cardinality(lost'.table) BY <1>2, <2>2, FS_Subset
  <2>4. errors[0] \in Nat /\ lost.table \in SUBSET Entry BY <1>1
  <2>5. errors'[0] <= Cardinality(lost'.table) BY <1>2, <2>1, <2>2, <2>3, <2>4 DEF RowsLost
  <2> QED BY <2>1, <2>5 DEF RowsLost
<1>8. CASE UNCHANGED trailVars BY <1>8 DEF trailVars, RowsLost
<1> QED BY <1>3, <1>4, <1>5, <1>6, <1>7, <1>8 DEF TrailNext

LEMMA TrailTypes ==
  ASSUME TrailConstants, TrailInv, RowsLost
  PROVE  TrailTypeOK
<1>1. TrailTyped /\ InLine /\ Offered /\ \A s \in SinkNo : Written(s) BY DEF TrailInv
<1>2. /\ SinkNo = 1..Len(Sinks) /\ Len(Sinks) \in Nat /\ Len(sent) \in Nat
      /\ \A s \in SinkNo : Len(out[s]) \in Nat /\ errors[s] \in Nat /\ Coming(s) \in Nat
      /\ Seen \ {NoEntry} \subseteq Entry /\ Cardinality(Seen \ {NoEntry}) \in Nat
  BY <1>1, TrailFacts
<1>3. errors \in [Places -> Nat] /\ refused \in Nat /\ lost.table \subseteq Entry BY <1>1 DEF TrailTyped
<1>4. /\ Cardinality(Entry) \in Nat /\ Cardinality(Seen \ {NoEntry}) <= Cardinality(Entry)
      /\ Cardinality(lost.table) \in Nat /\ Cardinality(lost.table) <= Cardinality(Entry)
  BY <1>2, <1>3, FS_Subset, FS_CardinalityType DEF TrailConstants
<1>5. refused \in 0..Cardinality(Entry) /\ (Sinks # <<>> => Len(sent) <= Cardinality(Entry))
  BY <1>1, <1>2, <1>3, <1>4 DEF Offered, RowsLost
<1>6. ASSUME NEW s \in SinkNo PROVE errors[s] \in 0..Cardinality(Entry)
  <2>1. Sinks # <<>>
    <3>1. Len(<<>>) = 0 OBVIOUS
    <3>2. Len(Sinks) # 0 BY <1>2, <1>6
    <3> QED BY <3>1, <3>2
  <2>2. Len(out[s]) + errors[s] + Coming(s) <= Len(sent) BY <1>1 DEF Written
  <2> QED BY <1>2, <1>4, <1>5, <2>1, <2>2
<1>7. errors[0] \in 0..Cardinality(Entry) BY <1>3, <1>4 DEF RowsLost, Places
<1>8. errors \in [Places -> 0..Cardinality(Entry)]
  <2>1. \A p \in Places : errors[p] \in 0..Cardinality(Entry) BY <1>6, <1>7 DEF Places
  <2> QED BY <1>3, <2>1
<1> QED BY <1>1, <1>5, <1>8 DEF TrailTyped, TrailTypeOK

LEMMA FeedTypes == FeedConstants /\ FeedInv => FeedTypeOK
BY DEF FeedConstants, FeedInv, FeedTyped, Checking, FeedTypeOK

\* Some limit is positive, and some patterns are configured.
SettingsSizes == MaxWrites \in Nat /\ (\E l \in Limits : l # 0) /\ Patterns # {}

\* What SettingsTypeOK says of a process that is down, and of the tasks that wait.
SettingsBounds ==
  /\ {sharedConfig, base} \subseteq Config \cup {Default} /\ (up => base \in Config)
  /\ installed \in [limit: Limits, waf: Patterns, hash: Patterns \cup {0}]
  /\ dirty \subseteq Sections /\ Len(writes) <= MaxWrites

LEMMA DefaultIsKnown ==
  ASSUME SettingsSizes
  PROVE  Default.limit \in Limits /\ Default.waf \in Patterns
<1>1. (CHOOSE l \in Limits : l # 0) \in Limits BY DEF SettingsSizes
<1>2. (CHOOSE p \in Patterns : TRUE) \in Patterns BY DEF SettingsSizes
<1> QED BY <1>1, <1>2 DEF Default

LEMMA SettingsBoundsInit == SettingsSizes /\ SettingsInit => SettingsBounds
<1> SUFFICES ASSUME SettingsSizes, SettingsInit PROVE SettingsBounds
  OBVIOUS
<1>1. PICK c \in Config :
        /\ sharedConfig = c /\ base = c /\ writes = <<>> /\ dirty = {}
        /\ installed = [limit |-> c.limit, waf |-> c.waf, hash |-> 0]
  BY DEF SettingsInit
<1>2. c.limit \in Limits /\ c.waf \in Patterns BY DEF Config
<1> QED BY <1>1, <1>2 DEF SettingsBounds, SettingsSizes

LEMMA SettingsBoundsStep ==
  ASSUME SettingsConstants, SettingsSizes, SettingsInv, SettingsBounds, [SettingsNext]_settingsVars
  PROVE  SettingsBounds'
<1>1. /\ file \in Config \cup {Broken} /\ writes \in Seq(Config) /\ Len(writes) \in Nat /\ MaxWrites \in Nat
      /\ up => sharedConfig \in Config
      /\ installed \in [limit: Limits, waf: Patterns, hash: Patterns \cup {0}]
  BY DEF SettingsInv, SettingsTyped, SettingsBounds, SettingsSizes
<1>2. CASE Boot
  <2>1. PICK c : /\ c = IF file = Broken THEN Default ELSE file
                 /\ up' = Validate(c) /\ sharedConfig' = c /\ base' = c /\ dirty' = {} /\ writes' = <<>>
                 /\ installed' = [limit |-> c.limit, waf |-> c.waf, hash |-> 0]
    BY <1>2 DEF Boot, Booted
  <2>2. c \in Config \cup {Default} BY <1>1, <2>1
  <2>3. c.limit \in Limits /\ c.waf \in Patterns
    <3>1. CASE c = Default BY <3>1, DefaultIsKnown
    <3>2. CASE c \in Config BY <3>2 DEF Config
    <3> QED BY <2>2, <3>1, <3>2
  <2>4. installed' \in [limit: Limits, waf: Patterns, hash: Patterns \cup {0}] BY <2>1, <2>3
  <2>5. up' => c \in Config
    <3>1. ~Validate(Default) BY DEF Validate, Default
    <3>2. c = Default => ~up' BY <2>1, <3>1, Zenon
    <3> QED BY <2>2, <3>2
  <2>6. Len(writes') <= MaxWrites BY <1>1, <2>1
  <2> QED BY <2>1, <2>2, <2>4, <2>5, <2>6 DEF SettingsBounds
<1>3. ASSUME UNCHANGED <<sharedConfig, installed, up, base, dirty>>, Len(writes') <= MaxWrites
      PROVE  SettingsBounds'
  BY <1>3 DEF SettingsBounds
<1>4. ASSUME NEW c \in Config \cup {Broken}, SaveFile(c) PROVE SettingsBounds'
  BY <1>3, <1>4 DEF SaveFile, SettingsBounds
<1>5. StartWatch \/ Debounce => SettingsBounds'
  BY <1>3 DEF StartWatch, Debounce, SettingsBounds
<1>6. CASE LoadFile
  <2>1. /\ UNCHANGED <<sharedConfig, installed, up, base, dirty>> /\ Len(writes) < MaxWrites
        /\ writes' = writes \/ writes' = Append(writes, file)
    BY <1>6 DEF LoadFile
  <2>2. Len(Append(writes, file)) = Len(writes) + 1 BY <1>1
  <2>3. Len(writes') <= MaxWrites BY <1>1, <2>1, <2>2
  <2> QED BY <1>3, <2>1, <2>3
<1>7. ASSUME NEW i \in 1..MaxWrites, WriteLoaded(i) PROVE SettingsBounds'
  <2>1. /\ i \in 1..Len(writes) /\ sharedConfig' = writes[i] /\ base' = writes[i] /\ dirty' = Sections
        /\ writes' = SubSeq(writes, 1, i - 1) \o SubSeq(writes, i + 1, Len(writes))
        /\ installed' = installed
    BY <1>1, <1>7 DEF WriteLoaded
  <2>2. writes[i] \in Config BY <1>1, <2>1
  <2>3. PICK a, b : a = SubSeq(writes, 1, i - 1) /\ b = SubSeq(writes, i + 1, Len(writes)) OBVIOUS
  <2>4. a \in Seq(Config) /\ b \in Seq(Config) /\ Len(a) = i - 1 /\ Len(b) = Len(writes) - i
    BY <1>1, <2>1, <2>3
  <2>5. Len(a \o b) = Len(a) + Len(b) BY <2>4
  <2>6. Len(writes') <= MaxWrites
    <3>1. Len(writes') = (i - 1) + (Len(writes) - i) BY <2>1, <2>3, <2>4, <2>5
    <3>2. Len(writes) <= MaxWrites BY DEF SettingsBounds
    <3>3. \A n \in Nat : \A k \in 1..n : (k - 1) + (n - k) = n - 1 /\ n - 1 <= n OBVIOUS
    <3>4. Len(writes') = Len(writes) - 1 BY <1>1, <2>1, <3>1, <3>3
    <3> QED BY <1>1, <3>2, <3>4
  <2> QED BY <1>1, <2>1, <2>2, <2>6 DEF SettingsBounds
<1>8. ASSUME NEW l \in Limits, PutLimit(l) PROVE SettingsBounds'
  <2>1. /\ up /\ sharedConfig' = [sharedConfig EXCEPT !.limit = l] /\ UNCHANGED <<writes, up, base>>
        /\ installed' = [installed EXCEPT !.limit = l] /\ dirty' = dirty \ {"limit"}
    BY <1>8 DEF PutLimit
  <2>2. sharedConfig' \in Config BY <1>1, <2>1 DEF Config
  <2>3. installed' \in [limit: Limits, waf: Patterns, hash: Patterns \cup {0}] BY <1>1, <2>1
  <2> QED BY <2>1, <2>2, <2>3 DEF SettingsBounds
<1>9. CASE Sync
  <2>1. /\ up /\ UNCHANGED <<sharedConfig, writes, up, base>> /\ dirty' = {}
        /\ installed' = [limit |-> sharedConfig.limit, hash |-> sharedConfig.waf,
              waf |-> IF sharedConfig.waf # installed.hash THEN sharedConfig.waf ELSE installed.waf]
    BY <1>9 DEF Sync
  <2>2. sharedConfig.limit \in Limits /\ sharedConfig.waf \in Patterns BY <1>1, <2>1 DEF Config
  <2>3. installed' \in [limit: Limits, waf: Patterns, hash: Patterns \cup {0}] BY <1>1, <2>1, <2>2
  <2> QED BY <2>1, <2>3 DEF SettingsBounds
<1>10. UNCHANGED settingsVars => SettingsBounds' BY DEF settingsVars, SettingsBounds
<1> QED BY <1>2, <1>4, <1>5, <1>6, <1>7, <1>8, <1>9, <1>10 DEF SettingsNext

LEMMA SettingsTypes ==
  ASSUME SettingsSizes, SettingsInv, SettingsBounds
  PROVE  SettingsTypeOK
<1>1. SettingsTyped BY DEF SettingsInv
<1>2. writes \in UNION {[1..n -> Config] : n \in 0..MaxWrites}
  <2>1. Len(writes) \in 0..MaxWrites /\ writes \in [1..Len(writes) -> Config]
    BY <1>1 DEF SettingsTyped, SettingsBounds, SettingsSizes
  <2> QED BY <2>1
<1> QED BY <1>1, <1>2 DEF SettingsTyped, SettingsBounds, SettingsTypeOK

\* What RolloutTypeOK bounds: the switches, the evaluations, and who asked.
RolloutSizes == MaxSwitches \in Nat /\ MaxEvals \in Nat
RolloutBounds == switches <= MaxSwitches /\ flag.evals <= MaxEvals /\ on \subseteq Context

LEMMA RolloutBoundsInit == RolloutSizes /\ RolloutInit => RolloutBounds
BY DEF RolloutSizes, RolloutInit, NewFlag, RolloutBounds

LEMMA RolloutBoundsStep ==
  ASSUME RolloutConstants, RolloutSizes, RolloutInv, RolloutBounds, [RolloutNext]_rolloutVars
  PROVE  RolloutBounds'
<1> DEFINE Flags == [enabled: BOOLEAN, percentage: 0..Buckets, rules: SUBSET Rules, evals: Nat,
                     trues: Nat]
<1>1. /\ flag \in Flags /\ switches \in Nat /\ MaxSwitches \in Nat /\ MaxEvals \in Nat
      /\ switches <= MaxSwitches /\ flag.evals <= MaxEvals /\ on \subseteq Context
  BY DEF RolloutInv, RolloutTyped, RolloutSizes, RolloutBounds
<1>2. Switch \/ CheckRollback => RolloutBounds'
  BY <1>1 DEF Switch, CheckRollback, RolloutBounds
<1>3. ASSUME UNCHANGED <<switches, on>>, flag'.evals = flag.evals PROVE RolloutBounds'
  BY <1>1, <1>3 DEF RolloutBounds
<1>4. Toggle => RolloutBounds' BY <1>1, <1>3 DEF Toggle
<1>5. ASSUME NEW r \in Rules, AddRule(r) PROVE RolloutBounds' BY <1>1, <1>3, <1>5 DEF AddRule
<1>6. ASSUME NEW usable \in BOOLEAN, NEW p \in 0..Buckets, CreateFlag(usable, p) PROVE RolloutBounds'
  BY <1>1, <1>6 DEF CreateFlag, NewFlag, RolloutBounds
<1>7. ASSUME NEW c \in Context, Evaluate(c) PROVE RolloutBounds'
  <2>1. /\ flag'.evals = flag.evals + 1 /\ flag.evals < MaxEvals /\ switches' = switches
        /\ on' \subseteq on \cup {c}
    BY <1>1, <1>7 DEF Evaluate
  <2>2. flag'.evals <= MaxEvals BY <1>1, <2>1
  <2> QED BY <1>1, <2>1, <2>2 DEF RolloutBounds
<1>8. UNCHANGED rolloutVars => RolloutBounds' BY DEF rolloutVars, RolloutBounds
<1> QED BY <1>2, <1>4, <1>5, <1>6, <1>7, <1>8 DEF RolloutNext

LEMMA RolloutTypes ==
  ASSUME RolloutConstants, RolloutSizes, RolloutInv, RolloutBounds
  PROVE  RolloutTypeOK
<1>1. RolloutTyped /\ ColourIsKnown /\ FlagIsCounted BY DEF RolloutInv
<1>2. release \in [status: {"Active", "RolledBack"}, active: {"blue", "green"}, rollbacks: 0..1]
  <2>1. release \in [status: {"Active", "RolledBack"}, active: {"blue", "green"}, rollbacks: Nat]
    BY <1>1 DEF RolloutTyped
  <2>2. release.rollbacks \in 0..1 BY <1>1, <2>1 DEF ColourIsKnown
  <2> QED BY <2>1, <2>2
<1>3. flag \in [enabled: BOOLEAN, percentage: 0..Buckets, rules: SUBSET Rules,
                evals: 0..MaxEvals, trues: 0..MaxEvals]
  <2>1. flag \in [enabled: BOOLEAN, percentage: 0..Buckets, rules: SUBSET Rules, evals: Nat, trues: Nat]
    BY <1>1 DEF RolloutTyped
  <2>2. flag.evals \in 0..MaxEvals /\ flag.trues \in 0..MaxEvals
    BY <1>1, <2>1 DEF FlagIsCounted, RolloutBounds, RolloutSizes
  <2> QED BY <2>1, <2>2
<1> QED BY <1>1, <1>2, <1>3 DEF RolloutTyped, RolloutBounds, RolloutSizes, RolloutTypeOK

LEMMA AccessTypes == AccessInv => AccessTypeOK
BY DEF AccessInv, AccessTyped, Visiting, AccessTypeOK

\* What NotifyTypeOK bounds: the attempts; a webhook that is gone counts nothing.
NotifyBounds ==
  \A h \in Hook : /\ answered[h] <= MaxCount
                  /\ hooks[h].is = "gone" => hooks[h].delivered = 0 /\ hooks[h].failed = 0

LEMMA NotifyBoundsInit == MaxCount \in Nat /\ NotifyInit => NotifyBounds
BY DEF NotifyInit, NotifyBounds

LEMMA NotifyBoundsStep ==
  ASSUME MaxCount \in Nat, NotifyInv, NotifyBounds, [NotifyNext]_notifyVars
  PROVE  NotifyBounds'
<1>1. /\ hooks \in [Hook -> [is: {"new", "registered", "gone"}, delivered: Nat, failed: Nat]]
      /\ answered \in [Hook -> Nat]
      /\ \A s \in Sender : sender[s].job = "counting" => sender[s].at \in Hook
  BY DEF NotifyInv, NotifyTyped, AtWork, Known
<1>2. ASSUME NEW h \in Hook, Register(h) \/ RemoveHook(h) PROVE NotifyBounds'
  <2>1. Register(h) => NotifyBounds' BY <1>1 DEF Register, NotifyBounds
  <2>2. RemoveHook(h) => NotifyBounds' BY <1>1 DEF RemoveHook, NotifyBounds
  <2> QED BY <1>2, <2>1, <2>2
<1>3. ASSUME UNCHANGED <<hooks, answered>> PROVE NotifyBounds'
  BY <1>3 DEF NotifyBounds
<1>4. ASSUME NEW s \in Sender, Bump(s) PROVE NotifyBounds'
  <2>1. PICK h : h = sender[s].at OBVIOUS
  <2>2. /\ answered' = answered /\ h \in Hook
        /\ hooks' = IF h \notin Registered THEN hooks
                    ELSE IF sender[s].ok THEN [hooks EXCEPT ![h].delivered = @ + 1]
                    ELSE [hooks EXCEPT ![h].failed = @ + 1]
    BY <1>1, <1>4, <2>1 DEF Bump
  <2>3. ASSUME NEW g \in Hook
        PROVE hooks'[g] = hooks[g] \/ (hooks[g].is = "registered" /\ hooks'[g].is = "registered")
    BY <1>1, <2>2 DEF Registered
  <2> QED BY <2>2, <2>3 DEF NotifyBounds
<1>5. ASSUME NEW s \in Sender, NEW ok \in BOOLEAN, Attempt(s, ok) PROVE NotifyBounds'
  <2>1. PICK h : h = sender[s].at OBVIOUS
  <2>2. hooks' = hooks BY <1>5 DEF Attempt
  <2>3. \/ answered' = answered
        \/ answered[h] < MaxCount /\ answered' = [answered EXCEPT ![h] = @ + 1]
    <3>1. sender[s].job \in {"hooks", "channels", "alert"}
      BY <1>5 DEF Attempt, NotifyInv, NotifyTyped, SenderState, AtWork
    <3> QED BY <1>5, <2>1, <3>1 DEF Attempt
  <2>4. \A g \in Hook : answered'[g] <= MaxCount BY <1>1, <2>3 DEF NotifyBounds
  <2> QED BY <2>2, <2>4 DEF NotifyBounds
<1>6. CASE UNCHANGED notifyVars BY <1>3, <1>6 DEF notifyVars
<1>7. ASSUME NEW url, NEW enable, UpdateSettings(url, enable) PROVE NotifyBounds'
  BY <1>3, <1>7 DEF UpdateSettings
<1>8. ASSUME NEW s \in Sender,
             \/ \E wanted \in SUBSET Hook : FireEvent(s, wanted)
             \/ DispatchAlert(s) \/ RaiseAlert(s) \/ NextTarget(s) \/ Finished(s)
      PROVE  NotifyBounds'
  BY <1>3, <1>8 DEF FireEvent, DispatchAlert, RaiseAlert, NextTarget, Finished
<1> QED BY <1>2, <1>4, <1>5, <1>6, <1>7, <1>8 DEF NotifyNext

LEMMA NotifyTypes ==
  ASSUME NotifyConstants, MaxCount \in Nat, NotifyInv, NotifyBounds
  PROVE  NotifyTypeOK
<1>1. NotifyTyped /\ \A h \in Hook : Counted(h) BY DEF NotifyInv
<1>2. ASSUME NEW h \in Hook
      PROVE  hooks[h] \in [is: {"new", "registered", "gone"}, delivered: 0..MaxCount, failed: 0..MaxCount]
  <2>1. /\ hooks[h] \in [is: {"new", "registered", "gone"}, delivered: Nat, failed: Nat]
        /\ answered[h] \in Nat /\ answered[h] <= MaxCount
    BY <1>1 DEF NotifyTyped, NotifyBounds
  <2>2. Cardinality(Counting(h)) \in Nat BY CountingIsFinite
  <2>3. hooks[h].delivered <= MaxCount /\ hooks[h].failed <= MaxCount
    <3>1. CASE hooks[h].is = "registered" BY <1>1, <2>1, <2>2, <3>1 DEF Counted
    <3>2. CASE hooks[h].is = "new" BY <1>1, <3>2 DEF Counted
    <3>3. CASE hooks[h].is = "gone" BY <3>3 DEF NotifyBounds
    <3> QED BY <2>1, <3>1, <3>2, <3>3
  <2> QED BY <2>1, <2>3
<1>3. hooks \in [Hook -> [is: {"new", "registered", "gone"}, delivered: 0..MaxCount, failed: 0..MaxCount]]
  BY <1>1, <1>2 DEF NotifyTyped
<1>4. answered \in [Hook -> 0..MaxCount] BY <1>1 DEF NotifyTyped, NotifyBounds
<1>5. \A s \in Sender : sender[s].job \in {"none", "hooks", "channels", "alert", "counting"}
  BY <1>1 DEF NotifyTyped, SenderState
<1> QED BY <1>1, <1>3, <1>4, <1>5 DEF NotifyTyped, NotifyTypeOK

\* The scheduler with its types, ...
LEMMA CronKept ==
  ASSUME CronConstants, CronSizes
  PROVE  /\ CronInit => SchedulerInv /\ CronTypeOK
         /\ SchedulerInv /\ CronTypeOK /\ [CronNext]_cronVars => (SchedulerInv /\ CronTypeOK)'
         /\ SchedulerInv /\ CronTypeOK => CronTypeOK /\ RemovedIsFinal /\ RestartNeverDelays
BY SchedulerInitInv, SchedulerStepInv, SchedulerInvMeans, CronTypesInit, CronTypesStep

\* ... the audit trail, ...
LEMMA TrailKept ==
  ASSUME TrailConstants
  PROVE  /\ TrailInit => TrailInv /\ RowsLost
         /\ TrailInv /\ RowsLost /\ [TrailNext]_trailVars => (TrailInv /\ RowsLost)'
         /\ TrailInv /\ RowsLost => TrailTypeOK /\ LossIsCounted
BY TrailInitInv, TrailStepInv, TrailInvMeans, RowsLostInit, RowsLostStep, TrailTypes

\* ... the configuration, ...
LEMMA SettingsKept ==
  ASSUME SettingsConstants, SettingsSizes
  PROVE  /\ SettingsInit => SettingsInv /\ SettingsBounds
         /\ SettingsInv /\ SettingsBounds /\ [SettingsNext]_settingsVars => (SettingsInv /\ SettingsBounds)'
         /\ SettingsInv /\ SettingsBounds => SettingsTypeOK /\ SettingsAreCurrent
BY SettingsInitInv, SettingsStepInv, SettingsInvMeans, SettingsBoundsInit, SettingsBoundsStep, SettingsTypes

\* ... a release and a flag, ...
LEMMA RolloutKept ==
  ASSUME RolloutConstants, RolloutSizes
  PROVE  /\ RolloutInit => RolloutInv /\ RolloutBounds
         /\ RolloutInv /\ RolloutBounds /\ [RolloutNext]_rolloutVars => (RolloutInv /\ RolloutBounds)'
         /\ RolloutInv /\ RolloutBounds => RolloutTypeOK /\ RolloutHolds
BY RolloutInitInv, RolloutStepInv, RolloutInvMeans, RolloutBoundsInit, RolloutBoundsStep, RolloutTypes

\* ... and notifications.
LEMMA NotifyKept ==
  ASSUME NotifyConstants, MaxCount \in Nat
  PROVE  /\ NotifyInit => NotifyInv /\ NotifyBounds
         /\ NotifyInv /\ NotifyBounds /\ [NotifyNext]_notifyVars => (NotifyInv /\ NotifyBounds)'
         /\ NotifyInv /\ NotifyBounds => NotifyTypeOK /\ NotifyHolds
BY NotifyInitInv, NotifyStepInv, NotifyInvMeans, NotifyBoundsInit, NotifyBoundsStep, NotifyTypes

=============================================================================
