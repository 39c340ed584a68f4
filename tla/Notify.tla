------------------------------- MODULE Notify -------------------------------
(* What leaves the gateway when something happened: webhooks (fire_event),   *)
(* alert channels (dispatch) and the alert URL (AlertManager).  A sender     *)
(* takes a snapshot of its targets or of the settings and then waits for one *)
(* answer after the other, while webhooks are registered and removed and the *)
(* settings are replaced.                                                    *)
EXTENDS Integers, FiniteSets

CONSTANTS
  Hook,         \* webhooks there may ever be; an id is never used again
  Channel,      \* AlertDispatcher.channels, enabled ones
  Sender,       \* tasks that notify
  Url,          \* alert URLs
  MaxCount,     \* bound on the attempts per webhook
  None

VARIABLES
  hooks,        \* Hook -> its state and its delivered and failed counts
  sender,       \* Sender -> what it still has to do
  settings,     \* AlertSettings: the URL, None when there is none, and enabled
  answered,     \* attempts per webhook that got an answer or an error (history)
  channelled    \* channels that the running dispatch has reached (history)

notifyVars == <<hooks, sender, settings, answered, channelled>>

Registered == {h \in Hook : hooks[h].is = "registered"}
Rest == [job |-> "none", targets |-> {}, todo |-> {}, at |-> None, ok |-> FALSE, stale |-> FALSE]
Running(job) == {s \in Sender : sender[s].job = job}

NotifyInit ==
  /\ hooks = [h \in Hook |-> [is |-> "new", delivered |-> 0, failed |-> 0]] /\ sender = [s \in Sender |-> Rest]
  /\ settings \in [url: Url \cup {None}, enabled: BOOLEAN]
  /\ answered = [h \in Hook |-> 0] /\ channelled = [s \in Sender |-> {}]

Register(h) ==
  /\ hooks[h].is = "new"
  /\ hooks' = [hooks EXCEPT ![h].is = "registered"]
  /\ UNCHANGED <<sender, settings, answered, channelled>>

RemoveHook(h) ==
  /\ h \in Registered
  /\ hooks' = [hooks EXCEPT ![h] = [is |-> "gone", delivered |-> 0, failed |-> 0]]
  /\ sender' = [s \in Sender |->
       IF h \in sender[s].todo \cup {sender[s].at} THEN [sender[s] EXCEPT !.stale = TRUE]
       ELSE sender[s]]
  /\ UNCHANGED <<settings, answered, channelled>>

\* fire_event, up to its snapshot.
FireEvent(s, wanted) ==
  LET targets == Registered \cap wanted IN
  /\ sender[s] = Rest /\ targets # {}
  /\ sender' = [sender EXCEPT ![s] = [Rest EXCEPT !.job = "hooks", !.targets = targets,
                                                  !.todo = targets]]
  /\ UNCHANGED <<hooks, settings, answered, channelled>>

DispatchAlert(s) ==
  /\ sender[s] = Rest
  /\ sender' = [sender EXCEPT ![s] = [Rest EXCEPT !.job = "channels", !.targets = Channel,
                                                  !.todo = Channel]]
  /\ channelled' = [channelled EXCEPT ![s] = {}]
  /\ UNCHANGED <<hooks, settings, answered>>

\* alert_service_down and its like: the settings of this moment.
RaiseAlert(s) ==
  /\ sender[s] = Rest /\ settings.enabled /\ settings.url # None
  /\ sender' = [sender EXCEPT ![s] = [Rest EXCEPT !.job = "alert", !.at = settings.url]]
  /\ UNCHANGED <<hooks, settings, answered, channelled>>

UpdateSettings(url, enabled) ==
  /\ settings' = [url |-> url, enabled |-> enabled]
  /\ sender' = [s \in Sender |-> IF sender[s].job = "alert" THEN [sender[s] EXCEPT !.stale = TRUE]
                                 ELSE sender[s]]
  /\ UNCHANGED <<hooks, answered, channelled>>

NextTarget(s) ==
  /\ sender[s].at = None /\ sender[s].todo # {}
  /\ \E t \in sender[s].todo :
       sender' = [sender EXCEPT ![s].at = t, ![s].todo = @ \ {t}]
  /\ UNCHANGED <<hooks, settings, answered, channelled>>

\* The guard's verdict, then the answer of the target or an error; a webhook is
\* counted in a step of its own, if it is still there.
Attempt(s, ok) ==
  LET r == sender[s] IN
  /\ r.at # None /\ r.job # "counting"
  /\ CASE r.job = "hooks" -> /\ answered[r.at] < MaxCount
                             /\ answered' = [answered EXCEPT ![r.at] = @ + 1]
                             /\ sender' = [sender EXCEPT ![s].job = "counting", ![s].ok = ok]
                             /\ UNCHANGED channelled
       [] r.job = "channels" -> /\ channelled' = [channelled EXCEPT ![s] = @ \cup {r.at}]
                                /\ sender' = [sender EXCEPT ![s].at = None]
                                /\ UNCHANGED answered
       [] r.job = "alert" -> sender' = [sender EXCEPT ![s] = Rest] /\ UNCHANGED <<answered, channelled>>
  /\ UNCHANGED <<hooks, settings>>

Bump_SuccessOnly(s) ==   \* mutant
  LET h == sender[s].at IN
  /\ sender[s].job = "counting"
  /\ hooks' = IF h \in Registered /\ sender[s].ok THEN [hooks EXCEPT ![h].delivered = @ + 1] ELSE hooks
  /\ sender' = [sender EXCEPT ![s].job = "hooks", ![s].at = None]
  /\ UNCHANGED <<settings, answered, channelled>>

\* bump_delivery, bump_failure
Bump(s) ==
  LET h == sender[s].at IN
  /\ sender[s].job = "counting"
  /\ hooks' = IF h \notin Registered THEN hooks
              ELSE IF sender[s].ok THEN [hooks EXCEPT ![h].delivered = @ + 1]
              ELSE [hooks EXCEPT ![h].failed = @ + 1]
  /\ sender' = [sender EXCEPT ![s].job = "hooks", ![s].at = None]
  /\ UNCHANGED <<settings, answered, channelled>>

Finished(s) ==
  /\ sender[s] # Rest /\ sender[s].at = None /\ sender[s].todo = {}
  /\ sender' = [sender EXCEPT ![s] = Rest]
  /\ UNCHANGED <<hooks, settings, answered, channelled>>

NotifyNext ==
  \/ \E h \in Hook : Register(h) \/ RemoveHook(h)
  \/ \E url \in Url \cup {None}, enabled \in BOOLEAN : UpdateSettings(url, enabled)
  \/ \E s \in Sender : \/ \E wanted \in SUBSET Hook : FireEvent(s, wanted)
                       \/ DispatchAlert(s) \/ RaiseAlert(s) \/ NextTarget(s) \/ Bump(s)
                       \/ \E ok \in BOOLEAN : Attempt(s, ok)
                       \/ Finished(s)

NotifySpec == NotifyInit /\ [][NotifyNext]_notifyVars

-----------------------------------------------------------------------------
NotifyTypeOK ==
  /\ hooks \in [Hook -> [is: {"new", "registered", "gone"}, delivered: 0..MaxCount,
                          failed: 0..MaxCount]]
  /\ \A s \in Sender : sender[s].job \in {"none", "hooks", "channels", "alert", "counting"}
  /\ settings \in [url: Url \cup {None}, enabled: BOOLEAN]
  /\ answered \in [Hook -> 0..MaxCount] /\ channelled \in [Sender -> SUBSET Channel]

\* A webhook's counts are the attempts made on it, those of a sender about to
\* count excepted; a failure keeps no later channel from the alert; and what
\* goes to a removed webhook, or to an alert URL that is no longer set, comes
\* from a sender that began before.
NotifyHolds ==
  /\ \A h \in Registered :
       hooks[h].delivered + hooks[h].failed
         + Cardinality({s \in Running("counting") : sender[s].at = h}) = answered[h]
  /\ \A s \in Running("channels") :
       sender[s].todo = {} /\ sender[s].at = None => channelled[s] = Channel
  /\ \A s \in Sender : ~sender[s].stale =>
       /\ sender[s].job = "alert" => settings.enabled /\ settings.url = sender[s].at
       /\ sender[s].job = "hooks" => sender[s].todo \subseteq Registered

=============================================================================
