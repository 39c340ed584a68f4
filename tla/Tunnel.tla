------------------------------- MODULE Tunnel -------------------------------
(* The WebSocket proxy (src/gateway/websocket.rs): after the connection to   *)
(* the upstream one task relays what the upstream sends and another what the *)
(* client sends; each waits for a message and then for its delivery.  Either *)
(* end may send, close or vanish at any time.  The task of the client, when  *)
(* it ends, aborts the other, whatever that has in its hand.  Frames of a    *)
(* message sent in fragments are read and dropped.                           *)
EXTENDS Integers, Sequences, SequencesExt

CONSTANTS
  MaxSent,      \* bound on the messages each end sends, its goodbye included
  NoMessage

VARIABLES
  sent,         \* sent[e]: what end e has sent: messages by number, Part, Close, Eof
  got,          \* got[e]: what was delivered to end e
  pump,         \* pump[e]: the task that relays what e sends
  hand          \* hand[e]: the message it waits to deliver

tunnelVars == <<sent, got, pump, hand>>

Side == {"client", "upstream"}
Other(e) == IF e = "client" THEN "upstream" ELSE "client"
Close == 0        \* a close frame
Eof == -1         \* the stream ends without one
Part == -2        \* a continuation frame: a piece of a message in fragments
Goodbye == {Close, Eof}
\* The kinds with an arm in the match of both tasks: text, binary, ping, pong,
\* close.  Any other is `continue`d over.
Carried(m) == m \notin {Part, Eof}
\* An end that has said goodbye reads no more.
Gone(e) == sent[e] # <<>> /\ Last(sent[e]) \in Goodbye

\* Messages of e that its task has taken off the stream.
Taken(e) == pump[e].taken

TunnelInit ==
  /\ sent = [e \in Side |-> <<>>] /\ got = [e \in Side |-> <<>>]
  /\ pump = [e \in Side |-> [is |-> "waiting", taken |-> 0]] /\ hand = [e \in Side |-> NoMessage]

\* connect_async; without a connection the client's session is closed and no
\* task is started.
Connect(ok) ==
  /\ \A e \in Side : pump[e].is = "waiting"
  /\ pump' = [e \in Side |-> [pump[e] EXCEPT !.is = IF ok THEN "running" ELSE "never"]]
  /\ got' = IF ok THEN got ELSE [got EXCEPT !["client"] = Append(@, Close)]
  /\ UNCHANGED <<sent, hand>>

\* An upstream speaks once it is connected.  Its fragments are put together by
\* tungstenite; the client's are handed on as they come by actix_ws, unless
\* asked to aggregate them, which the code does not.
Send(e, m) ==
  /\ ~Gone(e) /\ Len(sent[e]) < MaxSent
  /\ e = "upstream" => pump[e].is \notin {"waiting", "never"}
  /\ m \in Goodbye \cup {Part, Len(sent[e]) + 1} /\ (m = Part => e = "client")
  /\ sent' = [sent EXCEPT ![e] = Append(@, m)]
  /\ UNCHANGED <<got, pump, hand>>

\* A task that ends: the client's takes the other with it.
Ended(e, why) ==
  IF e = "client"
  THEN [pump EXCEPT !["client"].is = why,
                    !["upstream"].is = IF @ = "running" THEN "aborted" ELSE @]
  ELSE [pump EXCEPT ![e].is = why]

\* next().await; the stream that has ended ends the task, and a message of
\* another kind is dropped.
Next1(e) == sent[e][Taken(e) + 1]
TakeMessage(e) ==
  /\ pump[e].is = "running" /\ hand[e] = NoMessage /\ Taken(e) < Len(sent[e])
  /\ IF Next1(e) = Eof
     THEN pump' = Ended(e, "ended") /\ UNCHANGED hand
     ELSE /\ pump' = [pump EXCEPT ![e].taken = @ + 1]
          /\ hand' = IF Carried(Next1(e)) THEN [hand EXCEPT ![e] = Next1(e)] ELSE hand
  /\ UNCHANGED <<sent, got>>

\* send().await to the other end.  One that is gone refuses the message, which
\* ends the task, or its connection swallows it; a close frame ends the task
\* whether it arrives or not.
Deliver(e) ==
  /\ pump[e].is = "running" /\ hand[e] # NoMessage
  /\ hand' = [hand EXCEPT ![e] = NoMessage]
  /\ \/ /\ ~Gone(Other(e)) /\ got' = [got EXCEPT ![Other(e)] = Append(@, hand[e])]
        /\ pump' = IF hand[e] = Close THEN Ended(e, "ended") ELSE pump
     \/ /\ Gone(Other(e)) /\ UNCHANGED got
        /\ IF hand[e] = Close THEN pump' = Ended(e, "ended")
           ELSE pump' \in {pump, Ended(e, "refused")}
  /\ UNCHANGED sent

TunnelNext ==
  \/ \E ok \in BOOLEAN : Connect(ok)
  \/ \E e \in Side : \/ \E m \in Goodbye \cup {Part} \cup 1..MaxSent : Send(e, m)
                    \/ TakeMessage(e) \/ Deliver(e)

TunnelSpec == TunnelInit /\ [][TunnelNext]_tunnelVars

-----------------------------------------------------------------------------
TunnelTypeOK ==
  /\ \A e \in Side : /\ ToSet(sent[e]) \cup ToSet(got[e]) \subseteq Goodbye \cup {Part} \cup 1..MaxSent
                    /\ hand[e] \in {Close, NoMessage} \cup 1..MaxSent
  /\ pump \in [Side -> [is: {"waiting", "never", "running", "ended", "refused", "aborted"},
                       taken: 0..MaxSent]]

\* How many of the first k messages of s are of a kind that is relayed.
Relayable(s, k) == Cardinality({j \in 1..k : Carried(s[j])})

\* The n-th message an end gets is the n-th relayable one the other sent: in
\* order, once and without a gap but for fragments, none of which arrives.
\* Nothing is relayed for the upstream once the client's task is over; and a
\* relayable message goes astray only where its receiver has left or the
\* client's task was over.
TunnelRelays ==
  \A e \in Side : pump[e].is # "never" =>
    /\ \A n \in DOMAIN got[Other(e)] :
         \E k \in DOMAIN sent[e] : /\ Carried(sent[e][k]) /\ Relayable(sent[e], k) = n
                                  /\ got[Other(e)][n] = sent[e][k]
    /\ pump["client"].is \in {"ended", "refused"} => pump["upstream"].is # "running"
    /\ pump[e].is = "ended" => Len(got[Other(e)]) = Relayable(sent[e], Len(sent[e]))
                               \/ Gone(Other(e))

=============================================================================
