------------------------------ MODULE WsBridge ------------------------------
(***************************************************************************)
(* The API's live stream (services/api/src/lib.rs 2653-2794): one task     *)
(* reads the Redis streams, keeps each message in a dead-letter queue and  *)
(* sends it to a tokio broadcast channel; every browser has a task that    *)
(* receives from the channel and, when it has lagged behind, replays the   *)
(* newest entries of the queue.                                            *)
(***************************************************************************)
EXTENDS Naturals, Sequences, FiniteSets

CONSTANTS Clients,
          Capacity,    \* of the broadcast channel
          DlqCapacity, \* of the dead-letter queue
          RecoverCap,  \* messages replayed after a lag
          BatchSize,   \* COUNT of one XREADGROUP
          MaxMessages, MaxLosses

ASSUME BridgeAssumption ==
  /\ Capacity \in Nat \ {0} /\ DlqCapacity \in Nat \ {0} /\ BatchSize \in Nat \ {0}
  /\ RecoverCap \in Nat /\ MaxMessages \in Nat /\ MaxLosses \in Nat

VARIABLES published, \* messages in the stream, numbered from 1
          taken,     \* the last one given to the group ws_bridge
          batch,     \* what the reader still has to forward
          queued,    \* is the first of the batch in the dead-letter queue already
          dlq,
          sent,      \* everything sent to the channel; it holds the last Capacity
          client,
          losses

bridgeVars == <<published, taken, batch, queued, dlq, sent, client, losses>>

\* off, or the place in sent where it joined, the next one to receive, what a
\* lag has cost it and is not made up for yet, what went out to the browser
\* since, and whether it ever lagged (both history)
Off == [joined |-> 0, next |-> 0, missed |-> 0, out |-> <<>>, lagged |-> FALSE]

Lower(a, b) == IF a < b THEN a ELSE b
Newest(s, n) == SubSeq(s, Len(s) - Lower(n, Len(s)) + 1, Len(s))

SkipsOne == IF Len(sent) > Capacity THEN Len(sent) - Capacity + 2 ELSE 1 \* mutation
OldestKept == IF Len(sent) > Capacity THEN Len(sent) - Capacity + 1 ELSE 1

BridgeInit ==
  /\ published = 0 /\ taken = 0 /\ batch = <<>> /\ queued = FALSE
  /\ dlq = <<>> /\ sent = <<>> /\ losses = 0
  /\ client = [c \in Clients |-> Off]

PublishMessage ==
  /\ published < MaxMessages /\ published' = published + 1
  /\ UNCHANGED <<taken, batch, queued, dlq, sent, client, losses>>

\* XREADGROUP with NOACK: an answer that is lost is not given again.
ReadBatch ==
  /\ batch = <<>> /\ taken < published
  /\ \E n \in 1 .. Lower(BatchSize, published - taken) :
       /\ taken' = taken + n
       /\ \/ batch' = [i \in 1 .. n |-> taken + i] /\ UNCHANGED losses
          \/ losses < MaxLosses /\ losses' = losses + 1 /\ UNCHANGED batch
  /\ UNCHANGED <<published, queued, dlq, sent, client>>

KeepInDlq ==
  /\ batch # <<>> /\ ~queued
  /\ dlq' = Append(IF Len(dlq) >= DlqCapacity THEN Tail(dlq) ELSE dlq, Head(batch))
  /\ queued' = TRUE
  /\ UNCHANGED <<published, taken, batch, sent, client, losses>>

SendToChannel ==
  /\ batch # <<>> /\ queued
  /\ sent' = Append(sent, Head(batch)) /\ batch' = Tail(batch) /\ queued' = FALSE
  /\ UNCHANGED <<published, taken, dlq, client, losses>>

SubscribeEarly(c) ==                   \* mutation: from the last message on
  /\ client[c] = Off
  /\ client' = [client EXCEPT ![c] = [Off EXCEPT !.joined = Len(sent) + 1,
                                                !.next = IF sent = <<>> THEN 1 ELSE Len(sent)]]
  /\ UNCHANGED <<published, taken, batch, queued, dlq, sent, losses>>
Subscribe(c) ==
  /\ client[c] = Off
  /\ client' = [client EXCEPT ![c] = [Off EXCEPT !.joined = Len(sent) + 1, !.next = Len(sent) + 1]]
  /\ UNCHANGED <<published, taken, batch, queued, dlq, sent, losses>>

On(c) == client[c].joined > 0

\* rx.recv(): the next message, or Lagged and on to the oldest one kept.
Recv(c) ==
  /\ On(c) /\ client[c].missed = 0 /\ client[c].next <= Len(sent)
  /\ LET behind == client[c].next < OldestKept
     IN client' = [client EXCEPT
          ![c].missed = IF behind THEN OldestKept - client[c].next ELSE 0,
          ![c].lagged = @ \/ behind,
          ![c].next = IF behind THEN OldestKept ELSE @ + 1,
          ![c].out = IF behind THEN @ ELSE Append(@, sent[client[c].next])]
  /\ UNCHANGED <<published, taken, batch, queued, dlq, sent, losses>>

RecoverFromDlq(c) ==
  /\ client[c].missed > 0
  /\ client' = [client EXCEPT ![c].out = @ \o Newest(dlq, Lower(client[c].missed, RecoverCap)),
                              ![c].missed = 0]
  /\ UNCHANGED <<published, taken, batch, queued, dlq, sent, losses>>

\* The socket closes, a send fails or nothing came in for thirty seconds.
Disconnect(c) ==
  /\ On(c) /\ client' = [client EXCEPT ![c] = Off]
  /\ UNCHANGED <<published, taken, batch, queued, dlq, sent, losses>>

BridgeNext ==
  \/ PublishMessage \/ ReadBatch \/ KeepInDlq \/ SendToChannel
  \/ \E c \in Clients : Subscribe(c) \/ Recv(c) \/ RecoverFromDlq(c) \/ Disconnect(c)

BridgeSpec == BridgeInit /\ [][BridgeNext]_bridgeVars

------------------------------------------------------------------------------
Delivered(c) == {client[c].out[i] : i \in DOMAIN client[c].out}

\* A browser misses a message only because the channel had dropped it before
\* the browser's task got there: a lag does not skip what is still there to be
\* received (ws_client).
OnlyOverwrittenAreMissed ==
  \A c \in Clients : On(c) =>
    \A i \in client[c].joined .. client[c].next - 1 :
      sent[i] \in Delivered(c) \/ i + Capacity <= Len(sent)

\* Without a lag the browser gets every message since it joined, once and in
\* the order in which they were sent, whatever the dead-letter queue holds.
EachOnceUnlessLagged ==
  \A c \in Clients : On(c) /\ ~client[c].lagged =>
    client[c].out = SubSeq(sent, client[c].joined, client[c].next - 1)

\* The two together: what a browser sees is the stream, less what the channel
\* dropped before the browser's task came to it.
BrowserSeesTheStream == OnlyOverwrittenAreMissed /\ EachOnceUnlessLagged

\* A claim of a comment that the code does not keep (TLC refutes it):
\* "clients that briefly lag can recover without missing events"
\* (services/api/src/lib.rs 2682): once the recovery is done, a browser that
\* lagged by no more than what is replayed has got every message since it joined.
LaggedClientsRecover ==
  \A c \in Clients : On(c) /\ client[c].missed = 0 =>
    \A i \in client[c].joined .. client[c].next - 1 : sent[i] \in Delivered(c)
==============================================================================
