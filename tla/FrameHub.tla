------------------------------ MODULE FrameHub ------------------------------
(***************************************************************************)
(* service.FrameHub (internal/service/hub.go) with its subscribers, the    *)
(* livePreview handlers (internal/api/server.go).  A subscriber's channel  *)
(* has room for one frame.  Publish holds the read lock of h.mu, Subscribe *)
(* and the cancel function take the write lock; the subscribers receive    *)
(* without any lock, between any two of Publish's channel operations.      *)
(* The module has no Next: CapturePipeline composes it.                    *)
(***************************************************************************)
EXTENDS Naturals, FiniteSets

CONSTANT Client             \* preview clients

Nothing == 0                \* no frame; frames are numbered from 1

VARIABLES
    subscribers,    \* h.subscribers
    channel,        \* the frame in each client's channel
    publish,        \* Publish: its frame, who is still to get it, who is full
    handler,        \* each client's livePreview: "away", "watching" or "leaving"
    shown,          \* the last frame each client's connection was given, at first
                    \* the newest one when it subscribed
    newest          \* the last frame that Publish has finished with

hubVars == <<subscribers, channel, publish, handler, shown, newest>>

Quiet == [frame |-> Nothing, to |-> {}, full |-> {}, drained |-> FALSE]

HubInit ==
    /\ subscribers = {} /\ publish = Quiet /\ newest = Nothing
    /\ channel = [c \in Client |-> Nothing]
    /\ handler = [c \in Client |-> "away"]
    /\ shown = [c \in Client |-> Nothing]

publishing == publish # Quiet

----------------------------------------------------------------------------
\* Publish

BeginPublish(frame) ==
    /\ publish' = [Quiet EXCEPT !.frame = frame, !.to = subscribers]
    /\ UNCHANGED <<subscribers, channel, handler, shown, newest>>

\* Slip: a client that has not taken the last frame misses the new one.
OfferOnce(c) ==
    /\ c \in publish.to /\ publish.full = {}
    /\ publish' = [publish EXCEPT !.to = @ \ {c}]
    /\ channel' = [channel EXCEPT ![c] = IF @ = Nothing THEN publish.frame ELSE @]
    /\ UNCHANGED <<subscribers, handler, shown, newest>>

\* The first select.  The map is ranged over in any order.
Offer(c) ==
    /\ c \in publish.to /\ publish.full = {}
    /\ IF channel[c] = Nothing
       THEN /\ channel' = [channel EXCEPT ![c] = publish.frame]
            /\ publish' = [publish EXCEPT !.to = @ \ {c}]
       ELSE publish' = [publish EXCEPT !.full = {c}] /\ UNCHANGED channel
    /\ UNCHANGED <<subscribers, handler, shown, newest>>

\* The second: the old frame is thrown away, if it is still there.
Drain(c) ==
    /\ publish.full = {c} /\ ~publish.drained
    /\ channel' = [channel EXCEPT ![c] = Nothing]
    /\ publish' = [publish EXCEPT !.drained = TRUE]
    /\ UNCHANGED <<subscribers, handler, shown, newest>>

\* The third: the frame is given up if the channel is full again.
OfferAgain(c) ==
    /\ publish.full = {c} /\ publish.drained
    /\ channel' = [channel EXCEPT ![c] = IF @ = Nothing THEN publish.frame ELSE @]
    /\ publish' = [publish EXCEPT !.to = @ \ {c}, !.full = {}, !.drained = FALSE]
    /\ UNCHANGED <<subscribers, handler, shown, newest>>

PublishStep == \E c \in Client : Offer(c) \/ Drain(c) \/ OfferAgain(c)

EndPublish ==
    /\ publishing /\ publish.to = {}
    /\ publish' = Quiet /\ newest' = publish.frame
    /\ UNCHANGED <<subscribers, channel, handler, shown>>

----------------------------------------------------------------------------
\* livePreview

Subscribe(c) ==
    /\ handler[c] = "away" /\ ~publishing
    /\ handler' = [handler EXCEPT ![c] = "watching"]
    /\ subscribers' = subscribers \cup {c}
    /\ shown' = [shown EXCEPT ![c] = newest]
    /\ UNCHANGED <<channel, publish, newest>>

\* A frame is taken and written to the connection, which may fail.
Receive(c) ==
    /\ handler[c] = "watching" /\ channel[c] # Nothing
    /\ channel' = [channel EXCEPT ![c] = Nothing]
    /\ shown' = [shown EXCEPT ![c] = channel[c]]
    /\ \E next \in {"watching", "leaving"} : handler' = [handler EXCEPT ![c] = next]
    /\ UNCHANGED <<subscribers, publish, newest>>

\* The client has gone, or does not answer pings.
Leave(c) ==
    /\ handler[c] = "watching"
    /\ handler' = [handler EXCEPT ![c] = "leaving"]
    /\ UNCHANGED <<subscribers, channel, publish, shown, newest>>

\* Slip: the channel is closed without the write lock.
UnsubscribeUnlocked(c) ==
    /\ handler[c] = "leaving"
    /\ handler' = [handler EXCEPT ![c] = "away"]
    /\ subscribers' = subscribers \ {c}
    /\ channel' = [channel EXCEPT ![c] = Nothing]
    /\ shown' = [shown EXCEPT ![c] = Nothing]
    /\ UNCHANGED <<publish, newest>>

\* The deferred cancel function: the client is removed and its channel closed.
Unsubscribe(c) ==
    /\ handler[c] = "leaving" /\ ~publishing
    /\ handler' = [handler EXCEPT ![c] = "away"]
    /\ subscribers' = subscribers \ {c}
    /\ channel' = [channel EXCEPT ![c] = Nothing]
    /\ shown' = [shown EXCEPT ![c] = Nothing]
    /\ UNCHANGED <<publish, newest>>

ClientStep ==
    \E c \in Client : Subscribe(c) \/ Receive(c) \/ Leave(c) \/ Unsubscribe(c)

----------------------------------------------------------------------------

Stage == {"away", "watching", "leaving"}

HubTypeOK ==
    /\ subscribers \subseteq Client
    /\ channel \in [Client -> Nat] /\ shown \in [Client -> Nat]
    /\ newest \in Nat
    /\ publish \in [frame : Nat, to : SUBSET Client, full : SUBSET Client,
                    drained : BOOLEAN]
    /\ Cardinality(publish.full) <= 1
    /\ handler \in [Client -> Stage]

\* The newest frame wins: whatever a slow client has missed, between two calls of
\* Publish the last frame is in its channel or on its screen.  What it is shown
\* never goes back in time, and no frame is sent on a channel that an
\* unsubscription has closed (hub.go:20-27, 33-46; server.go:391-398).
NewestFrameWins ==
    /\ publish.to \subseteq subscribers
    /\ \A c \in subscribers :
        /\ channel[c] # Nothing => shown[c] < channel[c]
        /\ ~publishing =>
              \/ channel[c] = newest
              \/ channel[c] = Nothing /\ shown[c] = newest
=============================================================================
