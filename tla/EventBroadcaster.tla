-------------------------- MODULE EventBroadcaster --------------------------
(***************************************************************************)
(* The broadcaster of deploy events (internal/deploy/event_broadcaster.go) *)
(* as one deploy sees it: the deploy's goroutine is the only publisher of  *)
(* its events, and any number of streams subscribe and unsubscribe.        *)
(*                                                                         *)
(* The mutex protects the set of subscribers.  Subscribe, unsubscribe and  *)
(* the two locked parts of Publish are each one step.  Publish sends       *)
(* between its locked parts, one channel after another and in no           *)
(* particular order, so each send is a step of its own.                    *)
(***************************************************************************)
EXTENDS Naturals, Sequences

CONSTANTS
  Subs,       \* the subscriptions; each is made at most once
  Buffer,     \* deployEventSubscriberBuffer
  MaxEvents   \* bound on the events published, numbered from 1

ASSUME BroadcasterAssumption == Buffer \in Nat \ {0} /\ MaxEvents \in Nat

VARIABLES
  subscribers,  \* the subscriptions in the map
  chan,         \* each channel: not made yet, open or closed
  buf,          \* what is in its buffer
  published,    \* the number of the event published last
  targets,      \* channels the running Publish has still to send to
  slow,         \* channels it found full
  panicked,     \* the operation on a closed channel that ended the process
  since,        \* history: the event published last when s subscribed
  received      \* history: the events s has taken from its channel

bvars == <<subscribers, chan, buf, published, targets, slow, panicked, since, received>>

BTypeOK ==
  /\ subscribers \subseteq Subs
  /\ chan \in [Subs -> {"none", "open", "closed"}]
  /\ buf \in [Subs -> Seq(Nat)]
  /\ published \in Nat
  /\ targets \subseteq Subs
  /\ slow \subseteq Subs
  /\ panicked \in {"no", "send", "close"}
  /\ since \in [Subs -> Nat]
  /\ received \in [Subs -> Seq(Nat)]

BInit ==
  /\ subscribers = {}
  /\ chan = [s \in Subs |-> "none"]
  /\ buf = [s \in Subs |-> <<>>]
  /\ published = 0
  /\ targets = {}
  /\ slow = {}
  /\ panicked = "no"
  /\ since = [s \in Subs |-> 0]
  /\ received = [s \in Subs |-> <<>>]

Alive == panicked = "no"
Publishing == targets \cup slow # {}

\* Closing a closed channel panics.
Close(S) ==
  /\ chan' = [s \in Subs |-> IF s \in S THEN "closed" ELSE chan[s]]
  /\ panicked' = IF \E s \in S : chan[s] = "closed" THEN "close" ELSE panicked

-----------------------------------------------------------------------------
(***************************************************************************)
(* Faulty variants, to show which property would catch them.               *)
(***************************************************************************)

\* A subscriber that has made room by now is forgiven the event it missed.
Evict_ForgivesDrained ==
  /\ Alive /\ targets = {} /\ slow # {}
  /\ LET S == {s \in slow \cap subscribers : Len(buf[s]) = Buffer}
     IN  Close(S) /\ subscribers' = subscribers \ S
  /\ slow' = {}
  /\ UNCHANGED <<buf, published, targets, since, received>>

\* The second look into the map is forgotten.
Evict_TrustsSnapshot ==
  /\ Alive /\ targets = {} /\ slow # {}
  /\ Close(slow)
  /\ subscribers' = subscribers \ slow
  /\ slow' = {}
  /\ UNCHANGED <<buf, published, targets, since, received>>

\* The select has no default case.
Send_Blocks(s) ==
  /\ Alive /\ s \in targets
  /\ chan[s] = "closed" \/ Len(buf[s]) < Buffer
  /\ targets' = targets \ {s}
  /\ IF chan[s] = "closed"
     THEN panicked' = "send" /\ UNCHANGED buf
     ELSE buf' = [buf EXCEPT ![s] = Append(@, published)] /\ UNCHANGED panicked
  /\ UNCHANGED <<subscribers, chan, published, slow, since, received>>

-----------------------------------------------------------------------------
Subscribe(s) ==
  /\ Alive /\ chan[s] = "none"
  /\ chan' = [chan EXCEPT ![s] = "open"]
  /\ subscribers' = subscribers \cup {s}
  /\ since' = [since EXCEPT ![s] = published]
  /\ UNCHANGED <<buf, published, targets, slow, panicked, received>>

\* The function Subscribe returned; calling it again does nothing.
Unsubscribe(s) ==
  /\ Alive /\ chan[s] # "none"
  /\ Close({s} \cap subscribers)
  /\ subscribers' = subscribers \ {s}
  /\ UNCHANGED <<buf, published, targets, slow, since, received>>

\* Publish, up to the first Unlock.
Publish ==
  /\ Alive /\ ~Publishing /\ published < MaxEvents
  /\ published' = published + 1
  /\ targets' = subscribers
  /\ UNCHANGED <<subscribers, chan, buf, slow, panicked, since, received>>

\* One round of the loop over the targets.  Sending on a closed channel panics.
Send(s) ==
  /\ Alive /\ s \in targets
  /\ targets' = targets \ {s}
  /\ IF chan[s] = "closed"
     THEN panicked' = "send" /\ UNCHANGED <<buf, slow>>
     ELSE /\ IF Len(buf[s]) < Buffer
             THEN buf' = [buf EXCEPT ![s] = Append(@, published)] /\ UNCHANGED slow
             ELSE slow' = slow \cup {s} /\ UNCHANGED buf
          /\ UNCHANGED panicked
  /\ UNCHANGED <<subscribers, chan, published, since, received>>

\* Publish, from the second Lock on: drop those that were too slow.
Evict ==
  /\ Alive /\ targets = {} /\ slow # {}
  /\ Close(slow \cap subscribers)
  /\ subscribers' = subscribers \ slow
  /\ slow' = {}
  /\ UNCHANGED <<buf, published, targets, since, received>>

\* A stream takes the next event; what a closed channel still holds is delivered.
Receive(s) ==
  /\ Alive /\ buf[s] # <<>>
  /\ received' = [received EXCEPT ![s] = Append(@, Head(buf[s]))]
  /\ buf' = [buf EXCEPT ![s] = Tail(@)]
  /\ UNCHANGED <<subscribers, chan, published, targets, slow, panicked, since>>

BNext ==
  \/ Publish
  \/ \E s \in Subs : Subscribe(s) \/ Unsubscribe(s) \/ Send(s) \/ Receive(s)
  \/ Evict

BSpec == BInit /\ [][BNext]_bvars

-----------------------------------------------------------------------------
(***************************************************************************)
(* Properties.                                                             *)
(***************************************************************************)
Delivered(s) == received[s] \o buf[s]

\* A subscriber gets every event published since it subscribed, in order, or
\* its channel is closed: nobody keeps a subscription that skips an event
\* (event_broadcaster.go, Publish: a full channel is closed, not skipped).
NoGaps ==
  \A s \in Subs :
    /\ \A i \in 1 .. Len(Delivered(s)) : Delivered(s)[i] = since[s] + i
    /\ s \in subscribers \ (targets \cup slow) => since[s] + Len(Delivered(s)) = published

\* The map holds exactly the open channels and none is closed twice, although
\* an eviction and an unsubscribe may both be after the same one
\* (event_broadcaster.go: both look the channel up under the lock).
ClosedOnce ==
  /\ panicked # "close"
  /\ subscribers = {s \in Subs : chan[s] = "open"}

\* Publish does not panic because a client disconnected
\* (handlers/deploy_test.go, StreamEventsCleansUpSubscriberOnDisconnect).
NeverSendsOnClosed == panicked # "send"

\* Publish returns even if nobody reads (event_broadcaster_test.go: "Publish()
\* blocked on a slow subscriber").
PublishReturns == Publishing ~> (~Publishing \/ ~Alive)

=============================================================================
