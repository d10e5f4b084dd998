----------------------------- MODULE EventStream -----------------------------
(***************************************************************************)
(* One deploy watched by several browsers: the deploy's goroutine stores   *)
(* each event and then publishes it (engine.go, emitEvent), each browser   *)
(* is served by StreamEvents (handlers/deploy.go), which sends the stored  *)
(* events first, subscribes, and then forwards what the broadcaster gives  *)
(* it until the deploy's row says the deploy has ended.                    *)
(***************************************************************************)
EXTENDS EventBroadcaster

\* Each stream makes one subscription of Subs.  MaxEvents is the number of events
\* the deploy emits; the last one follows its final status.
CONSTANT DbFaults   \* storing an event may fail

ASSUME StreamAssumption == MaxEvents \in Nat \ {0} /\ DbFaults \in BOOLEAN

VARIABLES
  emitted,   \* the events the deploy has tried to emit
  stored,    \* the rows in deploy_events
  ended,     \* the deploy's row has a final status
  stage,     \* where StreamEvents is
  status,    \* what it read from the deploy's row: ended or not
  written    \* the events it has written to the browser

evars == <<emitted, stored, ended>>
hvars == <<stage, status, written>>
vars == <<bvars, evars, hvars>>

Stages == {"idle", "list", "connected", "subscribe", "loop", "recheck",
           "leaving", "told", "gone"}
Over == {"told", "gone"}

\* Only events that were stored are published.
TypeOK ==
  /\ BTypeOK
  /\ emitted \in 0 .. MaxEvents
  /\ stored \in 0 .. emitted
  /\ published \in 0 .. stored
  /\ ended \in BOOLEAN
  /\ stage \in [Subs -> Stages]
  /\ status \in [Subs -> BOOLEAN]
  /\ written \in [Subs -> Seq(1 .. MaxEvents)]

Init ==
  /\ BInit
  /\ emitted = 0
  /\ stored = 0
  /\ ended = FALSE
  /\ stage = [s \in Subs |-> "idle"]
  /\ status = [s \in Subs |-> FALSE]
  /\ written = [s \in Subs |-> <<>>]

-----------------------------------------------------------------------------
(***************************************************************************)
(* The deploy's goroutine.                                                 *)
(***************************************************************************)
\* It is between two calls of emitEvent: the event stored last, if any, has
\* been published.
Between == Alive /\ ~Publishing /\ published = stored

\* CreateDeployEvent.  The last event comes after the final status.
StoreEvent ==
  /\ Between /\ emitted < MaxEvents
  /\ emitted + 1 = MaxEvents => ended
  /\ emitted' = emitted + 1
  /\ \/ stored' = stored + 1
     \/ DbFaults /\ stored' = stored
  /\ UNCHANGED <<bvars, ended, hvars>>

\* Faulty variant: an event that could not be stored is published all the same.
PublishEvent_Unstored ==
  /\ published < emitted
  /\ Publish
  /\ UNCHANGED <<evars, hvars>>

\* events.Publish, only for an event that was stored.
PublishEvent ==
  /\ published < stored
  /\ Publish
  /\ UNCHANGED <<evars, hvars>>

SendEvent(s) == Send(s) /\ UNCHANGED <<evars, hvars>>

EvictSlow == Evict /\ UNCHANGED <<evars, hvars>>

\* UpdateDeploy with success, failed or auto_rollback.
EndDeploy ==
  /\ Between /\ ~ended /\ emitted + 1 = MaxEvents
  /\ ended' = TRUE
  /\ UNCHANGED <<bvars, emitted, stored, hvars>>

-----------------------------------------------------------------------------
(***************************************************************************)
(* StreamEvents.                                                           *)
(***************************************************************************)
Go(s, from, to) ==
  /\ Alive
  /\ stage[s] = from
  /\ stage' = [stage EXCEPT ![s] = to]

\* Faulty variants: return without the deferred unsubscribe; list the stored
\* events newest first.
Recheck_ForgetsUnsubscribe(s) ==
  /\ Go(s, "recheck", IF ended THEN "told" ELSE "loop")
  /\ status' = [status EXCEPT ![s] = ended]
  /\ UNCHANGED <<bvars, evars, written>>

ListStored_NewestFirst(s) ==
  /\ Go(s, "list", "connected")
  /\ written' = [written EXCEPT ![s] = [i \in 1 .. stored |-> stored + 1 - i]]
  /\ UNCHANGED <<bvars, evars, status>>

\* GetDeploy
ReadStatus(s) ==
  /\ Go(s, "idle", "list")
  /\ status' = [status EXCEPT ![s] = ended]
  /\ UNCHANGED <<bvars, evars, written>>

\* ListDeployEvents, in the order of their ids, each written to the browser.
ListStored(s) ==
  /\ Go(s, "list", "connected")
  /\ written' = [written EXCEPT ![s] = [i \in 1 .. stored |-> i]]
  /\ UNCHANGED <<bvars, evars, status>>

\* Nothing more is to come if the deploy had ended when its row was read.
Connected(s) ==
  /\ Go(s, "connected", IF status[s] THEN "told" ELSE "subscribe")
  /\ UNCHANGED <<bvars, evars, status, written>>

SubscribeStream(s) ==
  /\ Go(s, "subscribe", "loop")
  /\ Subscribe(s)
  /\ UNCHANGED <<evars, status, written>>

Forward(s) ==
  /\ Go(s, "loop", "recheck")
  /\ Receive(s)
  /\ written' = [written EXCEPT ![s] = Append(@, Head(buf[s]))]
  /\ UNCHANGED <<evars, status>>

\* GetDeploy again, after each event.
Recheck(s) ==
  /\ Go(s, "recheck", IF ended THEN "leaving" ELSE "loop")
  /\ status' = [status EXCEPT ![s] = ended]
  /\ UNCHANGED <<bvars, evars, written>>

\* The channel was closed because the stream was too slow.
Evicted(s) ==
  /\ Go(s, "loop", "leaving")
  /\ chan[s] = "closed" /\ buf[s] = <<>>
  /\ UNCHANGED <<bvars, evars, status, written>>

\* The browser goes away, a write or a query fails.
Disconnect(s) ==
  /\ stage[s] \in {"list", "connected", "subscribe", "loop", "recheck"}
  /\ Go(s, stage[s], IF stage[s] \in {"loop", "recheck"} THEN "leaving" ELSE "gone")
  /\ UNCHANGED <<bvars, evars, status, written>>

\* The deferred unsubscribe.
Leave(s) ==
  /\ Go(s, "leaving", IF status[s] THEN "told" ELSE "gone")
  /\ Unsubscribe(s)
  /\ UNCHANGED <<evars, status, written>>

Deploying == StoreEvent \/ PublishEvent \/ EndDeploy \/ (\E s \in Subs : SendEvent(s)) \/ EvictSlow

Serve(s) ==
  \/ ReadStatus(s) \/ ListStored(s) \/ Connected(s) \/ SubscribeStream(s)
  \/ Forward(s) \/ Recheck(s) \/ Evicted(s) \/ Leave(s)

Next == Deploying \/ (\E s \in Subs : Serve(s) \/ Disconnect(s))

Spec == Init /\ [][Next]_vars

\* The deploy's goroutine goes on while it is inside Publish.  Browsers may stop
\* reading at any time, so nothing is assumed of the streams.
FairSpec == Spec /\ WF_vars((\E s \in Subs : SendEvent(s)) \/ EvictSlow)

-----------------------------------------------------------------------------
(***************************************************************************)
(* Properties.                                                             *)
(***************************************************************************)

\* What a stream writes is two runs without gap or repetition, the stored events
\* and the live ones, and the second does not begin before the first has ended;
\* only where they meet may one event be repeated or some be missing
\* (handlers/deploy.go, StreamEvents; engine.go, emitEvent).
StreamNeverGoesBack ==
  \A s \in Subs :
    LET w == written[s]
        Joints == {i \in 1 .. Len(w) - 1 : w[i + 1] # w[i] + 1}
    IN  /\ \A i, j \in Joints : i = j
        /\ \A i \in Joints : w[i] <= w[i + 1]

\* A stream that is over has left the broadcaster, so the map does not grow
\* with every page view (handlers/deploy.go: defer unsubscribe();
\* deploy_test.go, StreamEventsCleansUpSubscriberOnDisconnect).
NoSubscriberLeaks ==
  \A s \in Subs : stage[s] \in Over => s \notin subscribers

=============================================================================
