-------------------------- MODULE EventStreamProofs --------------------------
(***************************************************************************)
(* Proofs about EventStream and the EventBroadcaster inside it, for any    *)
(* number of streams and events and any size of the channels' buffers.     *)
(* That Publish returns is liveness and stays with TLC; that each of its   *)
(* steps brings it nearer to its return is proved at the end.              *)
(***************************************************************************)
EXTENDS EventStream, SequenceTheorems, FiniteSetTheorems, TLAPS

(***************************************************************************)
(* The inductive invariant.  Delivered is taken apart into what has been   *)
(* received and what is still in the buffer, and a target of the running   *)
(* Publish is exactly one event behind.                                    *)
(***************************************************************************)
Taken(s) == since[s] + Len(received[s])
Queued(s) == Taken(s) + Len(buf[s])

Consecutive(s) ==
  /\ \A i \in 1 .. Len(received[s]) : received[s][i] = since[s] + i
  /\ \A i \in 1 .. Len(buf[s]) : buf[s][i] = Taken(s) + i
  /\ Queued(s) <= published

Current(s) ==
  /\ s \in targets => Queued(s) + 1 = published
  /\ s \in subscribers \ (targets \cup slow) => Queued(s) = published

Unmade(s) ==
  chan[s] = "none" => received[s] = <<>> /\ buf[s] = <<>> /\ s \notin targets \cup slow

BInv ==
  /\ BTypeOK
  /\ ClosedOnce
  /\ \A s \in Subs : Consecutive(s) /\ Current(s) /\ Unmade(s)

-----------------------------------------------------------------------------
(***************************************************************************)
(* The broadcaster.                                                        *)
(***************************************************************************)

\* Appending to a sequence keeps what it holds.
LEMMA Appended ==
  ASSUME NEW T, NEW q \in Seq(T), NEW e \in T
  PROVE  /\ Append(q, e) \in Seq(T)
         /\ Len(Append(q, e)) = Len(q) + 1
         /\ \A i \in 1 .. Len(q) : Append(q, e)[i] = q[i]
         /\ Append(q, e)[Len(q) + 1] = e
  BY SMT

\* Taking the head of a sequence moves what it holds by one.
LEMMA Tailed ==
  ASSUME NEW T, NEW q \in Seq(T), q # <<>>
  PROVE  /\ Head(q) \in T /\ Head(q) = q[1]
         /\ Tail(q) \in Seq(T)
         /\ Len(q) >= 1
         /\ Len(Tail(q)) = Len(q) - 1
         /\ \A i \in 1 .. Len(q) - 1 : Tail(q)[i] = q[i + 1]
  BY SMT

\* The numbers the invariant speaks of.
LEMMA Counted ==
  ASSUME BTypeOK, NEW s \in Subs
  PROVE  /\ received[s] \in Seq(Nat) /\ Len(received[s]) \in Nat
         /\ buf[s] \in Seq(Nat) /\ Len(buf[s]) \in Nat
         /\ since[s] \in Nat /\ published \in Nat
         /\ Taken(s) \in Nat /\ Taken(s) = since[s] + Len(received[s])
         /\ Queued(s) \in Nat /\ Queued(s) = since[s] + Len(received[s]) + Len(buf[s])
  BY DEF BTypeOK, Taken, Queued

LEMMA BInitInv == BInit => BInv
<1> SUFFICES ASSUME BInit PROVE BInv
  OBVIOUS
<1> USE DEF BInit
<1>1. BTypeOK
  BY DEF BTypeOK
<1>2. ClosedOnce
  BY DEF ClosedOnce
<1>3. ASSUME NEW s \in Subs PROVE Consecutive(s) /\ Current(s) /\ Unmade(s)
  BY DEF Consecutive, Current, Unmade, Taken, Queued
<1> QED
  BY <1>1, <1>2, <1>3 DEF BInv

LEMMA SubscribeInv ==
  ASSUME BInv, NEW s \in Subs, Subscribe(s)
  PROVE  BInv'
<1> USE DEF BInv, BTypeOK, Subscribe, Alive
<1>1. BTypeOK'
  BY DEF BTypeOK
<1>2. ClosedOnce'
  BY DEF ClosedOnce
<1>3. ASSUME NEW t \in Subs PROVE (Consecutive(t) /\ Current(t) /\ Unmade(t))'
  <2>1. CASE t = s
    <3>1. /\ received'[s] = <<>> /\ buf'[s] = <<>> /\ since'[s] = published
          /\ s \notin targets' \cup slow' /\ chan'[s] = "open"
      BY DEF Unmade
    <3> QED
      BY <2>1, <3>1 DEF Consecutive, Current, Unmade, Taken, Queued
  <2>2. CASE t # s
    <3>1. /\ received'[t] = received[t] /\ buf'[t] = buf[t] /\ since'[t] = since[t]
          /\ chan'[t] = chan[t] /\ (t \in subscribers' <=> t \in subscribers)
      BY <2>2
    <3>2. Consecutive(t) /\ Current(t) /\ Unmade(t)
      OBVIOUS
    <3> QED
      BY <3>1, <3>2 DEF Consecutive, Current, Unmade, Taken, Queued
  <2> QED
    BY <2>1, <2>2
<1> QED
  BY <1>1, <1>2, <1>3 DEF BInv

\* Closing channels of the map, and taking them out of it, is always in order.
LEMMA CloseInv ==
  ASSUME BInv, NEW S \in SUBSET subscribers, Close(S), subscribers' = subscribers \ S,
         slow' = slow \/ (slow' = {} /\ slow \cap subscribers = S /\ targets = {}),
         UNCHANGED <<buf, published, targets, since, received>>
  PROVE  BInv'
<1> USE DEF BInv, BTypeOK, Close
<1>1. \A s \in S : chan[s] = "open"
  BY DEF ClosedOnce
<1>2. panicked' = panicked
  BY <1>1
<1>3. BTypeOK'
  BY <1>2 DEF BTypeOK
<1>4. ClosedOnce'
  BY <1>2 DEF ClosedOnce
<1>5. ASSUME NEW t \in Subs PROVE (Consecutive(t) /\ Current(t) /\ Unmade(t))'
  <2>1. Consecutive(t) /\ Current(t) /\ Unmade(t)
    OBVIOUS
  <2>2. Consecutive(t)'
    BY <2>1 DEF Consecutive, Taken, Queued
  <2>3. Current(t)'
    BY <2>1 DEF Current, Taken, Queued
  <2>4. Unmade(t)'
    BY <2>1 DEF Unmade
  <2> QED
    BY <2>2, <2>3, <2>4
<1> QED
  BY <1>3, <1>4, <1>5 DEF BInv

LEMMA UnsubscribeInv ==
  ASSUME BInv, NEW s \in Subs, Unsubscribe(s)
  PROVE  BInv'
<1>1. {s} \cap subscribers \in SUBSET subscribers
  OBVIOUS
<1>2. subscribers' = subscribers \ ({s} \cap subscribers)
  BY DEF Unsubscribe
<1> QED
  BY <1>1, <1>2, CloseInv DEF Unsubscribe

LEMMA EvictInv ==
  ASSUME BInv, Evict
  PROVE  BInv'
<1>1. slow \cap subscribers \in SUBSET subscribers
  OBVIOUS
<1>2. subscribers' = subscribers \ (slow \cap subscribers)
  BY DEF Evict
<1> QED
  BY <1>1, <1>2, CloseInv DEF Evict

LEMMA PublishInv ==
  ASSUME BInv, Publish
  PROVE  BInv'
<1> USE DEF BInv, BTypeOK, Publish, Publishing
<1>1. BTypeOK'
  BY DEF BTypeOK
<1>2. ClosedOnce'
  BY DEF ClosedOnce
<1>3. ASSUME NEW t \in Subs PROVE (Consecutive(t) /\ Current(t) /\ Unmade(t))'
  <2>1. Consecutive(t) /\ Current(t) /\ Unmade(t)
    OBVIOUS
  <2>2. Taken(t) \in Nat /\ Queued(t) \in Nat
    BY DEF Taken, Queued
  <2>3. Taken(t)' = Taken(t) /\ Queued(t)' = Queued(t)
    BY DEF Taken, Queued
  <2>4. Consecutive(t)'
    BY <2>1, <2>2, <2>3 DEF Consecutive
  <2>5. Current(t)'
    BY <2>1, <2>2, <2>3 DEF Current
  <2>6. Unmade(t)'
    BY <2>1 DEF Unmade, ClosedOnce
  <2> QED
    BY <2>4, <2>5, <2>6
<1> QED
  BY <1>1, <1>2, <1>3 DEF BInv

LEMMA SendInv ==
  ASSUME BInv, NEW s \in Subs, Send(s)
  PROVE  BInv'
<1> USE DEF BInv, BTypeOK, Send
<1>1. buf[s] \in Seq(Nat) /\ published \in Nat
  OBVIOUS
<1>2. BTypeOK'
  <2>1. Append(buf[s], published) \in Seq(Nat)
    BY <1>1, Appended
  <2> QED
    BY <2>1 DEF BTypeOK
<1>3. ClosedOnce'
  BY DEF ClosedOnce
<1>4. ASSUME NEW t \in Subs PROVE (Consecutive(t) /\ Current(t) /\ Unmade(t))'
  <2>1. Consecutive(t) /\ Current(t) /\ Unmade(t)
    OBVIOUS
  <2>2. Taken(t) \in Nat /\ Queued(t) \in Nat /\ Taken(t)' = Taken(t)
    BY DEF Taken, Queued
  <2>3. CASE t # s \/ buf' = buf
    <3>1. buf'[t] = buf[t]
      BY <2>3
    <3>2. Consecutive(t)'
      BY <2>1, <2>2, <3>1 DEF Consecutive, Queued
    <3>3. Current(t)'
      BY <2>1, <2>2, <2>3, <3>1 DEF Current, Queued, ClosedOnce
    <3>4. Unmade(t)'
      BY <2>1, <3>1 DEF Unmade
    <3> QED
      BY <3>2, <3>3, <3>4
  <2>4. CASE t = s /\ buf' # buf
    <3>1. buf'[s] = Append(buf[s], published)
      BY <2>4
    <3>2. /\ Len(buf'[s]) = Len(buf[s]) + 1
          /\ \A i \in 1 .. Len(buf[s]) : buf'[s][i] = buf[s][i]
          /\ buf'[s][Len(buf[s]) + 1] = published
      BY <1>1, <3>1, Appended
    <3>3. Queued(s) + 1 = published
      BY <2>1, <2>4 DEF Current
    <3>4. Consecutive(s)'
      <4>1. Queued(s)' = published
        <5>1. Queued(s)' = Taken(s)' + Len(buf'[s])
          BY DEF Queued
        <5>2. Queued(s) = Taken(s) + Len(buf[s]) /\ Len(buf[s]) \in Nat
          BY DEF Queued
        <5> HIDE DEF BInv, BTypeOK, Send
        <5> QED
          BY <2>2, <2>4, <3>2, <3>3, <5>1, <5>2
      <4>2. \A i \in 1 .. Len(buf'[s]) : buf'[s][i] = Taken(s) + i
        <5> TAKE i \in 1 .. Len(buf'[s])
        <5>1. CASE i \in 1 .. Len(buf[s])
          BY <2>1, <2>4, <3>2, <5>1 DEF Consecutive
        <5>2. CASE i = Len(buf[s]) + 1
          <6>1. Queued(s) = Taken(s) + Len(buf[s]) /\ Len(buf[s]) \in Nat
            BY DEF Queued
          <6> HIDE DEF BInv, BTypeOK, Send
          <6> QED
            BY <2>2, <2>4, <3>2, <3>3, <5>2, <6>1
        <5> QED
          BY <1>1, <3>2, <5>1, <5>2
      <4> QED
        BY <2>1, <2>2, <2>4, <4>1, <4>2 DEF Consecutive
    <3>5. Current(s)'
      BY <2>2, <2>4, <3>2, <3>3 DEF Current, Queued
    <3>6. Unmade(s)'
      BY <2>1, <2>4 DEF Unmade
    <3> QED
      BY <2>4, <3>4, <3>5, <3>6
  <2> QED
    BY <2>3, <2>4
<1> QED
  BY <1>2, <1>3, <1>4 DEF BInv

LEMMA ReceiveInv ==
  ASSUME BInv, NEW s \in Subs, Receive(s)
  PROVE  BInv'
<1> USE DEF BInv, BTypeOK, Receive
<1>1. buf[s] \in Seq(Nat) /\ buf[s] # <<>> /\ received[s] \in Seq(Nat)
  OBVIOUS
<1>2. /\ Head(buf[s]) \in Nat /\ Head(buf[s]) = buf[s][1]
      /\ Tail(buf[s]) \in Seq(Nat) /\ Len(buf[s]) >= 1
      /\ Len(Tail(buf[s])) = Len(buf[s]) - 1
      /\ \A i \in 1 .. Len(buf[s]) - 1 : Tail(buf[s])[i] = buf[s][i + 1]
  BY <1>1, Tailed
<1>3. /\ Append(received[s], Head(buf[s])) \in Seq(Nat)
      /\ Len(Append(received[s], Head(buf[s]))) = Len(received[s]) + 1
      /\ \A i \in 1 .. Len(received[s]) : Append(received[s], Head(buf[s]))[i] = received[s][i]
      /\ Append(received[s], Head(buf[s]))[Len(received[s]) + 1] = Head(buf[s])
  BY <1>1, <1>2, Appended
<1>4. BTypeOK'
  BY <1>2, <1>3 DEF BTypeOK
<1>5. ClosedOnce'
  BY DEF ClosedOnce
<1>6. ASSUME NEW t \in Subs PROVE (Consecutive(t) /\ Current(t) /\ Unmade(t))'
  <2>1. Consecutive(t) /\ Current(t) /\ Unmade(t)
    OBVIOUS
  <2>2. CASE t # s
    BY <2>1, <2>2 DEF Consecutive, Current, Unmade, Taken, Queued
  <2>3. CASE t = s
    <3>1. received'[s] = Append(received[s], Head(buf[s])) /\ buf'[s] = Tail(buf[s])
      OBVIOUS
    <3>2. Taken(s)' = Taken(s) + 1 /\ Queued(s)' = Queued(s)
      <4>1. /\ Len(received'[s]) = Len(received[s]) + 1
            /\ Len(buf'[s]) = Len(buf[s]) - 1
        BY <1>2, <1>3, <3>1
      <4>2. /\ since'[s] = since[s] /\ since[s] \in Nat
            /\ Len(received[s]) \in Nat /\ Len(buf[s]) \in Nat
        OBVIOUS
      <4>3. /\ Taken(s)' = since'[s] + Len(received'[s])
            /\ Queued(s)' = since'[s] + Len(received'[s]) + Len(buf'[s])
            /\ Taken(s) = since[s] + Len(received[s])
            /\ Queued(s) = since[s] + Len(received[s]) + Len(buf[s])
        BY DEF Taken, Queued
      <4> DEFINE n == Len(received[s])
                 m == Len(buf[s])
                 a == since[s]
      <4>4. /\ a \in Nat /\ n \in Nat /\ m \in Nat
            /\ Taken(s) = a + n /\ Queued(s) = a + n + m
            /\ Taken(s)' = a + (n + 1) /\ Queued(s)' = a + (n + 1) + (m - 1)
        BY <4>1, <4>2, <4>3, Zenon
      <4> HIDE DEF BInv, BTypeOK, Receive, n, m, a
      <4> QED
        BY <4>4
    <3>3. Taken(s) \in Nat /\ Queued(s) \in Nat /\ since'[s] = since[s]
      BY DEF Taken, Queued
    <3>4. \A i \in 1 .. Len(received'[s]) : received'[s][i] = since[s] + i
      <4> TAKE i \in 1 .. Len(received'[s])
      <4>1. CASE i \in 1 .. Len(received[s])
        BY <1>3, <2>1, <2>3, <3>1, <4>1 DEF Consecutive
      <4>2. CASE i = Len(received[s]) + 1
        <5>1. received'[s][i] = buf[s][1]
          BY <1>2, <1>3, <3>1, <4>2
        <5>2. buf[s][1] = Taken(s) + 1
          BY <1>2, <2>1, <2>3 DEF Consecutive
        <5> QED
          BY <3>3, <4>2, <5>1, <5>2 DEF Taken
      <4> QED
        BY <1>1, <1>3, <3>1, <4>1, <4>2
    <3>5. \A i \in 1 .. Len(buf'[s]) : buf'[s][i] = Taken(s) + 1 + i
      BY <1>2, <2>1, <2>3, <3>1, <3>3 DEF Consecutive
    <3>6. Consecutive(s)'
      BY <2>1, <2>3, <3>2, <3>3, <3>4, <3>5 DEF Consecutive
    <3>7. Current(s)'
      BY <2>1, <2>3, <3>2 DEF Current
    <3>8. Unmade(s)'
      BY <1>1, <2>1, <2>3 DEF Unmade
    <3> QED
      BY <2>3, <3>6, <3>7, <3>8
  <2> QED
    BY <2>2, <2>3
<1> QED
  BY <1>4, <1>5, <1>6 DEF BInv

\* Every step of the broadcaster keeps its invariant.
LEMMA BNextInv == BInv /\ [BNext]_bvars => BInv'
<1> SUFFICES ASSUME BInv, [BNext]_bvars PROVE BInv'
  OBVIOUS
<1>1. CASE Publish
  BY <1>1, PublishInv
<1>2. CASE \E s \in Subs : Subscribe(s)
  BY <1>2, SubscribeInv
<1>3. CASE \E s \in Subs : Unsubscribe(s)
  BY <1>3, UnsubscribeInv
<1>4. CASE \E s \in Subs : Send(s)
  BY <1>4, SendInv
<1>5. CASE \E s \in Subs : Receive(s)
  BY <1>5, ReceiveInv
<1>6. CASE Evict
  BY <1>6, EvictInv
<1>7. CASE UNCHANGED bvars
  BY <1>7 DEF bvars, BInv, BTypeOK, ClosedOnce, Consecutive, Current, Unmade, Taken, Queued
<1> QED
  BY <1>1, <1>2, <1>3, <1>4, <1>5, <1>6, <1>7 DEF BNext

\* What has been received and what is in the buffer together have no gap.
LEMMA BInvNoGaps == BInv => NoGaps
<1> SUFFICES ASSUME BInv, NEW s \in Subs
             PROVE  /\ \A i \in 1 .. Len(Delivered(s)) : Delivered(s)[i] = since[s] + i
                    /\ s \in subscribers \ (targets \cup slow)
                         => since[s] + Len(Delivered(s)) = published
  BY DEF NoGaps
<1>1. BTypeOK /\ Consecutive(s) /\ Current(s)
  BY DEF BInv
<1>2. /\ received[s] \in Seq(Nat) /\ Len(received[s]) \in Nat
      /\ buf[s] \in Seq(Nat) /\ Len(buf[s]) \in Nat
      /\ since[s] \in Nat /\ published \in Nat
      /\ Taken(s) = since[s] + Len(received[s])
      /\ Queued(s) = since[s] + Len(received[s]) + Len(buf[s])
  BY <1>1, Counted
<1> DEFINE n == Len(received[s])
           m == Len(buf[s])
           d == Delivered(s)
<1>3. /\ Len(d) = n + m
      /\ \A i \in 1 .. n + m : d[i] = IF i <= n THEN received[s][i] ELSE buf[s][i - n]
  BY <1>2, ConcatProperties DEF Delivered
<1>4. /\ n \in Nat /\ m \in Nat /\ since[s] \in Nat /\ published \in Nat
      /\ Taken(s) = since[s] + n
      /\ Queued(s) = since[s] + n + m
  BY <1>2
<1>5. /\ \A i \in 1 .. n : received[s][i] = since[s] + i
      /\ \A i \in 1 .. m : buf[s][i] = Taken(s) + i
      /\ s \in subscribers \ (targets \cup slow) => Queued(s) = published
  BY <1>1 DEF Consecutive, Current
<1> HIDE DEF n, m, d
<1>6. \A i \in 1 .. n + m : d[i] = since[s] + i
  <2> TAKE i \in 1 .. n + m
  <2>1. CASE i <= n
    <3>1. i \in 1 .. n
      BY <1>4, <2>1
    <3> QED
      BY <1>3, <1>5, <2>1, <3>1
  <2>2. CASE ~(i <= n)
    <3>1. i - n \in 1 .. m
      BY <1>4, <2>2
    <3>2. d[i] = buf[s][i - n]
      BY <1>3, <2>2
    <3> QED
      BY <1>4, <1>5, <3>1, <3>2
  <2> QED
    BY <2>1, <2>2
<1>7. s \in subscribers \ (targets \cup slow) => since[s] + (n + m) = published
  BY <1>4, <1>5
<1>8. /\ \A i \in 1 .. Len(d) : d[i] = since[s] + i
      /\ s \in subscribers \ (targets \cup slow) => since[s] + Len(d) = published
  BY <1>3, <1>6, <1>7
<1> QED
  BY <1>8 DEF d

-----------------------------------------------------------------------------
(***************************************************************************)
(* The streams.  What one has written is the stored events it was given    *)
(* first, Listed many, and after them what it has received.                *)
(***************************************************************************)
Behind == stored <= published + 1

Streamed(s) ==
  /\ stage[s] \in {"idle", "list", "connected", "subscribe"} => chan[s] = "none"
  /\ stage[s] \in {"idle", "list"} => written[s] = <<>>
  /\ stage[s] \in Over => s \notin subscribers

Listed(s) == Len(written[s]) - Len(received[s])

Joined(s) ==
  /\ Listed(s) >= 0
  /\ Listed(s) <= (IF chan[s] = "none" THEN published ELSE since[s]) + 1
  /\ \A i \in 1 .. Len(written[s]) :
       written[s][i] = IF i <= Listed(s) THEN i ELSE since[s] + (i - Listed(s))

IInv ==
  /\ TypeOK
  /\ BInv
  /\ Behind
  /\ \A s \in Subs : Streamed(s) /\ Joined(s)

LEMMA InitIInv == Init => IInv
<1> SUFFICES ASSUME Init PROVE IInv
  OBVIOUS
<1>1. BInit
  BY DEF Init
<1>2. BInv
  BY <1>1, BInitInv
<1>3. TypeOK
  <2>1. BTypeOK
    BY <1>2 DEF BInv
  <2> QED
    <3>1. written \in [Subs -> Seq(1 .. MaxEvents)]
      BY DEF Init
    <3>2. stage \in [Subs -> Stages] /\ status \in [Subs -> BOOLEAN] /\ ended \in BOOLEAN
      BY DEF Init, Stages
    <3>3. emitted \in 0 .. MaxEvents /\ stored \in 0 .. emitted /\ published \in 0 .. stored
      BY <1>1, StreamAssumption DEF Init, BInit
    <3> QED
      BY <2>1, <3>1, <3>2, <3>3 DEF TypeOK
<1>4. Behind
  BY <1>1 DEF Init, BInit, Behind
<1>5. ASSUME NEW s \in Subs PROVE Streamed(s) /\ Joined(s)
  BY <1>1 DEF Init, BInit, Streamed, Joined, Listed, Over
<1> QED
  BY <1>2, <1>3, <1>4, <1>5 DEF IInv

\* A stream whose own state stays is not disturbed by what happens to others.
LEMMA Undisturbed ==
  ASSUME IInv, NEW s \in Subs, UNCHANGED <<stage[s], written[s], received[s], since[s]>>,
         published' \in Nat, published' >= published,
         chan'[s] = "none" <=> chan[s] = "none",
         s \in subscribers' => s \in subscribers
  PROVE  Streamed(s)' /\ Joined(s)'
<1>1. Streamed(s) /\ Joined(s) /\ TypeOK /\ BTypeOK
  BY DEF IInv, BInv
<1>2. Streamed(s)'
  BY <1>1 DEF Streamed
<1>3. Joined(s)'
  <2>1. published \in Nat /\ Listed(s)' = Listed(s)
    BY <1>1 DEF BTypeOK, Listed
  <2>2. Listed(s) \in Int
    BY <1>1 DEF TypeOK, BTypeOK, Listed
  <2> QED
    BY <1>1, <2>1, <2>2 DEF Joined
<1> QED
  BY <1>2, <1>3

\* The deploy's steps, between events and within Publish.
LEMMA DeployingInv ==
  ASSUME IInv, Deploying
  PROVE  IInv'
<1> USE StreamAssumption
<1>1. TypeOK /\ BInv /\ BTypeOK /\ Behind
  BY DEF IInv, BInv
<1>2. CASE StoreEvent
  <2>1. UNCHANGED bvars /\ UNCHANGED hvars
    BY <1>2 DEF StoreEvent
  <2>2. BInv'
    BY <1>1, <2>1, BNextInv
  <2>3. TypeOK'
    BY <1>1, <1>2, <2>2 DEF StoreEvent, TypeOK, BInv, bvars, hvars
  <2>4. Behind'
    BY <1>1, <1>2 DEF StoreEvent, Between, Behind, TypeOK, bvars
  <2>5. ASSUME NEW s \in Subs PROVE Streamed(s)' /\ Joined(s)'
    BY <1>1, <2>1, Undisturbed DEF bvars, hvars, BTypeOK
  <2> QED
    BY <2>2, <2>3, <2>4, <2>5 DEF IInv
<1>3. CASE EndDeploy
  <2>1. UNCHANGED bvars /\ UNCHANGED hvars
    BY <1>3 DEF EndDeploy
  <2>2. BInv'
    BY <1>1, <2>1, BNextInv
  <2>3. TypeOK'
    BY <1>1, <1>3, <2>2 DEF EndDeploy, TypeOK, BInv, bvars, hvars
  <2>4. Behind'
    BY <1>1, <1>3 DEF EndDeploy, Behind, bvars
  <2>5. ASSUME NEW s \in Subs PROVE Streamed(s)' /\ Joined(s)'
    BY <1>1, <2>1, Undisturbed DEF bvars, hvars, BTypeOK
  <2> QED
    BY <2>2, <2>3, <2>4, <2>5 DEF IInv
<1>4. CASE PublishEvent
  <2>1. Publish /\ published < stored /\ UNCHANGED evars /\ UNCHANGED hvars
    BY <1>4 DEF PublishEvent
  <2>2. BInv'
    BY <1>1, <2>1, PublishInv
  <2>3. published' = published + 1 /\ UNCHANGED <<subscribers, chan, received, since>>
    BY <2>1 DEF Publish
  <2>4. TypeOK'
    BY <1>1, <2>1, <2>2, <2>3 DEF TypeOK, BInv, evars, hvars
  <2>5. Behind'
    BY <1>1, <2>1, <2>3 DEF Behind, TypeOK, evars
  <2>6. ASSUME NEW s \in Subs PROVE Streamed(s)' /\ Joined(s)'
    BY <1>1, <2>1, <2>3, Undisturbed DEF hvars, BTypeOK
  <2> QED
    BY <2>2, <2>4, <2>5, <2>6 DEF IInv
<1>5. ASSUME NEW t \in Subs, SendEvent(t) PROVE IInv'
  <2>1. Send(t) /\ UNCHANGED evars /\ UNCHANGED hvars
    BY <1>5 DEF SendEvent
  <2>2. BInv'
    BY <1>1, <2>1, SendInv
  <2>3. UNCHANGED <<subscribers, chan, published, received, since>>
    BY <2>1 DEF Send
  <2>4. TypeOK'
    BY <1>1, <2>1, <2>2, <2>3 DEF TypeOK, BInv, evars, hvars
  <2>5. Behind'
    BY <1>1, <2>1, <2>3 DEF Behind, evars
  <2>6. ASSUME NEW s \in Subs PROVE Streamed(s)' /\ Joined(s)'
    BY <1>1, <2>1, <2>3, Undisturbed DEF hvars, BTypeOK
  <2> QED
    BY <2>2, <2>4, <2>5, <2>6 DEF IInv
<1>6. CASE EvictSlow
  <2>1. Evict /\ UNCHANGED evars /\ UNCHANGED hvars
    BY <1>6 DEF EvictSlow
  <2>2. BInv'
    BY <1>1, <2>1, EvictInv
  <2>3. UNCHANGED <<published, received, since>> /\ subscribers' \subseteq subscribers
    BY <2>1 DEF Evict
  <2>4. \A s \in Subs : chan'[s] = "none" <=> chan[s] = "none"
    BY <1>1, <2>1 DEF Evict, Close, BInv, ClosedOnce
  <2>5. TypeOK'
    BY <1>1, <2>1, <2>2, <2>3 DEF TypeOK, BInv, evars, hvars
  <2>6. Behind'
    BY <1>1, <2>1, <2>3 DEF Behind, evars
  <2>7. ASSUME NEW s \in Subs PROVE Streamed(s)' /\ Joined(s)'
    BY <1>1, <2>1, <2>3, <2>4, Undisturbed DEF hvars, BTypeOK
  <2> QED
    BY <2>2, <2>5, <2>6, <2>7 DEF IInv
<1> QED
  BY <1>2, <1>3, <1>4, <1>5, <1>6 DEF Deploying

\* A step that only moves a stream on, to a stage it may be in.
LEMMA MovedInv ==
  ASSUME IInv, NEW s \in Subs, NEW from, NEW to \in Stages, Go(s, from, to),
         status' \in [Subs -> BOOLEAN], UNCHANGED <<bvars, evars, written>>,
         to \in {"idle", "list", "connected", "subscribe"} => chan[s] = "none",
         to \in {"idle", "list"} => written[s] = <<>>,
         to \in Over => s \notin subscribers
  PROVE  IInv'
<1>1. TypeOK /\ BInv /\ BTypeOK /\ Behind
  BY DEF IInv, BInv
<1>2. BInv'
  BY <1>1, BNextInv
<1>3. TypeOK'
  BY <1>1, <1>2 DEF TypeOK, BInv, Go, bvars, evars
<1>4. Behind'
  BY <1>1 DEF Behind, bvars, evars
<1>5. ASSUME NEW t \in Subs PROVE Streamed(t)' /\ Joined(t)'
  <2>1. Streamed(t) /\ Joined(t)
    BY DEF IInv
  <2>2. Joined(t)'
    BY <2>1 DEF Joined, Listed, bvars
  <2>3. Streamed(t)'
    <3>1. CASE t = s
      BY <1>1, <3>1 DEF Streamed, Go, TypeOK, bvars
    <3>2. CASE t # s
      BY <1>1, <2>1, <3>2 DEF Streamed, Go, TypeOK, bvars
    <3> QED
      BY <3>1, <3>2
  <2> QED
    BY <2>2, <2>3
<1> QED
  BY <1>2, <1>3, <1>4, <1>5 DEF IInv

LEMMA ListStoredInv ==
  ASSUME IInv, NEW s \in Subs, ListStored(s)
  PROVE  IInv'
<1> DEFINE w == [i \in 1 .. stored |-> i]
<1>1. TypeOK /\ BInv /\ BTypeOK /\ Behind /\ Streamed(s) /\ Unmade(s)
  BY DEF IInv, BInv
<1>2. UNCHANGED bvars /\ UNCHANGED evars /\ stage[s] = "list" /\ status' = status
      /\ stage' = [stage EXCEPT ![s] = "connected"]
      /\ written' = [written EXCEPT ![s] = w]
  BY DEF ListStored, Go
<1>3. stored \in Nat /\ stored <= MaxEvents /\ MaxEvents \in Nat
  BY <1>1, StreamAssumption DEF TypeOK
<1>4. w \in Seq(1 .. MaxEvents) /\ Len(w) = stored /\ \A i \in 1 .. stored : w[i] = i
  <2>1. \A i \in 1 .. stored : i \in 1 .. MaxEvents
    BY <1>3
  <2>2. w \in [1 .. stored -> 1 .. MaxEvents]
    BY <2>1
  <2> QED
    BY <1>3, <2>2, SeqDef, LenProperties
<1>5. chan[s] = "none" /\ received[s] = <<>>
  BY <1>1, <1>2 DEF Streamed, Unmade
<1>6. BInv'
  BY <1>1, <1>2, BNextInv
<1>7. TypeOK'
  BY <1>1, <1>2, <1>4, <1>6 DEF TypeOK, BInv, bvars, evars, Stages
<1>8. Behind'
  BY <1>1, <1>2 DEF Behind, bvars, evars
<1>9. ASSUME NEW t \in Subs PROVE Streamed(t)' /\ Joined(t)'
  <2>1. CASE t = s
    <3>1. written'[s] = w /\ stage'[s] = "connected" /\ chan'[s] = "none"
          /\ received'[s] = <<>> /\ published' = published
      BY <1>1, <1>2, <1>5 DEF TypeOK, bvars
    <3>2. Listed(s)' = stored
      <4>1. Len(received'[s]) = 0 /\ Len(written'[s]) = stored
        BY <1>4, <3>1
      <4> QED
        BY <1>3, <4>1 DEF Listed
    <3> HIDE DEF w
    <3>3. Joined(s)'
      BY <1>1, <1>3, <1>4, <3>1, <3>2 DEF Joined, Behind
    <3>4. Streamed(s)'
      BY <3>1 DEF Streamed, Over
    <3> QED
      BY <2>1, <3>3, <3>4
  <2>2. CASE t # s
    <3>1. UNCHANGED <<stage[t], written[t], received[t], since[t], published, chan, subscribers>>
      BY <1>2, <2>2 DEF bvars
    <3> QED
      BY <1>1, <3>1, Undisturbed DEF BTypeOK
  <2> QED
    BY <2>1, <2>2
<1> QED
  BY <1>6, <1>7, <1>8, <1>9 DEF IInv

LEMMA SubscribeStreamInv ==
  ASSUME IInv, NEW s \in Subs, SubscribeStream(s)
  PROVE  IInv'
<1>1. TypeOK /\ BInv /\ BTypeOK /\ Behind /\ Streamed(s) /\ Joined(s)
  BY DEF IInv, BInv
<1>2. Subscribe(s) /\ UNCHANGED evars /\ UNCHANGED <<status, written>>
      /\ stage[s] = "subscribe" /\ stage' = [stage EXCEPT ![s] = "loop"]
  BY DEF SubscribeStream, Go
<1>3. BInv'
  BY <1>1, <1>2, SubscribeInv
<1>4. UNCHANGED <<published, received>>
  BY <1>2 DEF Subscribe
<1>5. TypeOK'
  BY <1>1, <1>2, <1>3, <1>4 DEF TypeOK, BInv, evars, Stages
<1>6. Behind'
  BY <1>1, <1>2, <1>4 DEF Behind, evars
<1>7. ASSUME NEW t \in Subs PROVE Streamed(t)' /\ Joined(t)'
  <2>1. CASE t = s
    <3>1. /\ chan[s] = "none" /\ chan'[s] = "open" /\ since'[s] = published
          /\ stage'[s] = "loop" /\ published \in Nat
      BY <1>1, <1>2 DEF Subscribe, TypeOK, BTypeOK
    <3>2. received[s] = <<>> /\ Len(received[s]) = 0 /\ Len(written[s]) \in Nat
      BY <1>1, <3>1 DEF BInv, Unmade, TypeOK
    <3>3. Listed(s) = Len(written[s]) /\ Listed(s)' = Len(written[s])
      BY <1>2, <1>4, <3>2 DEF Listed
    <3>4. \A i \in 1 .. Len(written[s]) : i <= Len(written[s])
      BY <3>2
    <3>5. Joined(s)'
      BY <1>1, <1>2, <1>4, <3>1, <3>2, <3>3, <3>4 DEF Joined
    <3>6. Streamed(s)'
      BY <3>1 DEF Streamed, Over
    <3> QED
      BY <2>1, <3>5, <3>6
  <2>2. CASE t # s
    <3>1. UNCHANGED <<stage[t], written[t], received[t], since[t], published, chan[t]>>
      BY <1>1, <1>2, <1>4, <2>2 DEF Subscribe, TypeOK, BTypeOK
    <3>2. t \in subscribers' => t \in subscribers
      BY <1>2, <2>2 DEF Subscribe
    <3>3. published \in Nat /\ published' \in Nat /\ published' >= published
      BY <1>1, <1>4 DEF BTypeOK
    <3>4. chan'[t] = "none" <=> chan[t] = "none"
      BY <3>1
    <3> QED
      BY <3>1, <3>2, <3>3, <3>4, Undisturbed
  <2> QED
    BY <2>1, <2>2
<1> QED
  BY <1>3, <1>5, <1>6, <1>7 DEF IInv

LEMMA ForwardInv ==
  ASSUME IInv, NEW s \in Subs, Forward(s)
  PROVE  IInv'
<1> DEFINE e == Head(buf[s])
<1>1. TypeOK /\ BInv /\ BTypeOK /\ Behind /\ Streamed(s) /\ Joined(s) /\ Consecutive(s)
      /\ Unmade(s)
  BY DEF IInv, BInv
<1>2. Receive(s) /\ UNCHANGED evars /\ status' = status
      /\ stage[s] = "loop" /\ stage' = [stage EXCEPT ![s] = "recheck"]
      /\ written' = [written EXCEPT ![s] = Append(@, e)]
  BY DEF Forward, Go
<1>3. BInv'
  BY <1>1, <1>2, ReceiveInv
<1>4. UNCHANGED <<published, since, chan, subscribers>>
      /\ received' = [received EXCEPT ![s] = Append(@, e)] /\ buf[s] # <<>>
  BY <1>2 DEF Receive
<1>5. buf[s] \in Seq(Nat) /\ received[s] \in Seq(Nat) /\ written[s] \in Seq(1 .. MaxEvents)
      /\ published \in Nat /\ since[s] \in Nat /\ published <= MaxEvents /\ MaxEvents \in Nat
  BY <1>1, StreamAssumption DEF TypeOK, BTypeOK
<1>6. e \in Nat /\ e = buf[s][1] /\ Len(buf[s]) >= 1 /\ Len(buf[s]) \in Nat
      /\ Len(received[s]) \in Nat
  BY <1>4, <1>5, Tailed
<1>7. e = since[s] + Len(received[s]) + 1 /\ e \in 1 .. MaxEvents
  <2>1. e = Taken(s) + 1 /\ Queued(s) <= published
    BY <1>1, <1>6 DEF Consecutive
  <2>2. Taken(s) = since[s] + Len(received[s])
        /\ Queued(s) = since[s] + Len(received[s]) + Len(buf[s])
    BY <1>1, Counted
  <2> HIDE DEF e
  <2> QED
    BY SMTT(30), <1>5, <1>6, <2>1, <2>2
<1>8. TypeOK'
  <2>1. Append(written[s], e) \in Seq(1 .. MaxEvents)
    BY <1>5, <1>7, Appended
  <2> QED
    BY <1>1, <1>2, <1>3, <1>4, <2>1 DEF TypeOK, BInv, evars, Stages
<1>9. Behind'
  BY <1>1, <1>2, <1>4 DEF Behind, evars
<1>10. ASSUME NEW t \in Subs PROVE Streamed(t)' /\ Joined(t)'
  <2>1. CASE t = s
    <3>1. /\ written'[s] = Append(written[s], e) /\ received'[s] = Append(received[s], e)
          /\ stage'[s] = "recheck"
      BY <1>1, <1>2, <1>4 DEF TypeOK, BTypeOK
    <3>2. /\ Len(written'[s]) = Len(written[s]) + 1
          /\ \A i \in 1 .. Len(written[s]) : written'[s][i] = written[s][i]
          /\ written'[s][Len(written[s]) + 1] = e
          /\ Len(received'[s]) = Len(received[s]) + 1
          /\ Len(written[s]) \in Nat
      <4> HIDE DEF e
      <4>1. /\ Len(Append(written[s], e)) = Len(written[s]) + 1
            /\ \A i \in 1 .. Len(written[s]) : Append(written[s], e)[i] = written[s][i]
            /\ Append(written[s], e)[Len(written[s]) + 1] = e
        BY <1>5, <1>7, Appended
      <4>2. Len(Append(received[s], e)) = Len(received[s]) + 1
        BY <1>5, <1>6, Appended
      <4>3. Len(written[s]) \in Nat
        BY <1>5
      <4> QED
        BY <3>1, <4>1, <4>2, <4>3
    <3> DEFINE n == Len(written[s])
               r == Len(received[s])
    <3>3. /\ n \in Nat /\ r \in Nat /\ since[s] \in Nat /\ since'[s] = since[s]
          /\ Listed(s) = n - r /\ Listed(s)' = (n + 1) - (r + 1)
          /\ Len(written'[s]) = n + 1
          /\ \A i \in 1 .. n : written'[s][i] = written[s][i]
          /\ written'[s][n + 1] = since[s] + r + 1
      BY <1>4, <1>5, <1>6, <1>7, <3>2 DEF Listed
    <3>4. chan[s] # "none" /\ chan' = chan
      BY <1>1, <1>4 DEF Unmade
    <3>5. /\ Listed(s) >= 0 /\ Listed(s) <= since[s] + 1
          /\ \A i \in 1 .. n : written[s][i] = IF i <= Listed(s) THEN i
                                              ELSE since[s] + (i - Listed(s))
      BY <1>1, <3>4 DEF Joined
    <3> HIDE DEF n, r, e
    <3>6. Listed(s)' = Listed(s) /\ Listed(s) \in Int /\ ~(n + 1 <= Listed(s))
          /\ (n + 1) - Listed(s) = r + 1
      <4> DEFINE l == Listed(s)
                 m == Listed(s)'
      <4>1. n \in Nat /\ r \in Nat /\ l = n - r /\ m = (n + 1) - (r + 1)
        BY <3>3
      <4> HIDE DEF l, m
      <4>2. m = l /\ l \in Int /\ ~(n + 1 <= l) /\ (n + 1) - l = r + 1
        BY <4>1
      <4> QED
        BY <4>2 DEF l, m
    <3>7. ASSUME NEW i \in 1 .. n + 1
          PROVE  written'[s][i] = IF i <= Listed(s) THEN i ELSE since[s] + (i - Listed(s))
      <4>1. CASE i \in 1 .. n
        <5>1. written'[s][i] = written[s][i]
          BY <3>3, <4>1
        <5>2. written[s][i] = IF i <= Listed(s) THEN i ELSE since[s] + (i - Listed(s))
          BY <3>5, <4>1
        <5> QED
          BY <5>1, <5>2, Zenon
      <4>2. CASE i = n + 1
        <5>1. written'[s][i] = since[s] + r + 1 /\ ~(i <= Listed(s))
          BY <3>3, <3>6, <4>2
        <5>2. since[s] + (i - Listed(s)) = since[s] + r + 1
          <6>1. i - Listed(s) = r + 1
            BY <3>6, <4>2
          <6>2. since[s] + (i - Listed(s)) = since[s] + (r + 1)
            BY <6>1, Zenon
          <6>3. since[s] + (r + 1) = since[s] + r + 1
            BY <3>3
          <6> QED
            BY <6>2, <6>3, Zenon
        <5> QED
          BY <5>1, <5>2
      <4> QED
        BY <3>3, <4>1, <4>2
    <3>8. Joined(s)'
      BY <3>3, <3>4, <3>5, <3>6, <3>7 DEF Joined
    <3>9. Streamed(s)'
      BY <3>1 DEF Streamed, Over
    <3> QED
      BY <2>1, <3>8, <3>9
  <2>2. CASE t # s
    <3>1. UNCHANGED <<stage[t], written[t], received[t], since[t], published, chan, subscribers>>
      BY <1>1, <1>2, <1>4, <2>2 DEF TypeOK, BTypeOK
    <3> QED
      BY <1>1, <3>1, Undisturbed DEF BTypeOK
  <2> QED
    BY <2>1, <2>2
<1> QED
  BY <1>3, <1>8, <1>9, <1>10 DEF IInv

LEMMA LeaveInv ==
  ASSUME IInv, NEW s \in Subs, Leave(s)
  PROVE  IInv'
<1>1. TypeOK /\ BInv /\ BTypeOK /\ Behind /\ Streamed(s) /\ Joined(s)
  BY DEF IInv, BInv
<1> DEFINE to == IF status[s] THEN "told" ELSE "gone"
<1>2. Unsubscribe(s) /\ UNCHANGED evars /\ UNCHANGED <<status, written>>
      /\ stage[s] = "leaving" /\ stage' = [stage EXCEPT ![s] = to] /\ to \in {"told", "gone"}
  BY DEF Leave, Go
<1> HIDE DEF to
<1>3. BInv'
  BY <1>1, <1>2, UnsubscribeInv
<1>4. UNCHANGED <<published, received, since>> /\ subscribers' = subscribers \ {s}
  BY <1>2 DEF Unsubscribe
<1>5. \A t \in Subs : chan'[t] = "none" <=> chan[t] = "none"
  BY <1>1, <1>2 DEF Unsubscribe, Close, BInv, ClosedOnce
<1>6. TypeOK'
  BY <1>1, <1>2, <1>3, <1>4 DEF TypeOK, BInv, evars, Stages
<1>7. Behind'
  BY <1>1, <1>2, <1>4 DEF Behind, evars
<1>8. ASSUME NEW t \in Subs PROVE Streamed(t)' /\ Joined(t)'
  <2>1. CASE t = s
    <3>1. stage'[s] = to
      BY <1>1, <1>2 DEF TypeOK
    <3>2. Joined(s)'
      BY <1>1, <1>2, <1>4, <1>5 DEF Joined, Listed
    <3>3. Streamed(s)'
      BY <1>2, <1>4, <3>1 DEF Streamed
    <3> QED
      BY <2>1, <3>2, <3>3
  <2>2. CASE t # s
    <3>1. UNCHANGED <<stage[t], written[t], received[t], since[t], published>>
      BY <1>1, <1>2, <1>4, <2>2 DEF TypeOK
    <3> QED
      BY <1>1, <1>4, <1>5, <3>1, Undisturbed DEF BTypeOK
  <2> QED
    BY <2>1, <2>2
<1> QED
  BY <1>3, <1>6, <1>7, <1>8 DEF IInv

LEMMA ServeInv ==
  ASSUME IInv, NEW s \in Subs, Serve(s) \/ Disconnect(s)
  PROVE  IInv'
<1>1. TypeOK /\ BInv /\ Streamed(s)
  BY DEF IInv
<1>2. \A to \in {"idle", "list", "connected", "subscribe"} : stage[s] = to => s \notin subscribers
  BY <1>1 DEF Streamed, BInv, ClosedOnce
<1>3. status \in [Subs -> BOOLEAN] /\ ended \in BOOLEAN /\ status[s] \in BOOLEAN
  BY <1>1 DEF TypeOK
<1>4. [status EXCEPT ![s] = ended] \in [Subs -> BOOLEAN]
  BY <1>3, Zenon
<1>5. CASE ReadStatus(s)
  <2>1. Go(s, "idle", "list") /\ status' \in [Subs -> BOOLEAN] /\ UNCHANGED <<bvars, evars, written>>
    BY <1>4, <1>5 DEF ReadStatus
  <2>2. "list" \in Stages /\ chan[s] = "none" /\ written[s] = <<>> /\ "list" \notin Over
    BY <1>1, <2>1 DEF Go, Streamed, Stages, Over
  <2> QED
    BY <2>1, <2>2, MovedInv
<1>6. CASE ListStored(s)
  BY <1>6, ListStoredInv
<1>7. CASE Connected(s)
  <2> DEFINE to == IF status[s] THEN "told" ELSE "subscribe"
  <2>1. Go(s, "connected", to) /\ status' \in [Subs -> BOOLEAN] /\ UNCHANGED <<bvars, evars, written>>
    BY <1>3, <1>7 DEF Connected
  <2>2. to \in Stages /\ to \notin {"idle", "list"}
    BY DEF Stages
  <2>3. chan[s] = "none" /\ s \notin subscribers
    BY <1>1, <1>2, <2>1 DEF Go, Streamed
  <2> HIDE DEF to
  <2> QED
    BY <2>1, <2>2, <2>3, MovedInv
<1>8. CASE SubscribeStream(s)
  BY <1>8, SubscribeStreamInv
<1>9. CASE Forward(s)
  BY <1>9, ForwardInv
<1>10. CASE Recheck(s)
  <2> DEFINE to == IF ended THEN "leaving" ELSE "loop"
  <2>1. Go(s, "recheck", to) /\ status' \in [Subs -> BOOLEAN] /\ UNCHANGED <<bvars, evars, written>>
    BY <1>4, <1>10 DEF Recheck
  <2>2. to \in Stages /\ to \notin {"idle", "list", "connected", "subscribe"} /\ to \notin Over
    BY DEF Stages, Over
  <2> HIDE DEF to
  <2> QED
    BY <2>1, <2>2, MovedInv
<1>11. CASE Evicted(s)
  <2>1. Go(s, "loop", "leaving") /\ status' \in [Subs -> BOOLEAN] /\ UNCHANGED <<bvars, evars, written>>
    BY <1>3, <1>11 DEF Evicted
  <2>2. "leaving" \in Stages /\ "leaving" \notin Over
    BY DEF Stages, Over
  <2> QED
    BY <2>1, <2>2, MovedInv
<1>12. CASE Leave(s)
  BY <1>12, LeaveInv
<1>13. CASE Disconnect(s)
  <2> DEFINE to == IF stage[s] \in {"loop", "recheck"} THEN "leaving" ELSE "gone"
  <2>1. /\ Go(s, stage[s], to) /\ status' \in [Subs -> BOOLEAN]
        /\ UNCHANGED <<bvars, evars, written>>
        /\ stage[s] \in {"list", "connected", "subscribe", "loop", "recheck"}
    BY <1>3, <1>13 DEF Disconnect
  <2>2. to \in Stages /\ to \notin {"idle", "list", "connected", "subscribe"}
    BY DEF Stages
  <2>3. to \in Over => s \notin subscribers
    BY <1>2, <2>1 DEF Over
  <2> HIDE DEF to
  <2> QED
    BY <2>1, <2>2, <2>3, MovedInv
<1> QED
  BY <1>5, <1>6, <1>7, <1>8, <1>9, <1>10, <1>11, <1>12, <1>13 DEF Serve

LEMMA NextIInv == IInv /\ [Next]_vars => IInv'
<1> SUFFICES ASSUME IInv, [Next]_vars PROVE IInv'
  OBVIOUS
<1>1. CASE Deploying
  BY <1>1, DeployingInv
<1>2. CASE \E s \in Subs : Serve(s) \/ Disconnect(s)
  BY <1>2, ServeInv
<1>3. CASE UNCHANGED vars
  <2>1. BInv'
    BY <1>3, BNextInv DEF IInv, vars
  <2>2. UNCHANGED bvars /\ UNCHANGED evars /\ UNCHANGED hvars
    BY <1>3 DEF vars
  <2>3. TypeOK' /\ Behind'
    BY <2>1, <2>2 DEF IInv, TypeOK, Behind, BInv, bvars, evars, hvars
  <2>4. ASSUME NEW s \in Subs PROVE Streamed(s)' /\ Joined(s)'
    BY <2>2 DEF IInv, Streamed, Joined, Listed, bvars, hvars
  <2> QED
    BY <2>1, <2>3, <2>4 DEF IInv
<1> QED
  BY <1>1, <1>2, <1>3 DEF Next

\* What a stream has written goes down nowhere and has at most one joint.
LEMMA IInvOrdered == IInv => StreamNeverGoesBack
<1> SUFFICES ASSUME IInv, NEW s \in Subs
             PROVE  LET w == written[s]
                        Joints == {i \in 1 .. Len(w) - 1 : w[i + 1] # w[i] + 1}
                    IN  /\ \A i, j \in Joints : i = j
                        /\ \A i \in Joints : w[i] <= w[i + 1]
  BY DEF StreamNeverGoesBack
<1> DEFINE w == written[s]
           n == Len(w)
           l == Listed(s)
           a == since[s]
<1>1. n \in Nat /\ l \in Int /\ a \in Nat
  BY DEF IInv, BInv, BTypeOK, TypeOK, Listed
<1>2. /\ l >= 0
      /\ chan[s] # "none" => l <= a + 1
      /\ \A i \in 1 .. n : w[i] = IF i <= l THEN i ELSE a + (i - l)
  BY DEF IInv, Joined
<1>3. l <= a + 1 \/ l = n
  <2>1. CASE chan[s] = "none"
    <3>1. received[s] = <<>>
      BY <2>1 DEF IInv, BInv, Unmade
    <3>2. Len(received[s]) = 0
      BY <3>1
    <3> QED
      BY <1>1, <3>2 DEF Listed
  <2> QED
    BY <1>2, <2>1
<1> HIDE DEF n, l, a, w
<1>4. ASSUME NEW i \in 1 .. n - 1, w[i + 1] # w[i] + 1
      PROVE  i = l /\ w[i] <= w[i + 1]
  <2>1. i \in 1 .. n /\ i + 1 \in 1 .. n
    BY <1>1
  <2>2. CASE i + 1 <= l
    BY <1>1, <1>2, <1>4, <2>1, <2>2
  <2>3. CASE i > l
    BY <1>1, <1>2, <1>4, <2>1, <2>3
  <2>4. CASE i = l
    <3>1. w[i] = l /\ w[i + 1] = a + 1
      BY <1>1, <1>2, <2>1, <2>4
    <3> QED
      BY <1>1, <1>3, <2>1, <2>4, <3>1
  <2> QED
    BY <1>1, <2>2, <2>3, <2>4
<1>5. \A i \in 1 .. n - 1 : w[i + 1] # w[i] + 1 => i = l /\ w[i] <= w[i + 1]
  BY <1>4
<1> QED
  BY <1>5 DEF n, w

-----------------------------------------------------------------------------
(***************************************************************************)
(* The theorems.                                                           *)
(***************************************************************************)

\* IInv holds in every state a deploy and its streams reach.
THEOREM StreamsInductive == Spec => []IInv
<1>1. Init => IInv
  BY InitIInv
<1>2. IInv /\ [Next]_vars => IInv'
  BY NextIInv
<1> QED
  BY <1>1, <1>2, PTL DEF Spec

\* Every variable keeps its type; in particular only stored events are published.
THEOREM StreamsTyped == Spec => []TypeOK
<1>1. IInv => TypeOK
  BY DEF IInv
<1> QED
  BY <1>1, StreamsInductive, PTL

\* Whatever streams come, lag and go, no subscription skips an event
\* (event_broadcaster.go, Publish).
THEOREM SubscriptionsHaveNoGaps == Spec => []NoGaps
<1>1. IInv => NoGaps
  BY BInvNoGaps DEF IInv
<1> QED
  BY <1>1, StreamsInductive, PTL

\* Evictions and disconnects never close a channel twice, and the map holds
\* exactly the open ones (event_broadcaster.go).
THEOREM ChannelsClosedOnce == Spec => []ClosedOnce
<1>1. IInv => ClosedOnce
  BY DEF IInv, BInv
<1> QED
  BY <1>1, StreamsInductive, PTL

\* Whatever is stored and published while a stream changes from the one to the
\* other, what it writes is in order with at most one joint (handlers/deploy.go,
\* StreamEvents).
THEOREM StreamsKeepOrder == Spec => []StreamNeverGoesBack
<1>1. IInv => StreamNeverGoesBack
  BY IInvOrdered
<1> QED
  BY <1>1, StreamsInductive, PTL

\* A stream that is over, for whatever reason, has unsubscribed
\* (handlers/deploy.go, StreamEvents).
THEOREM OverMeansUnsubscribed == Spec => []NoSubscriberLeaks
<1>1. IInv => NoSubscriberLeaks
  BY DEF IInv, Streamed, NoSubscriberLeaks
<1> QED
  BY <1>1, StreamsInductive, PTL

-----------------------------------------------------------------------------
(***************************************************************************)
(* How far a running Publish has still to go.                              *)
(***************************************************************************)
\* One send for each target, and the second look into the map.
SendsLeft == IF Publishing THEN Cardinality(targets) + 1 ELSE 0

PublishStep == (\E s \in Subs : SendEvent(s)) \/ EvictSlow

SendsCounted ==
  /\ PublishStep => SendsLeft' < SendsLeft
  /\ Publishing /\ ~PublishStep => SendsLeft' = SendsLeft

LEMMA SendCounted ==
  ASSUME IsFiniteSet(Subs), TypeOK, NEW s \in Subs, SendEvent(s)
  PROVE  SendsLeft' < SendsLeft
<1>1. /\ IsFiniteSet(targets) /\ Cardinality(targets) \in Nat
      /\ s \in targets /\ targets' = targets \ {s}
  BY FS_Subset, FS_CardinalityType DEF TypeOK, BTypeOK, SendEvent, Send
<1>2. Cardinality(targets') = Cardinality(targets) - 1
  BY <1>1, FS_RemoveElement
<1> QED BY <1>1, <1>2 DEF SendsLeft, Publishing

LEMMA EvictCounted ==
  ASSUME EvictSlow
  PROVE  SendsLeft' < SendsLeft
<1>1. targets = {} /\ slow # {} /\ targets' = {} /\ slow' = {}
  BY DEF EvictSlow, Evict
<1> QED BY <1>1, FS_EmptySet DEF SendsLeft, Publishing

\* A Publish returns after at most one step for each subscriber it found and one more: each takes it
\* nearer to its return, and no stream that comes, goes, reads or does not read in the meantime adds
\* to its work (event_broadcaster.go, Publish: it sends to a copy of the map, without waiting).
THEOREM PublishNearsItsReturn ==
  ASSUME IsFiniteSet(Subs)
  PROVE  Spec => [][SendsCounted]_vars
<1>1. IInv /\ [Next]_vars => SendsCounted
  <2> SUFFICES ASSUME IInv, [Next]_vars PROVE SendsCounted
    OBVIOUS
  <2>1. TypeOK
    BY DEF IInv
  <2>2. PublishStep => SendsLeft' < SendsLeft
    BY <2>1, SendCounted, EvictCounted DEF PublishStep
  <2>3. ASSUME Publishing, ~PublishStep PROVE UNCHANGED <<targets, slow>>
    <3>1. CASE Deploying
      BY <2>3, <3>1 DEF Deploying, PublishStep, StoreEvent, PublishEvent, Publish, EndDeploy,
                        Between, bvars
    <3>2. ASSUME NEW s \in Subs, Serve(s) \/ Disconnect(s) PROVE UNCHANGED <<targets, slow>>
      BY <3>2 DEF Serve, Disconnect, ReadStatus, ListStored, Connected, SubscribeStream, Subscribe,
                  Forward, Receive, Recheck, Evicted, Leave, Unsubscribe, bvars
    <3>3. CASE UNCHANGED vars
      BY <3>3 DEF vars, bvars
    <3> QED BY <3>1, <3>2, <3>3 DEF Next
  <2> QED BY <2>2, <2>3 DEF SendsCounted, SendsLeft, Publishing
<1> QED BY <1>1, StreamsInductive, PTL DEF Spec

=============================================================================
