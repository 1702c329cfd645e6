------------------------------- MODULE Pubsub -------------------------------
(***************************************************************************)
(* Publish and subscribe (crates/pubsub-provider, crates/pubsub): topics   *)
(* and subscriptions, the acceptance of a publication against a snapshot   *)
(* of its topic's subscriptions, the chunks of that snapshot turned into   *)
(* delivery records, and the workers that claim records, send them and     *)
(* settle the outcome under leases that expire.                            *)
(*                                                                         *)
(* A native attempt is one step.  Times are kept relative to the reference *)
(* clock, which is always 0: Tick moves every stored time into the past.   *)
(***************************************************************************)
EXTENDS Integers, FiniteSets

CONSTANTS
    Topics,           \* topic arns
    Endpoints,        \* subscribed endpoints
    QueueEndpoints,   \* those of protocol sqs; the others must confirm
    Arns,             \* subscription arns, in their order
    Messages,         \* message ids of publications
    ConfirmationIds,  \* message ids of confirmations
    Workers,          \* PubsubDeliveryWorkers
    Owner,            \* PubsubDeliveryConfig::worker_id of each
    ChunkSize,        \* PUBSUB_SNAPSHOT_CHUNK_SIZE
    ClaimLimit,       \* publications or records claimed at a time
    IntentLease,      \* PUBLISH_INTENT_LEASE_MILLIS
    DeliveryLease,    \* PubsubDeliveryConfig::lease_duration
    MaxAttempts, RetryBase,
    Skew,             \* how far a node's clock is from the reference clock
    MaxLate,          \* how old a captured clock reading may be when it is used
    MaxIncarnation, MaxFaults  \* bounds: topics created, lost turns and leases

(* DeliveryRecord without a lease owner: claim refuses an empty worker id. *)
NoOwner == "none"

ASSUME PubsubAssumption ==
    /\ QueueEndpoints \subseteq Endpoints
    /\ Arns \subseteq Nat /\ IsFiniteSet(Arns)
    /\ Messages \subseteq Nat /\ ConfirmationIds \subseteq Nat
    /\ Messages \cap ConfirmationIds = {}
    /\ ChunkSize \in Nat \ {0} /\ ClaimLimit \in Nat \ {0}
    /\ IntentLease \in Nat \ {0} /\ DeliveryLease \in Nat \ {0}
    /\ \A w \in Workers : Owner[w] # NoOwner
    /\ MaxAttempts \in Nat /\ RetryBase \in Nat
    /\ Skew \in Nat /\ MaxLate \in Nat /\ Skew <= MaxLate
    /\ MaxIncarnation \in Nat /\ MaxFaults \in Nat

VARIABLES
    topics,         \* the incarnation of each topic
    subscriptions,  \* the SubscriptionRecords
    publishing,     \* the publish request of each message
    intents,        \* the PublishIntents, each with its snapshot chunks
    deliveries,     \* the DeliveryRecords
    turns,          \* each worker's place in process_due_deliveries
    chunks,         \* the intents a worker claimed and has not committed
    claims,         \* the records a worker claimed and has not settled
    received,       \* history variable: notifications an endpoint accepted
    issued,         \* incarnations, arns and confirmation ids drawn so far
    faults          \* turns and leases lost so far

vars == <<topics, subscriptions, publishing, intents, deliveries, turns, chunks,
          claims, received, issued, faults>>

NoTopic == 0
NoSubscription == [incarnation |-> 0]
NoIntent == [next_chunk |-> -1]
NoRecord == [status |-> "none"]

(* No time: before every time, as the due indexes sort it. *)
NoTime == - MaxLate - 1

DeliveryIds == Arns \X (Messages \cup ConfirmationIds)
Confirmation(id) == id[2] \in ConfirmationIds

Subscription ==
    [topic : Topics, incarnation : Nat \ {0}, endpoint : Endpoints, pending : BOOLEAN]

(* SubscriptionSnapshot: the subscriptions, and which of them are pending. *)
Snapshots == [Arns -> {"absent", "pending", "confirmed"}]
NoSnapshot == [a \in Arns |-> "absent"]
Members(snapshot) == {a \in Arns : snapshot[a] # "absent"}
Confirmed(snapshot) == {a \in Arns : snapshot[a] = "confirmed"}

PublishIntent == [next_chunk : Nat, snapshot : Snapshots, lease : Int]

Terminal == {"delivered", "failed"}
DeliveryStatus == {"pending", "retry"} \cup Terminal

DeliveryRecord ==
    [status : DeliveryStatus, attempts : Nat, generation : Nat, next_attempt : Int,
     owner : {Owner[w] : w \in Workers} \cup {NoOwner}, lease : Int]

(* A claimed record on its way: claimed, being sent, or with an outcome. *)
Claim ==
    [state : {"claimed", "sending", "outcome"}, generation : Nat, attempts : Nat,
     observed : Int, status : DeliveryStatus, next_attempt : Int]
NoClaim == [state |-> "none"]

Phase == {"idle", "chunks", "commit", "claim", "deliver"}
IdleTurn == [phase |-> "idle", at |-> 0]
NoChunks == [m \in Messages |-> NoIntent]
NoClaims == [id \in DeliveryIds |-> NoClaim]

(* A publish request, with the history of who was (may) and who stayed (must)  *)
(* subscribed and confirmed while it ran.                                   *)
PublishPhase == {"idle", "captured", "read", "accepted", "refused"}
PublishCall ==
    [phase : PublishPhase, topic : Topics \cup {NoTopic}, incarnation : Nat,
     snapshot : Snapshots, must : SUBSET Arns, may : SUBSET Arns]

TypeOK ==
    /\ topics \in [Topics -> Nat]
    /\ subscriptions \in [Arns -> Subscription \cup {NoSubscription}]
    /\ publishing \in [Messages -> PublishCall]
    /\ intents \in [Messages -> PublishIntent \cup {NoIntent}]
    /\ deliveries \in [DeliveryIds -> DeliveryRecord \cup {NoRecord}]
    /\ turns \in [Workers -> [phase : Phase, at : Int]]
    /\ chunks \in [Workers -> [Messages -> PublishIntent \cup {NoIntent}]]
    /\ claims \in [Workers -> [DeliveryIds -> Claim \cup {NoClaim}]]
    /\ received \subseteq DeliveryIds
    /\ issued \in [incarnation : Nat, arns : SUBSET Arns, ids : SUBSET ConfirmationIds]
    /\ faults \in Nat

Init ==
    /\ topics = [t \in Topics |-> NoTopic]
    /\ subscriptions = [a \in Arns |-> NoSubscription]
    /\ publishing = [m \in Messages |->
          [phase |-> "idle", topic |-> NoTopic, incarnation |-> 0,
           snapshot |-> NoSnapshot, must |-> {}, may |-> {}]]
    /\ intents = [m \in Messages |-> NoIntent]
    /\ deliveries = [id \in DeliveryIds |-> NoRecord]
    /\ turns = [w \in Workers |-> IdleTurn]
    /\ chunks = [w \in Workers |-> NoChunks]
    /\ claims = [w \in Workers |-> NoClaims]
    /\ received = {}
    /\ issued = [incarnation |-> 0, arns |-> {}, ids |-> {}]
    /\ faults = 0

-----------------------------------------------------------------------------
(* Topics and subscriptions                                                *)

(* Mutation: subscriptions are looked up by topic arn. *)
ActiveByArn(t, ts, subs) == {a \in Arns : subs[a] # NoSubscription /\ subs[a].topic = t}

(* The subscriptions bound to the topic's present incarnation. *)
Active(t, ts, subs) ==
    {a \in Arns : /\ subs[a] # NoSubscription
                  /\ subs[a].topic = t /\ subs[a].incarnation = ts[t]}

(* History: who was, and who stayed, subscribed during a publish request. *)
Entitled(t, ts, subs) ==
    {a \in Arns : /\ subs[a] # NoSubscription /\ ~ subs[a].pending
                  /\ subs[a].topic = t /\ subs[a].incarnation = ts[t]}

Watched(p, ts, subs) ==
    IF p.phase \in {"captured", "read"}
    THEN [p EXCEPT !.must = @ \cap Entitled(p.topic, ts, subs),
                   !.may = @ \cup Entitled(p.topic, ts, subs)]
    ELSE p

Watch == publishing' = [m \in Messages |-> Watched(publishing[m], topics', subscriptions')]

NewRecord ==
    [status |-> "pending", attempts |-> 0, generation |-> 0, next_attempt |-> NoTime,
     owner |-> NoOwner, lease |-> NoTime]

(* A topic that exists is returned as it is. *)
CreateTopic(t) ==
    /\ topics[t] = NoTopic /\ issued.incarnation < MaxIncarnation
    /\ topics' = [topics EXCEPT ![t] = issued.incarnation + 1]
    /\ issued' = [issued EXCEPT !.incarnation = @ + 1]
    /\ UNCHANGED <<subscriptions, intents, deliveries, turns, chunks, claims, received, faults>>
    /\ Watch

DeleteTopic(t) ==
    /\ topics[t] # NoTopic
    /\ topics' = [topics EXCEPT ![t] = NoTopic]
    /\ UNCHANGED <<subscriptions, intents, deliveries, turns, chunks, claims, received, issued, faults>>
    /\ Watch

(* PreparedSubscription: the topic's subscription of this endpoint, or a new  *)
(* one; either is sent a confirmation while it is pending.                  *)
Subscribe(t, e) ==
    LET existing == {a \in Active(t, topics, subscriptions) : subscriptions[a].endpoint = e}
        Confirming(a, pending) ==
            IF pending
            THEN \E i \in ConfirmationIds \ issued.ids :
                    /\ deliveries' = [deliveries EXCEPT ![<<a, i>>] = NewRecord]
                    /\ issued' = [issued EXCEPT !.ids = @ \cup {i}, !.arns = @ \cup {a}]
            ELSE /\ UNCHANGED deliveries
                 /\ issued' = [issued EXCEPT !.arns = @ \cup {a}]
    IN
    /\ topics[t] # NoTopic
    /\ \/ \E a \in existing :
             /\ UNCHANGED subscriptions
             /\ Confirming(a, subscriptions[a].pending)
       \/ /\ existing = {}
          /\ \E a \in Arns \ issued.arns :
                /\ subscriptions' = [subscriptions EXCEPT
                      ![a] = [topic |-> t, incarnation |-> topics[t], endpoint |-> e,
                              pending |-> e \notin QueueEndpoints]]
                /\ Confirming(a, e \notin QueueEndpoints)
    /\ UNCHANGED <<topics, intents, turns, chunks, claims, received, faults>>
    /\ Watch

(* The token of a pending subscription of the topic's present incarnation. *)
ConfirmSubscription(t, a) ==
    /\ topics[t] # NoTopic /\ a \in Active(t, topics, subscriptions)
    /\ subscriptions[a].pending
    /\ subscriptions' = [subscriptions EXCEPT ![a].pending = FALSE]
    /\ UNCHANGED <<topics, intents, deliveries, turns, chunks, claims, received, issued, faults>>
    /\ Watch

Unsubscribe(a) ==
    /\ subscriptions[a] # NoSubscription
    /\ subscriptions' = [subscriptions EXCEPT ![a] = NoSubscription]
    /\ UNCHANGED <<topics, intents, deliveries, turns, chunks, claims, received, issued, faults>>
    /\ Watch

-----------------------------------------------------------------------------
(* Publish: accept_publish_on_port                                         *)

(* PublishAcceptanceInput::capture: the message id and generation are fresh. *)
CapturePublish(m, t) ==
    /\ publishing[m].phase = "idle"
    /\ publishing' = [publishing EXCEPT ![m] =
          [@ EXCEPT !.phase = "captured", !.topic = t,
                    !.must = Entitled(t, topics, subscriptions),
                    !.may = Entitled(t, topics, subscriptions)]]
    /\ UNCHANGED <<topics, subscriptions, intents, deliveries, turns, chunks, claims, received, issued, faults>>

(* prepare_publish_in_attempt up to its writes.  The subscription pages are    *)
(* snapshot reads: what commits after them does not conflict.               *)
ReadAudience(m) ==
    LET p == publishing[m]
        active == Active(p.topic, topics, subscriptions)
    IN
    /\ p.phase = "captured"
    /\ publishing' = [publishing EXCEPT ![m] =
          IF topics[p.topic] = NoTopic
          THEN [@ EXCEPT !.phase = "refused"]
          ELSE [@ EXCEPT !.phase = "read", !.incarnation = topics[p.topic],
                         !.snapshot = [a \in Arns |->
                            IF a \notin active THEN "absent"
                            ELSE IF subscriptions[a].pending THEN "pending" ELSE "confirmed"]]]
    /\ UNCHANGED <<topics, subscriptions, intents, deliveries, turns, chunks, claims, received, issued, faults>>

(* The topic row is read with conflict protection. *)
TopicUnchanged(p) == topics[p.topic] = p.incarnation

(* The attempt commits: write_publication. *)
AcceptPublish(m) ==
    LET p == publishing[m] IN
    /\ p.phase = "read" /\ TopicUnchanged(p)
    /\ publishing' = [publishing EXCEPT ![m].phase = "accepted"]
    /\ intents' = [intents EXCEPT
          ![m] = [next_chunk |-> 0, snapshot |-> p.snapshot, lease |-> NoTime]]
    /\ UNCHANGED <<topics, subscriptions, deliveries, turns, chunks, claims, received, issued, faults>>

(* The attempt loses a conflict and is made again from what was captured, or  *)
(* the attempts are used up.                                                *)
RetryPublish(m) ==
    /\ publishing[m].phase = "read"
    /\ \E phase \in {"captured", "refused"} :
          publishing' = [publishing EXCEPT ![m] = [@ EXCEPT !.phase = phase, !.snapshot = NoSnapshot]]
    /\ UNCHANGED <<topics, subscriptions, intents, deliveries, turns, chunks, claims, received, issued, faults>>

-----------------------------------------------------------------------------
(* Materialization: claim_publish_chunks, commit_publish_chunk             *)

ClockReadings == (- Skew) .. Skew

(* SubscriptionSnapshot::with_generation: chunks in the order of the arns. *)
Rank(snapshot, a) == Cardinality({b \in Members(snapshot) : b < a})
ChunkOf(snapshot, a) == Rank(snapshot, a) \div ChunkSize
ChunkCount(snapshot) == (Cardinality(Members(snapshot)) + ChunkSize - 1) \div ChunkSize

(* Mutation: pending subscriptions are not left out. *)
WholeChunk(i) == {a \in Members(i.snapshot) : ChunkOf(i.snapshot, a) = i.next_chunk}

(* PublishIntent::delivery_records of the intent's next chunk. *)
ChunkAudience(i) == {a \in Confirmed(i.snapshot) : ChunkOf(i.snapshot, a) = i.next_chunk}

(* PublishIntent::next_chunk *)
NextChunk(i) ==
    IF i.next_chunk + 1 >= ChunkCount(i.snapshot) THEN NoIntent
    ELSE [i EXCEPT !.next_chunk = @ + 1, !.lease = NoTime]

(* What publishers and subscribers have to do with, and the workers do not. *)
requests == <<topics, subscriptions, publishing, issued>>

Turn(phase, at) == [phase |-> phase, at |-> at]

StartTurn(w) ==
    /\ turns[w].phase = "idle"
    /\ \E at \in ClockReadings : turns' = [turns EXCEPT ![w] = Turn("chunks", at)]
    /\ UNCHANGED <<requests, intents, deliveries, chunks, claims, received, faults>>

(* A page of the due keys, the first in the order of the index: ClaimLimit of  *)
(* them, or all.                                                           *)
IsDuePage(page, due) ==
    /\ page \subseteq due
    /\ \/ Cardinality(page) = ClaimLimit
       \/ page = due /\ Cardinality(page) < ClaimLimit

DueIntents(at) == {m \in Messages : intents[m] # NoIntent /\ intents[m].lease <= at}

IntentBefore(m, n) ==
    intents[m].lease < intents[n].lease \/ (intents[m].lease = intents[n].lease /\ m < n)

ClaimChunks(w) ==
    LET at == turns[w].at
        Claimed(m) == [intents[m] EXCEPT !.lease = at + IntentLease]
    IN
    /\ turns[w].phase = "chunks"
    /\ \E page \in SUBSET Messages :
          /\ IsDuePage(page, DueIntents(at))
          /\ \A m \in page, n \in DueIntents(at) \ page : IntentBefore(m, n)
          /\ intents' = [m \in Messages |-> IF m \in page THEN Claimed(m) ELSE intents[m]]
          /\ chunks' = [chunks EXCEPT ![w] =
                [m \in Messages |-> IF m \in page THEN Claimed(m) ELSE NoIntent]]
    /\ turns' = [turns EXCEPT ![w] = Turn("commit", 0)]
    /\ UNCHANGED <<requests, deliveries, claims, received, faults>>

(* commit_publish_chunk reads back the very intent it claimed. *)
StillClaimed(m, claimed) == intents[m] = claimed

(* The records and the continuation are written together.  A claim that was   *)
(* lost, or a record that exists, ends the turn: chunks that are left keep    *)
(* their lease.                                                             *)
CommitChunk(w, m) ==
    LET claimed == chunks[w][m]
        ids == {<<a, m>> : a \in ChunkAudience(claimed)}
    IN
    /\ turns[w].phase = "commit" /\ claimed # NoIntent
    /\ IF StillClaimed(m, claimed) /\ \A id \in ids : deliveries[id] = NoRecord
       THEN /\ deliveries' = [id \in DeliveryIds |-> IF id \in ids THEN NewRecord ELSE deliveries[id]]
            /\ intents' = [intents EXCEPT ![m] = NextChunk(claimed)]
            /\ chunks' = [chunks EXCEPT ![w][m] = NoIntent]
            /\ UNCHANGED turns
       ELSE /\ chunks' = [chunks EXCEPT ![w] = NoChunks]
            /\ turns' = [turns EXCEPT ![w] = IdleTurn]
            /\ UNCHANGED <<deliveries, intents>>
    /\ UNCHANGED <<requests, claims, received, faults>>

-----------------------------------------------------------------------------
(* Delivery: claim_delivery_records, deliver_claimed_record, the settlement *)

StartClaims(w) ==
    /\ turns[w].phase = "commit" /\ chunks[w] = NoChunks
    /\ \E at \in ClockReadings : turns' = [turns EXCEPT ![w] = Turn("claim", at)]
    /\ UNCHANGED <<requests, intents, deliveries, chunks, claims, received, faults>>

(* Mutation: a record that was ever claimed waits for its settlement. *)
ClaimableUnleased(d, at) ==
    d.status \in {"pending", "retry"} /\ d.next_attempt <= at /\ d.lease = NoTime

(* DeliveryRecord::is_claimable *)
IsClaimable(d, at) ==
    d.status \in {"pending", "retry"} /\ d.next_attempt <= at /\ d.lease <= at

DueDeliveries(at) == {id \in DeliveryIds : deliveries[id] # NoRecord /\ IsClaimable(deliveries[id], at)}

(* DeliveryRecord::due_at, and the order of the due index *)
DueAt(d) == IF d.next_attempt < d.lease THEN d.lease ELSE d.next_attempt

DeliveryBefore(x, y) ==
    LET dx == DueAt(deliveries[x])
        dy == DueAt(deliveries[y])
    IN
    \/ dx < dy
    \/ dx = dy /\ x[1] < y[1]
    \/ dx = dy /\ x[1] = y[1] /\ x[2] < y[2]

(* DeliveryRecord::claim *)
ClaimedRecord(d, w, at) ==
    [d EXCEPT !.generation = @ + 1, !.owner = Owner[w], !.lease = at + DeliveryLease]

(* A notification holds its subscription; a confirmation looks it up. *)
NewClaim(id, d, at) ==
    [state |-> IF Confirmation(id) THEN "claimed" ELSE "sending", generation |-> d.generation,
     attempts |-> d.attempts, observed |-> at, status |-> d.status, next_attempt |-> NoTime]

ClaimDeliveries(w) ==
    LET at == turns[w].at
        Taken(id) == ClaimedRecord(deliveries[id], w, at)
    IN
    /\ turns[w].phase = "claim"
    /\ \E page \in SUBSET DeliveryIds :
          /\ IsDuePage(page, DueDeliveries(at))
          /\ \A d \in page, e \in DueDeliveries(at) \ page : DeliveryBefore(d, e)
          /\ deliveries' = [id \in DeliveryIds |-> IF id \in page THEN Taken(id) ELSE deliveries[id]]
          /\ claims' = [claims EXCEPT ![w] =
                [id \in DeliveryIds |-> IF id \in page THEN NewClaim(id, Taken(id), at) ELSE NoClaim]]
    /\ turns' = [turns EXCEPT ![w] = Turn("deliver", 0)]
    /\ UNCHANGED <<requests, intents, chunks, received, faults>>

(* Mutation: attempts are counted down. *)
OutcomeCountsDown(claim, status, next_attempt) ==
    [claim EXCEPT !.state = "outcome", !.status = status, !.attempts = @ - 1,
                  !.next_attempt = next_attempt]

(* DeliveryClaim::update *)
Outcome(claim, status, next_attempt) ==
    [claim EXCEPT !.state = "outcome", !.status = status, !.attempts = @ + 1,
                  !.next_attempt = next_attempt]

(* get_subscription, after the claim committed and before anything is sent. *)
LookUpSubscription(w, id) ==
    LET claim == claims[w][id]
        s == subscriptions[id[1]]
        found == s # NoSubscription /\ id[1] \in Active(s.topic, topics, subscriptions)
    IN
    /\ turns[w].phase = "deliver" /\ claim.state = "claimed"
    /\ claims' = [claims EXCEPT ![w][id] =
          IF ~ found THEN Outcome(claim, "failed", NoTime)
          ELSE IF ~ s.pending THEN Outcome(claim, "delivered", NoTime)
          ELSE [claim EXCEPT !.state = "sending"]]
    /\ UNCHANGED <<requests, intents, deliveries, turns, chunks, received, faults>>

(* retry_delay_millis: powers of two, with the exponent capped at 10. *)
Powers == <<1, 2, 4, 8, 16, 32, 64, 128, 256, 512, 1024>>
RetryDelay(attempts) == RetryBase * Powers[IF attempts > 11 THEN 11 ELSE attempts]

(* plan_retry_outcome *)
RetryOutcome(claim) ==
    IF claim.attempts + 1 >= MaxAttempts
    THEN Outcome(claim, "failed", NoTime)
    ELSE Outcome(claim, "retry", claim.observed + RetryDelay(claim.attempts + 1))

(* Mutation: a request that timed out is taken as delivered. *)
SendTimeoutDelivers(w, id) ==
    LET claim == claims[w][id] IN
    /\ turns[w].phase = "deliver" /\ claim.state = "sending"
    /\ \/ /\ claims' = [claims EXCEPT ![w][id] = Outcome(claim, "delivered", NoTime)]
          /\ received' \in {received, received \cup {id}}
       \/ /\ claims' = [claims EXCEPT ![w][id] = Outcome(claim, "failed", NoTime)]
          /\ UNCHANGED received
    /\ UNCHANGED <<requests, intents, deliveries, turns, chunks, faults>>

(* The endpoint, the queue or the custom sender takes the message, refuses it  *)
(* for good, or answers with an error or not in time; it may have taken the  *)
(* message all the same.                                                    *)
SendDelivery(w, id) ==
    LET claim == claims[w][id] IN
    /\ turns[w].phase = "deliver" /\ claim.state = "sending"
    /\ \/ /\ claims' = [claims EXCEPT ![w][id] = Outcome(claim, "delivered", NoTime)]
          /\ received' = received \cup {id}
       \/ /\ claims' = [claims EXCEPT ![w][id] = Outcome(claim, "failed", NoTime)]
          /\ UNCHANGED received
       \/ /\ claims' = [claims EXCEPT ![w][id] = RetryOutcome(claim)]
          /\ received' \in {received, received \cup {id}}
    /\ UNCHANGED <<requests, intents, deliveries, turns, chunks, faults>>

(* Mutation: the claim is known by its owner alone. *)
OwnedBy(d, claim, w) == d.owner = Owner[w]

(* DeliveryRecord::settle: the claim's generation and owner are the record's. *)
Settles(d, claim, w) == d.generation = claim.generation /\ d.owner = Owner[w]

(* update_delivery_record *)
SettleDelivery(w, id) ==
    LET claim == claims[w][id] IN
    /\ turns[w].phase = "deliver" /\ claim.state = "outcome"
    /\ deliveries' = IF Settles(deliveries[id], claim, w)
                     THEN [deliveries EXCEPT ![id] =
                             [@ EXCEPT !.status = claim.status, !.attempts = claim.attempts,
                                       !.next_attempt = claim.next_attempt,
                                       !.owner = NoOwner, !.lease = NoTime]]
                     ELSE deliveries
    /\ claims' = [claims EXCEPT ![w][id] = NoClaim]
    /\ UNCHANGED <<requests, intents, turns, chunks, received, faults>>

EndTurn(w) ==
    /\ turns[w].phase = "deliver" /\ claims[w] = NoClaims
    /\ turns' = [turns EXCEPT ![w] = IdleTurn]
    /\ UNCHANGED <<requests, intents, deliveries, chunks, claims, received, faults>>

-----------------------------------------------------------------------------
(* Faults, and the clock                                                   *)

(* An attempt of the turn fails for good, or the worker's process restarts. *)
LoseTurn(w) ==
    /\ turns[w].phase # "idle" /\ faults < MaxFaults
    /\ turns' = [turns EXCEPT ![w] = IdleTurn]
    /\ chunks' = [chunks EXCEPT ![w] = NoChunks]
    /\ claims' = [claims EXCEPT ![w] = NoClaims]
    /\ faults' = faults + 1
    /\ UNCHANGED <<requests, intents, deliveries, received>>

(* One delivery ends without an outcome (deliver_claimed_record fails), or its *)
(* outcome is not saved; the others of the turn go on.                      *)
LoseClaim(w, id) ==
    /\ turns[w].phase = "deliver" /\ claims[w][id] # NoClaim /\ faults < MaxFaults
    /\ claims' = [claims EXCEPT ![w][id] = NoClaim]
    /\ faults' = faults + 1
    /\ UNCHANGED <<requests, intents, deliveries, turns, chunks, received>>

(* A stored time, one unit later.  Times older than every clock reading in use *)
(* are not told apart.                                                      *)
Aged(t) == IF t <= - MaxLate THEN t ELSE t - 1
AgedIntent(i) == IF i = NoIntent THEN i ELSE [i EXCEPT !.lease = Aged(@)]
AgedRecord(d) ==
    IF d = NoRecord THEN d ELSE [d EXCEPT !.next_attempt = Aged(@), !.lease = Aged(@)]
AgedClaim(c) ==
    IF c = NoClaim THEN c ELSE [c EXCEPT !.observed = Aged(@), !.next_attempt = Aged(@)]

(* With this tick the fastest clock is past a lease that is still held. *)
RunsOut(lease) == lease = Skew + 1
SomeLeaseRunsOut ==
    \E w \in Workers :
        \/ \E m \in Messages : chunks[w][m] # NoIntent /\ RunsOut(chunks[w][m].lease)
        \/ \E id \in DeliveryIds : /\ claims[w][id] # NoClaim
                                   /\ Settles(deliveries[id], claims[w][id], w)
                                   /\ RunsOut(deliveries[id].lease)

(* A clock reading a worker has taken and not yet used. *)
Reading(w) == turns[w].phase \in {"chunks", "claim"}

Tick ==
    /\ \A w \in Workers : Reading(w) => turns[w].at > - MaxLate
    /\ IF SomeLeaseRunsOut
       THEN faults < MaxFaults /\ faults' = faults + 1
       ELSE UNCHANGED faults
    /\ intents' = [m \in Messages |-> AgedIntent(intents[m])]
    /\ deliveries' = [id \in DeliveryIds |-> AgedRecord(deliveries[id])]
    /\ turns' = [w \in Workers |-> IF Reading(w) THEN [turns[w] EXCEPT !.at = @ - 1] ELSE turns[w]]
    /\ chunks' = [w \in Workers |-> [m \in Messages |-> AgedIntent(chunks[w][m])]]
    /\ claims' = [w \in Workers |-> [id \in DeliveryIds |-> AgedClaim(claims[w][id])]]
    /\ UNCHANGED <<requests, received>>

-----------------------------------------------------------------------------
Catalog ==
    \/ \E t \in Topics : CreateTopic(t) \/ DeleteTopic(t)
    \/ \E t \in Topics, e \in Endpoints : Subscribe(t, e)
    \/ \E t \in Topics, a \in Arns : ConfirmSubscription(t, a)
    \/ \E a \in Arns : Unsubscribe(a)

Publish(m) ==
    \/ \E t \in Topics : CapturePublish(m, t)
    \/ ReadAudience(m) \/ AcceptPublish(m) \/ RetryPublish(m)

Work(w) ==
    \/ StartTurn(w) \/ ClaimChunks(w)
    \/ \E m \in Messages : CommitChunk(w, m)
    \/ StartClaims(w) \/ ClaimDeliveries(w)
    \/ \E id \in DeliveryIds :
          LookUpSubscription(w, id) \/ SendDelivery(w, id) \/ SettleDelivery(w, id)
    \/ EndTurn(w)

Fault(w) == LoseTurn(w) \/ \E id \in DeliveryIds : LoseClaim(w, id)

Next ==
    \/ Catalog
    \/ \E m \in Messages : Publish(m)
    \/ \E w \in Workers : Work(w) \/ Fault(w)
    \/ Tick

Spec == Init /\ [][Next]_vars

(* run_worker polls again and again, what it waits for comes to an end, and    *)
(* time goes on.                                                            *)
Fairness == WF_vars(Tick) /\ \A w \in Workers : WF_vars(Work(w))

FairSpec == Spec /\ Fairness

-----------------------------------------------------------------------------
(* Properties                                                              *)

(* The audience of an accepted publication: everyone whose confirmed           *)
(* subscription lasted from the request to the acceptance, and nobody who was  *)
(* at no time during the request subscribed and confirmed.  A subscription of  *)
(* an earlier incarnation of the topic (pubsub_port.rs: "deleting and           *)
(* recreating a topic cannot make an old subscription visible under the new    *)
(* topic") is not in it, whatever commits around the snapshot read.           *)
AudienceKept ==
    \A m \in Messages :
        LET p == publishing[m]
            audience == Confirmed(p.snapshot)
        IN
        p.phase = "accepted" => p.must \subseteq audience /\ audience \subseteq p.may

(* What commit_publish_chunk has not yet turned into records is in the intent, *)
(* and the two never overlap: a member of the audience has a record once its   *)
(* chunk is behind the intent, and nobody else has one, however often chunks   *)
(* are claimed again after a lease ran out or a worker was lost.             *)
FanOutExact ==
    \A m \in Messages, a \in Arns :
        LET p == publishing[m] IN
        deliveries[<<a, m>>] # NoRecord
        <=> /\ p.phase = "accepted"
            /\ a \in Confirmed(p.snapshot)
            /\ intents[m] = NoIntent \/ ChunkOf(p.snapshot, a) < intents[m].next_chunk

(* At most one of the claims held on a record can still settle it, though all  *)
(* workers may have one worker id: a lease that ran out does not give a late   *)
(* worker a second say.                                                     *)
OneSettler ==
    \A v, w \in Workers, id \in DeliveryIds :
        /\ claims[v][id] # NoClaim /\ Settles(deliveries[id], claims[v][id], v)
        /\ claims[w][id] # NoClaim /\ Settles(deliveries[id], claims[w][id], w)
        => v = w

(* A record is never removed, a settled record is settled for good, and the    *)
(* outcome of a record changes only to the outcome of its latest claim        *)
(* (DeliveryRecord::settle: "A delayed outcome cannot rewind a newer claim").  *)
SettledForGood ==
    [][\A id \in DeliveryIds :
          deliveries[id] # NoRecord =>
             /\ deliveries'[id] # NoRecord
             /\ deliveries'[id].generation >= deliveries[id].generation
             /\ deliveries[id].status \in Terminal => deliveries'[id].status = deliveries[id].status
             /\ deliveries'[id].attempts # deliveries[id].attempts =>
                   \E w \in Workers :
                      /\ claims[w][id].state = "outcome"
                      /\ claims[w][id].generation = deliveries[id].generation
                      /\ claims[w][id].status = deliveries'[id].status]_vars

(* A notification recorded as delivered was taken by its endpoint.           *)
DeliveredReached ==
    \A id \in DeliveryIds :
        deliveries[id] # NoRecord /\ ~ Confirmation(id) /\ deliveries[id].status = "delivered"
        => id \in received

(* During a request, and in what it accepted: AudienceKept, with the audience   *)
(* of this moment between those who stayed and those who ever were in it.      *)
AudienceSound ==
    \A m \in Messages :
        LET p == publishing[m]
            present == Entitled(p.topic, topics, subscriptions)
        IN
        /\ p.phase \in {"captured", "read"} =>
              p.topic \in Topics /\ p.must \subseteq present /\ present \subseteq p.may
        /\ p.phase \in {"read", "accepted"} =>
              p.must \subseteq Confirmed(p.snapshot) /\ Confirmed(p.snapshot) \subseteq p.may

(* FanOutExact, of the snapshot that the publication was accepted with, with   *)
(* records for confirmations only under the ids drawn for them.              *)
FanOutSound ==
    /\ FanOutExact
    /\ \A m \in Messages : intents[m] # NoIntent =>
          publishing[m].phase = "accepted" /\ intents[m].snapshot = publishing[m].snapshot
    /\ \A a \in Arns, i \in ConfirmationIds : deliveries[<<a, i>>] # NoRecord => i \in issued.ids

(* Every claim is on a record and not newer than it, no two on a record are    *)
(* the same claim, and what is settled is nobody's: OneSettler and           *)
(* DeliveredReached.                                                        *)
ClaimsSound ==
    /\ \A w \in Workers, id \in DeliveryIds : claims[w][id] # NoClaim =>
          /\ deliveries[id] # NoRecord
          /\ claims[w][id].generation <= deliveries[id].generation
          /\ \A v \in Workers : claims[v][id] # NoClaim
                                /\ claims[v][id].generation = claims[w][id].generation => v = w
          /\ claims[w][id].state = "claimed" => Confirmation(id)
          /\ claims[w][id].state = "outcome" /\ claims[w][id].status = "delivered"
             => Confirmation(id) \/ id \in received
    /\ \A id \in DeliveryIds : deliveries[id] # NoRecord /\ deliveries[id].status \in Terminal
          => deliveries[id].owner = NoOwner
    /\ DeliveredReached

(* The inductive invariant of the topics, publications and workers           *)
(* (accept_publish_on_port, commit_publish_chunk, DeliveryRecord::claim and    *)
(* DeliveryRecord::settle keep it).                                         *)
PubsubInvariant == TypeOK /\ AudienceSound /\ FanOutSound /\ ClaimsSound

(* An accepted publication is materialized to the last chunk and each of its   *)
(* records is delivered or fails for good, after lost turns, leases that ran   *)
(* out and answers that came late, as long as they come to an end.           *)
PublicationsSettled ==
    \A m \in Messages :
        publishing[m].phase = "accepted"
        ~> /\ intents[m] = NoIntent
           /\ \A a \in Arns : deliveries[<<a, m>>] # NoRecord
                              => deliveries[<<a, m>>].status \in Terminal
=============================================================================
