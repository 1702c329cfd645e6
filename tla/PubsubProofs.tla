---------------------------- MODULE PubsubProofs ----------------------------
(***************************************************************************)
(* Publish and subscribe keeps PubsubInvariant, for every number of topics, *)
(* subscriptions, publications and workers, every chunk size and lease, and *)
(* every loss of turns, claims and leases.                                 *)
(***************************************************************************)
EXTENDS Pubsub, FiniteSetTheorems, TLAPS

(* The values that stand for nothing are none of the records they stand      *)
(* beside.                                                                  *)
LEMMA Absent ==
    /\ NoSubscription \notin Subscription /\ NoIntent \notin PublishIntent
    /\ NoRecord \notin DeliveryRecord /\ NoClaim \notin Claim
    /\ NoRecord.status = "none" /\ NoClaim.state = "none"
<1>1. NoSubscription.incarnation = 0 /\ NoIntent.next_chunk = -1
      /\ NoRecord.status = "none" /\ NoClaim.state = "none"
  BY Zenon DEF NoSubscription, NoIntent, NoRecord, NoClaim
<1>2. NoSubscription \notin Subscription BY Zenon, <1>1 DEF Subscription
<1>3. NoIntent \notin PublishIntent BY <1>1 DEF PublishIntent
<1>4. NoRecord \notin DeliveryRecord BY Zenon, <1>1 DEF DeliveryRecord, DeliveryStatus, Terminal
<1>5. NoClaim \notin Claim BY Zenon, <1>1 DEF Claim
<1> QED BY Zenon, <1>1, <1>2, <1>3, <1>4, <1>5

(* chunks(chunk_size) puts every member below div_ceil(len, chunk_size).      *)
LEMMA CeilAboveFloor ==
    \A r, n \in Nat, c \in Nat \ {0} : r < n => r \div c < (n + c - 1) \div c
<1> SUFFICES ASSUME NEW r \in Nat, NEW n \in Nat, NEW c \in Nat \ {0}, r < n
             PROVE  r \div c < (n + c - 1) \div c
  BY Zenon
<1>1. r \div c \in Int /\ (n + c - 1) \div c \in Int BY SMTT(20)
<1>2. c * (r \div c) <= r BY SMTT(20)
<1>3. n + c - 1 < c * ((n + c - 1) \div c) + c BY SMTT(20)
<1>4. c * (r \div c) + c < c * ((n + c - 1) \div c) + c BY <1>1, <1>2, <1>3
<1> QED BY SMTT(20), <1>1, <1>4

(* Every member of a snapshot is in one of its chunks.                       *)
LEMMA MembersInChunks ==
    ASSUME NEW s \in Snapshots, NEW a \in Members(s)
    PROVE  ChunkOf(s, a) \in Int /\ ChunkCount(s) \in Int /\ ChunkOf(s, a) < ChunkCount(s)
<1> DEFINE D == Members(s)
           L == {b \in D : b < a}
<1>1. D \subseteq Nat /\ IsFiniteSet(D) /\ a \in D
  BY Zenon, PubsubAssumption, FS_Subset DEF Members
<1>2. L \subseteq D \ {a} BY <1>1
<1>3. IsFiniteSet(D \ {a}) /\ Cardinality(D \ {a}) = Cardinality(D) - 1
  BY Zenon, <1>1, FS_RemoveElement
<1>4. /\ IsFiniteSet(L) /\ Cardinality(L) <= Cardinality(D \ {a})
      /\ Cardinality(L) \in Nat /\ Cardinality(D) \in Nat
  BY Zenon, <1>1, <1>2, <1>3, FS_Subset, FS_CardinalityType
<1>5. Cardinality(L) < Cardinality(D) BY <1>3, <1>4
<1> HIDE DEF D, L
<1>6. Cardinality(L) \div ChunkSize < (Cardinality(D) + ChunkSize - 1) \div ChunkSize
  BY Zenon, <1>4, <1>5, CeilAboveFloor, PubsubAssumption
<1>7. Cardinality(L) \div ChunkSize \in Int
      /\ (Cardinality(D) + ChunkSize - 1) \div ChunkSize \in Int
  BY <1>4, PubsubAssumption
<1> QED BY Zenon, <1>6, <1>7 DEF ChunkOf, ChunkCount, Rank, D, L

(* Nothing is known at the start.                                            *)
LEMMA InitInvariant == Init => PubsubInvariant
<1> SUFFICES ASSUME Init PROVE PubsubInvariant
  BY Zenon
<1> USE DEF Init
<1>1. TypeOK
  <2>1. IdleTurn \in [phase : Phase, at : Int] BY DEF IdleTurn, Phase
  <2>2. NoChunks \in [Messages -> PublishIntent \cup {NoIntent}] BY Zenon DEF NoChunks
  <2>3. NoClaims \in [DeliveryIds -> Claim \cup {NoClaim}] BY Zenon DEF NoClaims
  <2>4. NoSnapshot \in Snapshots BY Zenon DEF NoSnapshot, Snapshots
  <2>5. topics \in [Topics -> Nat] BY Zenon DEF NoTopic
  <2>6. publishing \in [Messages -> PublishCall] BY Zenon, <2>4 DEF PublishCall, PublishPhase
  <2> QED BY Zenon, <2>1, <2>2, <2>3, <2>5, <2>6 DEF TypeOK
<1>2. AudienceSound BY Zenon DEF AudienceSound
<1>3. FanOutSound BY Zenon DEF FanOutSound, FanOutExact, DeliveryIds
<1>4. ClaimsSound BY Zenon DEF ClaimsSound, DeliveredReached, NoClaims
<1> QED BY Zenon, <1>1, <1>2, <1>3, <1>4 DEF PubsubInvariant

(* Whatever becomes of topics and subscriptions, the history of the requests   *)
(* follows it, and nothing else of them changes.                            *)
LEMMA WatchStep ==
    ASSUME PubsubInvariant, Watch
    PROVE  /\ publishing' \in [Messages -> PublishCall]
           /\ AudienceSound'
           /\ \A m \in Messages : /\ publishing'[m].phase = publishing[m].phase
                                  /\ publishing'[m].snapshot = publishing[m].snapshot
<1> DEFINE W(m) == Watched(publishing[m], topics', subscriptions')
           E(m) == Entitled(publishing[m].topic, topics', subscriptions')
<1>t. TypeOK /\ AudienceSound BY Zenon DEF PubsubInvariant
<1>1. ASSUME NEW m \in Messages
      PROVE  /\ W(m) \in PublishCall
             /\ W(m).phase = publishing[m].phase /\ W(m).snapshot = publishing[m].snapshot
             /\ W(m).topic = publishing[m].topic
             /\ publishing[m].phase \in {"captured", "read"} =>
                   /\ W(m).must = publishing[m].must \cap E(m)
                   /\ W(m).may = publishing[m].may \cup E(m)
             /\ publishing[m].phase \notin {"captured", "read"} => W(m) = publishing[m]
  <2>1. publishing[m] \in PublishCall BY Zenon, <1>t DEF TypeOK
  <2>2. E(m) \subseteq Arns BY Zenon DEF Entitled
  <2> HIDE DEF E
  <2> QED BY Zenon, <2>1, <2>2 DEF PublishCall, Watched, E
<1>2. \A m \in Messages : publishing'[m] = W(m) BY Zenon DEF Watch
<1>3. publishing' \in [Messages -> PublishCall] BY Zenon, <1>1 DEF Watch
<1> HIDE DEF W
<1>4. AudienceSound'
  <2> SUFFICES ASSUME NEW m \in Messages
               PROVE  /\ publishing'[m].phase \in {"captured", "read"} =>
                           /\ publishing'[m].topic \in Topics
                           /\ publishing'[m].must
                              \subseteq Entitled(publishing'[m].topic, topics', subscriptions')
                           /\ Entitled(publishing'[m].topic, topics', subscriptions')
                              \subseteq publishing'[m].may
                      /\ publishing'[m].phase \in {"read", "accepted"} =>
                           /\ publishing'[m].must \subseteq Confirmed(publishing'[m].snapshot)
                           /\ Confirmed(publishing'[m].snapshot) \subseteq publishing'[m].may
    BY Zenon DEF AudienceSound, Entitled
  <2>1. publishing'[m].topic = publishing[m].topic BY Zenon, <1>1, <1>2
  <2>2. /\ publishing[m].phase \in {"captured", "read"} => publishing[m].topic \in Topics
        /\ publishing[m].phase \in {"read", "accepted"} =>
              /\ publishing[m].must \subseteq Confirmed(publishing[m].snapshot)
              /\ Confirmed(publishing[m].snapshot) \subseteq publishing[m].may
    BY Zenon, <1>t DEF AudienceSound
  <2> HIDE DEF E
  <2>3. CASE publishing[m].phase \in {"captured", "read"}
    BY ZenonT(60), <1>1, <1>2, <2>1, <2>2, <2>3 DEF E
  <2>4. CASE publishing[m].phase \notin {"captured", "read"}
    BY Zenon, <1>1, <1>2, <2>2, <2>4
  <2> QED BY Zenon, <2>3, <2>4
<1> QED BY Zenon, <1>1, <1>2, <1>3, <1>4

(* A record for a confirmation id drawn afresh disturbs no other.             *)
LEMMA CatalogRecords ==
    ASSUME PubsubInvariant, UNCHANGED <<intents, claims, received>>,
           issued.ids \subseteq issued'.ids,
           \A m \in Messages : /\ publishing'[m].phase = publishing[m].phase
                               /\ publishing'[m].snapshot = publishing[m].snapshot,
           \/ deliveries' = deliveries
           \/ \E a \in Arns, i \in ConfirmationIds \ issued.ids :
                 deliveries' = [deliveries EXCEPT ![<<a, i>>] = NewRecord] /\ i \in issued'.ids
    PROVE  /\ deliveries' \in [DeliveryIds -> DeliveryRecord \cup {NoRecord}]
           /\ FanOutSound' /\ ClaimsSound'
<1>t. TypeOK /\ FanOutSound /\ ClaimsSound BY Zenon DEF PubsubInvariant
<1>1. CASE deliveries' = deliveries
  <2>1. FanOutExact' BY ZenonT(60), <1>t, <1>1 DEF FanOutSound, FanOutExact
  <2>2. FanOutSound' BY Zenon, <1>t, <1>1, <2>1 DEF FanOutSound
  <2>3. ClaimsSound' BY <1>t, <1>1 DEF ClaimsSound, DeliveredReached
  <2> QED BY Zenon, <1>t, <1>1, <2>2, <2>3 DEF TypeOK
<1>2. ASSUME NEW a \in Arns, NEW i \in ConfirmationIds \ issued.ids,
             deliveries' = [deliveries EXCEPT ![<<a, i>>] = NewRecord], i \in issued'.ids
      PROVE  /\ deliveries' \in [DeliveryIds -> DeliveryRecord \cup {NoRecord}]
             /\ FanOutSound' /\ ClaimsSound'
  <2> DEFINE new == <<a, i>>
  <2>1. new \in DeliveryIds /\ deliveries[new] = NoRecord /\ i \notin Messages
    BY Zenon, <1>t, <1>2, PubsubAssumption DEF FanOutSound, DeliveryIds
  <2>2. NewRecord \in DeliveryRecord /\ NewRecord.status = "pending" /\ NewRecord # NoRecord
    BY Absent, PubsubAssumption
       DEF NewRecord, DeliveryRecord, DeliveryStatus, Terminal, NoTime
  <2>3. deliveries' \in [DeliveryIds -> DeliveryRecord \cup {NoRecord}]
    BY Zenon, <1>t, <1>2, <2>1, <2>2 DEF TypeOK
  <2>4. \A id \in DeliveryIds : deliveries'[id] = IF id = new THEN NewRecord ELSE deliveries[id]
    BY Zenon, <1>t, <1>2, <2>1 DEF TypeOK
  <2>5. FanOutSound'
    <3>1. \A m \in Messages, b \in Arns : deliveries'[<<b, m>>] = deliveries[<<b, m>>]
      BY Zenon, <2>1, <2>4 DEF DeliveryIds
    <3>2. FanOutExact' BY ZenonT(60), <1>t, <3>1 DEF FanOutSound, FanOutExact
    <3>3. \A b \in Arns, j \in ConfirmationIds :
             deliveries'[<<b, j>>] # NoRecord => j \in issued'.ids
      BY <1>t, <1>2, <2>4 DEF FanOutSound, DeliveryIds
    <3> QED BY Zenon, <1>t, <3>2, <3>3 DEF FanOutSound
  <2>6. ClaimsSound'
    <3>1. \A id \in DeliveryIds : id # new => deliveries'[id] = deliveries[id] BY Zenon, <2>4
    <3>2. \A w \in Workers : claims[w][new] = NoClaim BY Zenon, <1>t, <2>1 DEF ClaimsSound
    <3>3. deliveries'[new].status = "pending" BY Zenon, <2>1, <2>2, <2>4
    <3> HIDE DEF new
    <3> QED BY SMTT(60), <1>t, <3>1, <3>2, <3>3 DEF ClaimsSound, DeliveredReached, Terminal
  <2> QED BY Zenon, <2>3, <2>5, <2>6
<1> QED BY Zenon, <1>1, <1>2

(* create_topic, delete_topic, create_subscription, confirm_subscription and   *)
(* delete_subscription keep the invariant.                                  *)
LEMMA CatalogStep == PubsubInvariant /\ Catalog => PubsubInvariant'
<1> SUFFICES ASSUME PubsubInvariant, Catalog PROVE PubsubInvariant'
  BY Zenon
<1>t. TypeOK BY Zenon DEF PubsubInvariant
<1>1. ASSUME topics' \in [Topics -> Nat],
             subscriptions' \in [Arns -> Subscription \cup {NoSubscription}],
             issued' \in [incarnation : Nat, arns : SUBSET Arns, ids : SUBSET ConfirmationIds],
             UNCHANGED <<intents, turns, chunks, claims, received, faults>>, Watch,
             issued.ids \subseteq issued'.ids,
             \/ deliveries' = deliveries
             \/ \E a \in Arns, i \in ConfirmationIds \ issued.ids :
                   deliveries' = [deliveries EXCEPT ![<<a, i>>] = NewRecord] /\ i \in issued'.ids
      PROVE  PubsubInvariant'
  <2>1. /\ publishing' \in [Messages -> PublishCall] /\ AudienceSound'
        /\ \A m \in Messages : /\ publishing'[m].phase = publishing[m].phase
                               /\ publishing'[m].snapshot = publishing[m].snapshot
    BY Zenon, <1>1, WatchStep
  <2>2. /\ deliveries' \in [DeliveryIds -> DeliveryRecord \cup {NoRecord}]
        /\ FanOutSound' /\ ClaimsSound'
    BY Zenon, <1>1, <2>1, CatalogRecords
  <2>3. TypeOK' BY Zenon, <1>t, <1>1, <2>1, <2>2 DEF TypeOK
  <2> QED BY Zenon, <2>1, <2>2, <2>3 DEF PubsubInvariant
<1>2. ASSUME NEW t \in Topics, CreateTopic(t) PROVE PubsubInvariant'
  <2>1. /\ issued \in [incarnation : Nat, arns : SUBSET Arns, ids : SUBSET ConfirmationIds]
        /\ issued' = [issued EXCEPT !.incarnation = @ + 1]
    BY Zenon, <1>t, <1>2 DEF CreateTopic, TypeOK
  <2>2. issued' \in [incarnation : Nat, arns : SUBSET Arns, ids : SUBSET ConfirmationIds]
        /\ issued'.ids = issued.ids
    BY <2>1
  <2>3. topics' \in [Topics -> Nat] BY <1>t, <1>2, <2>1 DEF CreateTopic, TypeOK
  <2> QED BY Zenon, <1>t, <1>1, <1>2, <2>2, <2>3 DEF CreateTopic, TypeOK
<1>3. ASSUME NEW t \in Topics, DeleteTopic(t) PROVE PubsubInvariant'
  BY Zenon, <1>t, <1>1, <1>3 DEF DeleteTopic, TypeOK, NoTopic
<1>4. ASSUME NEW t \in Topics, NEW e \in Endpoints, Subscribe(t, e) PROVE PubsubInvariant'
  <2>1. UNCHANGED <<topics, intents, turns, chunks, claims, received, faults>> /\ Watch
        /\ topics[t] \in Nat \ {0}
    BY Zenon, <1>t, <1>4 DEF Subscribe, TypeOK, NoTopic
  <2>2. PICK a \in Arns, pending \in BOOLEAN :
           /\ \/ UNCHANGED subscriptions
              \/ subscriptions' = [subscriptions EXCEPT
                    ![a] = [topic |-> t, incarnation |-> topics[t], endpoint |-> e,
                            pending |-> pending]]
           /\ \/ \E i \in ConfirmationIds \ issued.ids :
                    /\ deliveries' = [deliveries EXCEPT ![<<a, i>>] = NewRecord]
                    /\ issued' = [issued EXCEPT !.ids = @ \cup {i}, !.arns = @ \cup {a}]
              \/ /\ UNCHANGED deliveries
                 /\ issued' = [issued EXCEPT !.arns = @ \cup {a}]
    BY Zenon, <1>4 DEF Subscribe, Active
  <2>3. subscriptions' \in [Arns -> Subscription \cup {NoSubscription}]
    <3>1. [topic |-> t, incarnation |-> topics[t], endpoint |-> e, pending |-> pending]
          \in Subscription
      BY Zenon, <2>1 DEF Subscription
    <3> QED BY Zenon, <1>t, <2>2, <3>1 DEF TypeOK
  <2>4. /\ issued' \in [incarnation : Nat, arns : SUBSET Arns, ids : SUBSET ConfirmationIds]
        /\ issued.ids \subseteq issued'.ids
        /\ \/ deliveries' = deliveries
           \/ \E b \in Arns, i \in ConfirmationIds \ issued.ids :
                 deliveries' = [deliveries EXCEPT ![<<b, i>>] = NewRecord] /\ i \in issued'.ids
    <3>1. issued \in [incarnation : Nat, arns : SUBSET Arns, ids : SUBSET ConfirmationIds]
      BY Zenon, <1>t DEF TypeOK
    <3>2. ASSUME NEW i \in ConfirmationIds \ issued.ids,
                 issued' = [issued EXCEPT !.ids = @ \cup {i}, !.arns = @ \cup {a}]
          PROVE  /\ issued' \in [incarnation : Nat, arns : SUBSET Arns, ids : SUBSET ConfirmationIds]
                 /\ issued.ids \subseteq issued'.ids /\ i \in issued'.ids
      BY Zenon, <3>1, <3>2
    <3>3. ASSUME issued' = [issued EXCEPT !.arns = @ \cup {a}]
          PROVE  /\ issued' \in [incarnation : Nat, arns : SUBSET Arns, ids : SUBSET ConfirmationIds]
                 /\ issued.ids \subseteq issued'.ids
      BY Zenon, <3>1, <3>3
    <3> QED BY Zenon, <2>2, <3>2, <3>3
  <2>5. topics' \in [Topics -> Nat] BY Zenon, <1>t, <2>1 DEF TypeOK
  <2> QED BY Zenon, <1>1, <2>1, <2>3, <2>4, <2>5
<1>5. ASSUME NEW t \in Topics, NEW a \in Arns, ConfirmSubscription(t, a) PROVE PubsubInvariant'
  <2>1. subscriptions[a] \in Subscription
    BY Zenon, <1>t, <1>5 DEF ConfirmSubscription, Active, TypeOK
  <2>2. subscriptions' \in [Arns -> Subscription \cup {NoSubscription}]
    BY Zenon, <1>t, <1>5, <2>1 DEF ConfirmSubscription, TypeOK, Subscription
  <2> QED BY Zenon, <1>t, <1>1, <1>5, <2>2 DEF ConfirmSubscription, TypeOK
<1>6. ASSUME NEW a \in Arns, Unsubscribe(a) PROVE PubsubInvariant'
  BY Zenon, <1>t, <1>1, <1>6 DEF Unsubscribe, TypeOK
<1> QED BY Zenon, <1>2, <1>3, <1>4, <1>5, <1>6 DEF Catalog

(* Capturing, reading, accepting and retrying a publication keep the invariant:*)
(* what is accepted is what was read, and nothing of it is materialized yet.   *)
LEMMA PublishStep ==
    ASSUME PubsubInvariant, NEW m \in Messages, Publish(m)
    PROVE  PubsubInvariant'
<1>t. TypeOK /\ AudienceSound /\ FanOutSound /\ ClaimsSound BY Zenon DEF PubsubInvariant
<1>p. publishing[m] \in PublishCall BY Zenon, <1>t DEF TypeOK
<1>1. ASSUME NEW p \in PublishCall, publishing' = [publishing EXCEPT ![m] = p],
             publishing[m].phase # "accepted",
             UNCHANGED <<topics, subscriptions, deliveries, turns, chunks, claims,
                         received, issued, faults>>,
             \/ p.phase # "accepted" /\ intents' = intents
             \/ /\ p.phase = "accepted"
                /\ intents' = [intents EXCEPT
                      ![m] = [next_chunk |-> 0, snapshot |-> p.snapshot, lease |-> NoTime]],
             p.phase \in {"captured", "read"} =>
                /\ p.topic \in Topics
                /\ p.must \subseteq Entitled(p.topic, topics, subscriptions)
                /\ Entitled(p.topic, topics, subscriptions) \subseteq p.may,
             p.phase \in {"read", "accepted"} =>
                p.must \subseteq Confirmed(p.snapshot) /\ Confirmed(p.snapshot) \subseteq p.may
      PROVE  PubsubInvariant'
  <2>1. \A n \in Messages : publishing'[n] = IF n = m THEN p ELSE publishing[n]
    BY Zenon, <1>t, <1>1 DEF TypeOK
  <2>2. intents[m] = NoIntent /\ \A a \in Arns : deliveries[<<a, m>>] = NoRecord
    BY Zenon, <1>t, <1>1 DEF FanOutSound, FanOutExact
  <2>i. [next_chunk |-> 0, snapshot |-> p.snapshot, lease |-> NoTime] \in PublishIntent
    BY <1>1, PubsubAssumption DEF PublishIntent, PublishCall, NoTime
  <2>3. intents' \in [Messages -> PublishIntent \cup {NoIntent}]
    BY Zenon, <1>t, <1>1, <2>i DEF TypeOK
  <2>4. TypeOK' BY Zenon, <1>t, <1>1, <2>3 DEF TypeOK
  <2>5. AudienceSound'
    BY SMTT(60), <1>t, <1>1, <2>1 DEF AudienceSound, Entitled
  <2>6. \A n \in Messages : n # m => intents'[n] = intents[n]
    BY Zenon, <1>t, <1>1 DEF TypeOK
  <2>7. p.phase = "accepted" => /\ intents'[m].next_chunk = 0 /\ intents'[m] # NoIntent
                                /\ intents'[m].snapshot = p.snapshot
    BY <1>t, <1>1, <2>i, Absent DEF TypeOK
  <2>8. p.phase # "accepted" => intents'[m] = NoIntent BY Zenon, <1>1, <2>2
  <2>9. \A a \in Arns : ChunkOf(p.snapshot, a) \in Nat
    <3> SUFFICES ASSUME NEW a \in Arns PROVE ChunkOf(p.snapshot, a) \in Nat
      BY Zenon
    <3>1. Rank(p.snapshot, a) \in Nat
      BY Zenon, PubsubAssumption, FS_Subset, FS_CardinalityType DEF Rank, Members
    <3> QED BY <3>1, PubsubAssumption DEF ChunkOf
  <2>10. FanOutExact'
    <3> SUFFICES ASSUME NEW n \in Messages, NEW a \in Arns
                 PROVE  deliveries[<<a, n>>] # NoRecord
                        <=> /\ publishing'[n].phase = "accepted"
                            /\ a \in Confirmed(publishing'[n].snapshot)
                            /\ \/ intents'[n] = NoIntent
                               \/ ChunkOf(publishing'[n].snapshot, a) < intents'[n].next_chunk
      BY Zenon, <1>1 DEF FanOutExact
    <3>1. CASE n # m BY ZenonT(60), <1>t, <2>1, <2>6, <3>1 DEF FanOutSound, FanOutExact
    <3>2. CASE n = m BY <2>1, <2>2, <2>7, <2>9, <3>2
    <3> QED BY Zenon, <3>1, <3>2
  <2>11. FanOutSound'
    BY SMTT(60), <1>t, <1>1, <2>1, <2>6, <2>7, <2>8, <2>10 DEF FanOutSound
  <2>12. ClaimsSound' BY SMTT(60), <1>t, <1>1 DEF ClaimsSound, DeliveredReached
  <2> QED BY Zenon, <2>4, <2>5, <2>11, <2>12 DEF PubsubInvariant
<1>2. ASSUME NEW t \in Topics, CapturePublish(m, t) PROVE PubsubInvariant'
  <2> DEFINE E == Entitled(t, topics, subscriptions)
             p == [publishing[m] EXCEPT !.phase = "captured", !.topic = t, !.must = E, !.may = E]
  <2>1. E \subseteq Arns BY Zenon DEF Entitled
  <2> HIDE DEF E
  <2>2. p \in PublishCall /\ p.phase = "captured" /\ p.topic = t /\ p.must = E /\ p.may = E
    BY Zenon, <1>p, <2>1 DEF PublishCall, PublishPhase
  <2>3. publishing' = [publishing EXCEPT ![m] = p] BY Zenon, <1>2 DEF CapturePublish, E
  <2> HIDE DEF p
  <2> QED BY ZenonT(60), <1>1, <1>2, <2>2, <2>3 DEF CapturePublish, E
<1>3. CASE ReadAudience(m)
  <2> DEFINE c == publishing[m]
             active == Active(c.topic, topics, subscriptions)
             snapshot == [a \in Arns |->
                 IF a \notin active THEN "absent"
                 ELSE IF subscriptions[a].pending THEN "pending" ELSE "confirmed"]
             refused == [c EXCEPT !.phase = "refused"]
             read == [c EXCEPT !.phase = "read", !.incarnation = topics[c.topic],
                               !.snapshot = snapshot]
  <2>1. c.phase = "captured" /\ c.topic \in Topics /\ topics[c.topic] \in Nat
    BY Zenon, <1>t, <1>3 DEF ReadAudience, AudienceSound, TypeOK
  <2>2. snapshot \in Snapshots BY Zenon DEF Snapshots
  <2>3. Confirmed(snapshot) = Entitled(c.topic, topics, subscriptions)
    BY Zenon DEF Confirmed, Entitled, Active
  <2>4. /\ c.must \subseteq Entitled(c.topic, topics, subscriptions)
        /\ Entitled(c.topic, topics, subscriptions) \subseteq c.may
    BY Zenon, <1>t, <2>1 DEF AudienceSound
  <2>5. publishing' = [publishing EXCEPT ![m] = refused]
        \/ publishing' = [publishing EXCEPT ![m] = read]
    BY Zenon, <1>3 DEF ReadAudience
  <2> HIDE DEF active, snapshot
  <2>6. refused \in PublishCall /\ refused.phase = "refused"
    BY Zenon, <1>p DEF PublishCall, PublishPhase
  <2>7. /\ read \in PublishCall /\ read.phase = "read" /\ read.topic = c.topic
        /\ read.must = c.must /\ read.may = c.may /\ read.snapshot = snapshot
    BY Zenon, <1>p, <2>1, <2>2 DEF PublishCall, PublishPhase
  <2>8. UNCHANGED <<topics, subscriptions, intents, deliveries, turns, chunks, claims,
                    received, issued, faults>>
    BY Zenon, <1>3 DEF ReadAudience
  <2> HIDE DEF refused, read, c
  <2>9. CASE publishing' = [publishing EXCEPT ![m] = refused]
    BY Zenon, <1>1, <2>1, <2>6, <2>8, <2>9 DEF c
  <2>10. CASE publishing' = [publishing EXCEPT ![m] = read]
    BY Zenon, <1>1, <2>1, <2>3, <2>4, <2>7, <2>8, <2>10 DEF c
  <2> QED BY Zenon, <2>5, <2>9, <2>10
<1>4. CASE AcceptPublish(m)
  <2> DEFINE p == [publishing[m] EXCEPT !.phase = "accepted"]
  <2>1. /\ p \in PublishCall /\ p.phase = "accepted" /\ p.snapshot = publishing[m].snapshot
        /\ p.must = publishing[m].must /\ p.may = publishing[m].may
    BY Zenon, <1>p DEF PublishCall, PublishPhase
  <2>2. /\ p.must \subseteq Confirmed(p.snapshot) /\ Confirmed(p.snapshot) \subseteq p.may
        /\ publishing[m].phase = "read"
    BY Zenon, <1>t, <1>4, <2>1 DEF AcceptPublish, AudienceSound
  <2>3. publishing' = [publishing EXCEPT ![m] = p] BY Zenon, <1>4 DEF AcceptPublish
  <2> HIDE DEF p
  <2> QED BY Zenon, <1>1, <1>4, <2>1, <2>2, <2>3 DEF AcceptPublish
<1>5. CASE RetryPublish(m)
  <2>1. PICK phase \in {"captured", "refused"} :
           publishing' = [publishing EXCEPT
              ![m] = [publishing[m] EXCEPT !.phase = phase, !.snapshot = NoSnapshot]]
    BY Zenon, <1>5 DEF RetryPublish
  <2> DEFINE p == [publishing[m] EXCEPT !.phase = phase, !.snapshot = NoSnapshot]
  <2>2. /\ p \in PublishCall /\ p.phase = phase /\ p.topic = publishing[m].topic
        /\ p.must = publishing[m].must /\ p.may = publishing[m].may
    BY Zenon, <1>p DEF PublishCall, PublishPhase, NoSnapshot, Snapshots
  <2>3. publishing[m].phase = "read" BY Zenon, <1>5 DEF RetryPublish
  <2>4. /\ p.topic \in Topics
        /\ p.must \subseteq Entitled(p.topic, topics, subscriptions)
        /\ Entitled(p.topic, topics, subscriptions) \subseteq p.may
    BY Zenon, <1>t, <2>2, <2>3 DEF AudienceSound
  <2>5. publishing' = [publishing EXCEPT ![m] = p] BY Zenon, <2>1
  <2> HIDE DEF p
  <2> QED BY Zenon, <1>1, <1>5, <2>2, <2>3, <2>4, <2>5 DEF RetryPublish
<1> QED BY Zenon, <1>2, <1>3, <1>4, <1>5 DEF Publish

(* A step of a worker has no part in the requests.                           *)
LEMMA RequestsKeep ==
    ASSUME PubsubInvariant, UNCHANGED requests
    PROVE  /\ topics' \in [Topics -> Nat]
           /\ subscriptions' \in [Arns -> Subscription \cup {NoSubscription}]
           /\ publishing' \in [Messages -> PublishCall]
           /\ issued' \in [incarnation : Nat, arns : SUBSET Arns, ids : SUBSET ConfirmationIds]
           /\ AudienceSound'
<1>1. TypeOK /\ AudienceSound /\ UNCHANGED <<topics, subscriptions, publishing, issued>>
  BY Zenon DEF PubsubInvariant, requests
<1>2. AudienceSound' BY ZenonT(60), <1>1 DEF AudienceSound, Entitled
<1> QED BY Zenon, <1>1, <1>2 DEF TypeOK

(* A step that moves no intent on, and makes and removes no record.           *)
LEMMA FanOutKeeps ==
    ASSUME PubsubInvariant, UNCHANGED requests,
           \A m \in Messages :
              /\ intents'[m] = NoIntent <=> intents[m] = NoIntent
              /\ intents[m] # NoIntent => /\ intents'[m].next_chunk = intents[m].next_chunk
                                          /\ intents'[m].snapshot = intents[m].snapshot,
           \A id \in DeliveryIds : deliveries'[id] = NoRecord <=> deliveries[id] = NoRecord
    PROVE  FanOutSound'
<1>1. FanOutSound /\ UNCHANGED <<publishing, issued>> BY Zenon DEF PubsubInvariant, requests
<1>2. \A a \in Arns, i \in Messages \cup ConfirmationIds :
         deliveries'[<<a, i>>] = NoRecord <=> deliveries[<<a, i>>] = NoRecord
  BY Zenon DEF DeliveryIds
<1>3. FanOutExact' BY ZenonT(60), <1>1, <1>2 DEF FanOutSound, FanOutExact
<1> QED BY Zenon, <1>1, <1>2, <1>3 DEF FanOutSound

(* A step that makes and settles no claim.                                   *)
LEMMA ClaimsKeep ==
    ASSUME PubsubInvariant, UNCHANGED received,
           \A id \in DeliveryIds :
              \/ deliveries[id] = NoRecord /\ deliveries'[id] = NoRecord
              \/ deliveries[id] = NoRecord /\ deliveries'[id] = NewRecord
              \/ /\ deliveries[id] # NoRecord /\ deliveries'[id] # NoRecord
                 /\ deliveries'[id].generation = deliveries[id].generation
                 /\ deliveries'[id].status = deliveries[id].status
                 /\ deliveries'[id].owner = deliveries[id].owner,
           \A w \in Workers, id \in DeliveryIds :
              \/ claims'[w][id] = NoClaim
              \/ /\ claims[w][id] # NoClaim
                 /\ claims'[w][id].generation = claims[w][id].generation
                 /\ claims'[w][id].state = claims[w][id].state
                 /\ claims'[w][id].status = claims[w][id].status
    PROVE  ClaimsSound'
<1>1. ClaimsSound BY Zenon DEF PubsubInvariant
<1>2. NewRecord.status = "pending" BY Zenon DEF NewRecord
<1>3. \A w \in Workers, id \in DeliveryIds : claims'[w][id] # NoClaim =>
         /\ deliveries'[id] # NoRecord
         /\ claims'[w][id].generation <= deliveries'[id].generation
         /\ \A v \in Workers : claims'[v][id] # NoClaim
                               /\ claims'[v][id].generation = claims'[w][id].generation => v = w
         /\ claims'[w][id].state = "claimed" => Confirmation(id)
         /\ claims'[w][id].state = "outcome" /\ claims'[w][id].status = "delivered"
            => Confirmation(id) \/ id \in received'
  <2> SUFFICES ASSUME NEW w \in Workers, NEW id \in DeliveryIds, claims'[w][id] # NoClaim
               PROVE  /\ deliveries'[id] # NoRecord
                      /\ claims'[w][id].generation <= deliveries'[id].generation
                      /\ \A v \in Workers : claims'[v][id] # NoClaim
                           /\ claims'[v][id].generation = claims'[w][id].generation => v = w
                      /\ claims'[w][id].state = "claimed" => Confirmation(id)
                      /\ claims'[w][id].state = "outcome" /\ claims'[w][id].status = "delivered"
                         => Confirmation(id) \/ id \in received'
    BY Zenon
  <2>1. claims[w][id] # NoClaim /\ deliveries[id] # NoRecord BY ZenonT(60), <1>1 DEF ClaimsSound
  <2>2. deliveries'[id] # NoRecord /\ deliveries'[id].generation = deliveries[id].generation
    BY Zenon, <2>1
  <2>3. claims'[w][id].generation <= deliveries'[id].generation
    BY ZenonT(60), <1>1, <2>1, <2>2 DEF ClaimsSound
  <2>4. \A v \in Workers : claims'[v][id] # NoClaim
          /\ claims'[v][id].generation = claims'[w][id].generation => v = w
    <3> SUFFICES ASSUME NEW v \in Workers, claims'[v][id] # NoClaim,
                        claims'[v][id].generation = claims'[w][id].generation
                 PROVE  v = w
      BY Zenon
    <3>1. claims[v][id] # NoClaim /\ claims[v][id].generation = claims[w][id].generation
      BY Zenon
    <3> QED BY ZenonT(60), <1>1, <2>1, <3>1 DEF ClaimsSound
  <2>5. /\ claims'[w][id].state = "claimed" => Confirmation(id)
        /\ claims'[w][id].state = "outcome" /\ claims'[w][id].status = "delivered"
           => Confirmation(id) \/ id \in received'
    BY <1>1, <2>1 DEF ClaimsSound
  <2> QED BY Zenon, <2>2, <2>3, <2>4, <2>5
<1>4. \A id \in DeliveryIds : deliveries'[id] # NoRecord /\ deliveries'[id].status \in Terminal
         => deliveries'[id].owner = NoOwner
  BY ZenonT(60), <1>1, <1>2 DEF ClaimsSound, Terminal
<1>5. DeliveredReached' BY ZenonT(60), <1>1, <1>2 DEF ClaimsSound, DeliveredReached
<1> QED BY Zenon, <1>3, <1>4, <1>5 DEF ClaimsSound

(* claim_publish_chunks gives a lease and nothing more; the two readings of    *)
(* the clock change nothing that is stored.                                  *)
LEMMA TurnStep ==
    ASSUME PubsubInvariant, NEW w \in Workers,
           StartTurn(w) \/ ClaimChunks(w) \/ StartClaims(w) \/ EndTurn(w)
    PROVE  PubsubInvariant'
<1>t. TypeOK BY Zenon DEF PubsubInvariant
<1>1. UNCHANGED <<requests, deliveries, claims, received, faults>>
  BY Zenon DEF StartTurn, ClaimChunks, StartClaims, EndTurn
<1>2. turns' \in [Workers -> [phase : Phase, at : Int]]
  <2>1. \E t \in [phase : Phase, at : Int] : turns' = [turns EXCEPT ![w] = t]
    <3>1. \A at \in Int : Turn("chunks", at) \in [phase : Phase, at : Int]
                          /\ Turn("claim", at) \in [phase : Phase, at : Int]
      BY Zenon DEF Turn, Phase
    <3>2. /\ Turn("commit", 0) \in [phase : Phase, at : Int]
          /\ IdleTurn \in [phase : Phase, at : Int]
      BY DEF Turn, Phase, IdleTurn
    <3>3. ClockReadings \subseteq Int BY PubsubAssumption DEF ClockReadings
    <3> QED BY Zenon, <3>1, <3>2, <3>3 DEF StartTurn, ClaimChunks, StartClaims, EndTurn
  <2> QED BY Zenon, <1>t, <2>1 DEF TypeOK
<1>3. /\ intents' \in [Messages -> PublishIntent \cup {NoIntent}]
      /\ chunks' \in [Workers -> [Messages -> PublishIntent \cup {NoIntent}]]
      /\ \A m \in Messages :
            /\ intents'[m] = NoIntent <=> intents[m] = NoIntent
            /\ intents[m] # NoIntent => /\ intents'[m].next_chunk = intents[m].next_chunk
                                        /\ intents'[m].snapshot = intents[m].snapshot
  <2>1. CASE UNCHANGED <<intents, chunks>> BY Zenon, <1>t, <2>1 DEF TypeOK
  <2>2. CASE ClaimChunks(w)
    <3> DEFINE C(m) == [intents[m] EXCEPT !.lease = turns[w].at + IntentLease]
    <3>1. PICK page \in SUBSET Messages :
             /\ page \subseteq DueIntents(turns[w].at)
             /\ intents' = [m \in Messages |-> IF m \in page THEN C(m) ELSE intents[m]]
             /\ chunks' = [chunks EXCEPT ![w] =
                   [m \in Messages |-> IF m \in page THEN C(m) ELSE NoIntent]]
      BY Zenon, <2>2 DEF ClaimChunks, IsDuePage
    <3>2. turns[w].at + IntentLease \in Int BY <1>t, PubsubAssumption DEF TypeOK
    <3>3. ASSUME NEW m \in page
          PROVE  /\ intents[m] # NoIntent
                 /\ C(m) \in PublishIntent /\ C(m) # NoIntent
                 /\ C(m).next_chunk = intents[m].next_chunk
                 /\ C(m).snapshot = intents[m].snapshot
      <4>1. intents[m] \in PublishIntent /\ intents[m] # NoIntent
        BY Zenon, <1>t, <3>1, <3>3 DEF DueIntents, TypeOK
      <4> DEFINE lease == turns[w].at + IntentLease
      <4>2. lease \in Int BY Zenon, <3>2
      <4>3. C(m) = [intents[m] EXCEPT !.lease = lease] BY Zenon
      <4> HIDE DEF lease, C
      <4>4. /\ C(m) \in PublishIntent
            /\ C(m).next_chunk = intents[m].next_chunk
            /\ C(m).snapshot = intents[m].snapshot
        BY ZenonT(60), <4>1, <4>2, <4>3 DEF PublishIntent
      <4> QED BY Zenon, <4>1, <4>4, Absent
    <3> HIDE DEF C
    <3>4. [m \in Messages |-> IF m \in page THEN C(m) ELSE NoIntent]
          \in [Messages -> PublishIntent \cup {NoIntent}]
      BY Zenon, <3>3
    <3>5. intents' \in [Messages -> PublishIntent \cup {NoIntent}] BY Zenon, <1>t, <3>1, <3>3 DEF TypeOK
    <3>6. chunks' \in [Workers -> [Messages -> PublishIntent \cup {NoIntent}]]
      BY Zenon, <1>t, <3>1, <3>4 DEF TypeOK
    <3> QED BY Zenon, <3>1, <3>3, <3>5, <3>6
  <2> QED BY Zenon, <2>1, <2>2 DEF StartTurn, StartClaims, EndTurn
<1>4. FanOutSound' BY Zenon, <1>1, <1>3, FanOutKeeps
<1>5. ClaimsSound' BY Zenon, <1>1, ClaimsKeep
<1>6. TypeOK' BY Zenon, <1>t, <1>1, <1>2, <1>3, RequestsKeep DEF TypeOK
<1> QED BY Zenon, <1>1, <1>4, <1>5, <1>6, RequestsKeep DEF PubsubInvariant

(* commit_publish_chunk writes the records of one chunk and moves the intent   *)
(* past it, or finds its claim lost and writes nothing.                      *)
LEMMA CommitStep ==
    ASSUME PubsubInvariant, NEW w \in Workers, NEW m \in Messages, CommitChunk(w, m)
    PROVE  PubsubInvariant'
<1> DEFINE claimed == chunks[w][m]
           ids == {<<a, m>> : a \in ChunkAudience(claimed)}
<1>t. TypeOK /\ FanOutSound BY Zenon DEF PubsubInvariant
<1>1. UNCHANGED <<requests, claims, received, faults>> /\ claimed \in PublishIntent
  BY <1>t DEF CommitChunk, TypeOK
<1>2. ASSUME NEW ds, ds = deliveries', ds \in [DeliveryIds -> DeliveryRecord \cup {NoRecord}],
             intents' \in [Messages -> PublishIntent \cup {NoIntent}],
             chunks' \in [Workers -> [Messages -> PublishIntent \cup {NoIntent}]],
             turns' \in [Workers -> [phase : Phase, at : Int]],
             \A id \in DeliveryIds : ds[id] = deliveries[id]
                                     \/ (deliveries[id] = NoRecord /\ ds[id] = NewRecord),
             FanOutSound'
      PROVE  PubsubInvariant'
  <2>1. ClaimsSound' BY Zenon, <1>1, <1>2, ClaimsKeep
  <2>2. TypeOK' BY Zenon, <1>t, <1>1, <1>2, RequestsKeep DEF TypeOK
  <2> QED BY Zenon, <1>1, <1>2, <2>1, <2>2, RequestsKeep DEF PubsubInvariant
<1>3. CASE StillClaimed(m, claimed) /\ \A id \in ids : deliveries[id] = NoRecord
  <2>1. /\ deliveries' = [id \in DeliveryIds |-> IF id \in ids THEN NewRecord ELSE deliveries[id]]
        /\ intents' = [intents EXCEPT ![m] = NextChunk(claimed)]
        /\ chunks' = [chunks EXCEPT ![w][m] = NoIntent]
        /\ turns' = turns
        /\ intents[m] = claimed
    BY Zenon, <1>3 DEF CommitChunk, StillClaimed
  <2>2. NewRecord \in DeliveryRecord /\ NewRecord # NoRecord
    BY SMTT(30), Absent, PubsubAssumption
       DEF NewRecord, DeliveryRecord, DeliveryStatus, Terminal, NoTime
  <2> DEFINE s == claimed.snapshot
             n == claimed.next_chunk
  <2>3. s \in Snapshots /\ n \in Nat /\ publishing[m].phase = "accepted"
        /\ publishing[m].snapshot = s
    BY Zenon, <1>t, <1>1, <2>1, Absent DEF PublishIntent, FanOutSound
  <2>4. \A a \in Confirmed(s) : ChunkOf(s, a) \in Int /\ ChunkOf(s, a) < ChunkCount(s)
    BY Zenon, <2>3, MembersInChunks DEF Confirmed, Members, Snapshots
  <2>5. NextChunk(claimed) \in PublishIntent \cup {NoIntent}
        /\ IF n + 1 >= ChunkCount(s) THEN NextChunk(claimed) = NoIntent
           ELSE /\ NextChunk(claimed) # NoIntent
                /\ NextChunk(claimed).next_chunk = n + 1 /\ NextChunk(claimed).snapshot = s
    <3> DEFINE next == [claimed EXCEPT !.next_chunk = n + 1, !.lease = NoTime]
    <3>1. next \in PublishIntent /\ next.next_chunk = n + 1 /\ next.snapshot = s
      <4>1. NoTime \in Int /\ n + 1 \in Nat BY SMTT(30), <2>3, PubsubAssumption DEF NoTime
      <4> HIDE DEF claimed
      <4> QED BY Zenon, <1>1, <2>3, <4>1 DEF PublishIntent
    <3>2. NextChunk(claimed) = IF n + 1 >= ChunkCount(s) THEN NoIntent ELSE next
      BY Zenon DEF NextChunk
    <3> HIDE DEF next, claimed, n, s
    <3> QED BY Zenon, <3>1, <3>2, Absent
  <2>6. \A k \in Messages : intents'[k] = IF k = m THEN NextChunk(claimed) ELSE intents[k]
    BY Zenon, <1>t, <2>1 DEF TypeOK
  <2>7. \A a \in Arns, k \in Messages \cup ConfirmationIds :
           deliveries'[<<a, k>>] = IF k = m /\ a \in ChunkAudience(claimed) THEN NewRecord
                                   ELSE deliveries[<<a, k>>]
    BY Zenon, <2>1 DEF DeliveryIds
  <2>8. ChunkAudience(claimed) = {a \in Confirmed(s) : ChunkOf(s, a) = n} BY Zenon DEF ChunkAudience
  <2>9. \A a \in Arns : deliveries[<<a, m>>] # NoRecord <=> a \in Confirmed(s) /\ ChunkOf(s, a) < n
    BY Zenon, <1>t, <1>1, <2>1, <2>3, Absent DEF FanOutSound, FanOutExact
  <2> HIDE DEF s, n, claimed
  <2>10. \A a \in Arns : deliveries'[<<a, m>>] # NoRecord
            <=> /\ a \in Confirmed(s)
                /\ NextChunk(claimed) = NoIntent \/ ChunkOf(s, a) < NextChunk(claimed).next_chunk
    <3> SUFFICES ASSUME NEW a \in Arns
                 PROVE  deliveries'[<<a, m>>] # NoRecord
                        <=> /\ a \in Confirmed(s)
                            /\ \/ NextChunk(claimed) = NoIntent
                               \/ ChunkOf(s, a) < NextChunk(claimed).next_chunk
      BY Zenon
    <3>1. deliveries'[<<a, m>>] # NoRecord
          <=> a \in Confirmed(s) /\ (ChunkOf(s, a) < n \/ ChunkOf(s, a) = n)
      BY Zenon, <2>2, <2>7, <2>8, <2>9
    <3>2. CASE a \notin Confirmed(s) BY Zenon, <3>1, <3>2
    <3>3. CASE a \in Confirmed(s)
      <4>1. ChunkOf(s, a) \in Int /\ ChunkOf(s, a) < ChunkCount(s) BY Zenon, <2>4, <3>3
      <4>2. ChunkCount(s) \in Int BY Zenon, <2>3, <3>3, MembersInChunks DEF Confirmed, Members, Snapshots
      <4>3. CASE n + 1 >= ChunkCount(s)
        BY <2>3, <2>5, <3>1, <3>3, <4>1, <4>2, <4>3
      <4>4. CASE ~ (n + 1 >= ChunkCount(s))
        BY SMTT(60), <2>3, <2>5, <3>1, <3>3, <4>1, <4>4
      <4> QED BY Zenon, <4>3, <4>4
    <3> QED BY Zenon, <3>2, <3>3
  <2>11. FanOutExact'
    <3> SUFFICES ASSUME NEW k \in Messages, NEW a \in Arns
                 PROVE  deliveries'[<<a, k>>] # NoRecord
                        <=> /\ publishing[k].phase = "accepted"
                            /\ a \in Confirmed(publishing[k].snapshot)
                            /\ \/ intents'[k] = NoIntent
                               \/ ChunkOf(publishing[k].snapshot, a) < intents'[k].next_chunk
      BY Zenon, <1>1 DEF FanOutExact, requests
    <3>1. CASE k = m BY Zenon, <2>3, <2>6, <2>10, <3>1
    <3>2. CASE k # m BY ZenonT(60), <1>t, <2>6, <2>7, <3>2 DEF FanOutSound, FanOutExact
    <3> QED BY Zenon, <3>1, <3>2
  <2>12. FanOutSound'
    <3>1. \A k \in Messages : intents'[k] # NoIntent =>
             publishing[k].phase = "accepted" /\ intents'[k].snapshot = publishing[k].snapshot
      BY Zenon, <1>t, <2>3, <2>5, <2>6 DEF FanOutSound
    <3>2. \A a \in Arns, i \in ConfirmationIds :
             deliveries'[<<a, i>>] # NoRecord => i \in issued.ids
      BY Zenon, <1>t, <2>7, PubsubAssumption DEF FanOutSound
    <3> QED BY Zenon, <1>1, <2>11, <3>1, <3>2 DEF FanOutSound, requests
  <2>13. deliveries' \in [DeliveryIds -> DeliveryRecord \cup {NoRecord}]
    BY Zenon, <1>t, <2>1, <2>2 DEF TypeOK
  <2>14. \A id \in DeliveryIds : deliveries'[id] = deliveries[id]
            \/ (deliveries[id] = NoRecord /\ deliveries'[id] = NewRecord)
    BY Zenon, <1>3, <2>1
  <2>15. intents' \in [Messages -> PublishIntent \cup {NoIntent}]
    BY Zenon, <1>t, <2>1, <2>5 DEF TypeOK
  <2>16. /\ chunks' \in [Workers -> [Messages -> PublishIntent \cup {NoIntent}]]
         /\ turns' \in [Workers -> [phase : Phase, at : Int]]
    BY Zenon, <1>t, <2>1 DEF TypeOK
  <2> QED BY Zenon, <1>2, <2>12, <2>13, <2>14, <2>15, <2>16
<1>4. CASE ~ (StillClaimed(m, claimed) /\ \A id \in ids : deliveries[id] = NoRecord)
  <2>1. /\ chunks' = [chunks EXCEPT ![w] = NoChunks]
        /\ turns' = [turns EXCEPT ![w] = IdleTurn]
        /\ UNCHANGED <<deliveries, intents>>
    BY Zenon, <1>4 DEF CommitChunk
  <2>2. FanOutSound' BY Zenon, <1>1, <2>1, FanOutKeeps
  <2>3. /\ chunks' \in [Workers -> [Messages -> PublishIntent \cup {NoIntent}]]
        /\ turns' \in [Workers -> [phase : Phase, at : Int]]
    BY <1>t, <2>1 DEF TypeOK, NoChunks, IdleTurn, Phase
  <2> HIDE DEF claimed, ids
  <2> QED BY Zenon, <1>t, <1>2, <2>1, <2>2, <2>3 DEF TypeOK
<1> QED BY Zenon, <1>3, <1>4

(* A step that changes one claim of one worker, and no record.                *)
LEMMA OneClaimStep ==
    ASSUME PubsubInvariant, NEW w \in Workers, NEW id \in DeliveryIds, NEW c \in Claim,
           claims[w][id] # NoClaim, c.generation = claims[w][id].generation,
           claims' = [claims EXCEPT ![w][id] = c],
           UNCHANGED <<requests, intents, deliveries, turns, chunks, faults>>,
           received' \subseteq DeliveryIds, received \subseteq received',
           c.state # "claimed",
           c.state = "outcome" /\ c.status = "delivered" => Confirmation(id) \/ id \in received'
    PROVE  PubsubInvariant'
<1>t. TypeOK /\ ClaimsSound BY Zenon DEF PubsubInvariant
<1>1. claims' \in [Workers -> [DeliveryIds -> Claim \cup {NoClaim}]] BY Zenon, <1>t DEF TypeOK
<1>2. \A v \in Workers, i \in DeliveryIds :
         claims'[v][i] = IF v = w /\ i = id THEN c ELSE claims[v][i]
  BY Zenon, <1>t DEF TypeOK
<1>3. \A v \in Workers, i \in DeliveryIds : claims'[v][i] # NoClaim =>
         claims[v][i] # NoClaim /\ claims'[v][i].generation = claims[v][i].generation
  BY <1>2
<1>4. \A v \in Workers, i \in DeliveryIds : claims'[v][i] # NoClaim =>
         /\ deliveries[i] # NoRecord
         /\ claims'[v][i].generation <= deliveries[i].generation
         /\ \A u \in Workers : claims'[u][i] # NoClaim
                               /\ claims'[u][i].generation = claims'[v][i].generation => u = v
  <2> SUFFICES ASSUME NEW v \in Workers, NEW i \in DeliveryIds, claims'[v][i] # NoClaim
               PROVE  /\ deliveries[i] # NoRecord
                      /\ claims'[v][i].generation <= deliveries[i].generation
                      /\ \A u \in Workers : claims'[u][i] # NoClaim
                           /\ claims'[u][i].generation = claims'[v][i].generation => u = v
    BY Zenon
  <2>1. claims[v][i] # NoClaim /\ claims'[v][i].generation = claims[v][i].generation BY Zenon, <1>3
  <2>2. deliveries[i] # NoRecord /\ claims'[v][i].generation <= deliveries[i].generation
    BY Zenon, <1>t, <2>1 DEF ClaimsSound
  <2>3. ASSUME NEW u \in Workers, claims'[u][i] # NoClaim,
               claims'[u][i].generation = claims'[v][i].generation
        PROVE  u = v
    <3>1. claims[u][i] # NoClaim /\ claims[u][i].generation = claims[v][i].generation
      BY Zenon, <1>3, <2>1, <2>3
    <3> QED BY Zenon, <1>t, <2>1, <3>1 DEF ClaimsSound
  <2> QED BY Zenon, <2>2, <2>3
<1>5. \A v \in Workers, i \in DeliveryIds : claims'[v][i] # NoClaim =>
         /\ claims'[v][i].state = "claimed" => Confirmation(i)
         /\ claims'[v][i].state = "outcome" /\ claims'[v][i].status = "delivered"
            => Confirmation(i) \/ i \in received'
  BY SMTT(60), <1>t, <1>2 DEF ClaimsSound
<1>6. DeliveredReached' BY Zenon, <1>t DEF ClaimsSound, DeliveredReached
<1>7. ClaimsSound' BY ZenonT(60), <1>t, <1>4, <1>5, <1>6 DEF ClaimsSound
<1>8. FanOutSound' BY Zenon, FanOutKeeps
<1>9. TypeOK' BY Zenon, <1>t, <1>1, RequestsKeep DEF TypeOK
<1> QED BY Zenon, <1>7, <1>8, <1>9, RequestsKeep DEF PubsubInvariant

(* What DeliveryClaim::update makes of a claim.                              *)
LEMMA OutcomeClaim ==
    ASSUME NEW c \in Claim, NEW status \in DeliveryStatus, NEW t \in Int
    PROVE  /\ Outcome(c, status, t) \in Claim
           /\ Outcome(c, status, t).state = "outcome"
           /\ Outcome(c, status, t).status = status
           /\ Outcome(c, status, t).generation = c.generation
<1>1. c.attempts + 1 \in Nat BY DEF Claim
<1> DEFINE n == c.attempts + 1
<1>2. Outcome(c, status, t) = [c EXCEPT !.state = "outcome", !.status = status, !.attempts = n,
                                        !.next_attempt = t]
  BY Zenon DEF Outcome
<1> HIDE DEF n
<1>3. n \in Nat BY Zenon, <1>1 DEF n
<1> QED BY ZenonT(60), <1>2, <1>3 DEF Claim

(* plan_retry_outcome never says that a record was delivered.                 *)
LEMMA RetryClaim ==
    ASSUME NEW c \in Claim
    PROVE  /\ RetryOutcome(c) \in Claim
           /\ RetryOutcome(c).state = "outcome"
           /\ RetryOutcome(c).status # "delivered"
           /\ RetryOutcome(c).generation = c.generation
<1>1. c.attempts \in Nat /\ c.observed \in Int BY Zenon DEF Claim
<1>2. NoTime \in Int /\ RetryBase \in Nat BY PubsubAssumption DEF NoTime
<1>3. \A k \in 1 .. 11 : Powers[k] \in Nat BY DEF Powers
<1> DEFINE k == IF c.attempts + 1 > 11 THEN 11 ELSE c.attempts + 1
<1>4. k \in 1 .. 11 BY <1>1
<1> HIDE DEF k
<1>5. RetryBase * Powers[k] \in Int BY <1>2, <1>3, <1>4
<1>6. RetryDelay(c.attempts + 1) \in Int BY Zenon, <1>5 DEF RetryDelay, k
<1>7. c.observed + RetryDelay(c.attempts + 1) \in Int BY <1>1, <1>6
<1>8. "failed" \in DeliveryStatus /\ "retry" \in DeliveryStatus BY Zenon DEF DeliveryStatus, Terminal
<1>9. CASE c.attempts + 1 >= MaxAttempts
  <2>1. RetryOutcome(c) = Outcome(c, "failed", NoTime) BY Zenon, <1>9 DEF RetryOutcome
  <2> QED BY <1>2, <1>8, <2>1, OutcomeClaim
<1>10. CASE ~ (c.attempts + 1 >= MaxAttempts)
  <2> DEFINE t == c.observed + RetryDelay(c.attempts + 1)
  <2>1. RetryOutcome(c) = Outcome(c, "retry", t) BY Zenon, <1>10 DEF RetryOutcome
  <2> HIDE DEF t
  <2>2. t \in Int BY Zenon, <1>7 DEF t
  <2> QED BY <1>8, <2>1, <2>2, OutcomeClaim
<1> QED BY Zenon, <1>9, <1>10

(* The lookup of a confirmation's subscription and the sending.               *)
LEMMA SendStep ==
    ASSUME PubsubInvariant, NEW w \in Workers, NEW id \in DeliveryIds,
           LookUpSubscription(w, id) \/ SendDelivery(w, id)
    PROVE  PubsubInvariant'
<1> DEFINE c == claims[w][id]
<1>t. TypeOK /\ ClaimsSound BY Zenon DEF PubsubInvariant
<1>1. c \in Claim /\ c # NoClaim
  BY <1>t, Absent DEF LookUpSubscription, SendDelivery, TypeOK
<1>2. NoTime \in Int /\ "failed" \in DeliveryStatus /\ "delivered" \in DeliveryStatus
  BY PubsubAssumption DEF NoTime, DeliveryStatus, Terminal
<1>3. received \subseteq DeliveryIds BY Zenon, <1>t DEF TypeOK
<1>4. CASE LookUpSubscription(w, id)
  <2>1. Confirmation(id) BY Zenon, <1>t, <1>1, <1>4 DEF LookUpSubscription, ClaimsSound
  <2>2. PICK d \in {Outcome(c, "failed", NoTime), Outcome(c, "delivered", NoTime),
                    [c EXCEPT !.state = "sending"]} :
           claims' = [claims EXCEPT ![w][id] = d]
    BY Zenon, <1>4 DEF LookUpSubscription
  <2>3. UNCHANGED <<requests, intents, deliveries, turns, chunks, received, faults>>
    BY Zenon, <1>4 DEF LookUpSubscription
  <2>4. [c EXCEPT !.state = "sending"] \in Claim
        /\ [c EXCEPT !.state = "sending"].state = "sending"
        /\ [c EXCEPT !.state = "sending"].generation = c.generation
    BY Zenon, <1>1 DEF Claim
  <2> HIDE DEF c
  <2>5. d \in Claim /\ d.generation = c.generation /\ d.state # "claimed"
    <3>1. \A status \in {"failed", "delivered"} :
             LET o == Outcome(c, status, NoTime) IN
             o \in Claim /\ o.generation = c.generation /\ o.state = "outcome"
      BY <1>1, <1>2, OutcomeClaim
    <3> QED BY Zenon, <2>2, <2>4, <3>1
  <2> QED BY Zenon, <1>1, <1>3, <2>1, <2>2, <2>3, <2>5, OneClaimStep DEF c
<1>5. CASE SendDelivery(w, id)
  <2>1. UNCHANGED <<requests, intents, deliveries, turns, chunks, faults>>
    BY Zenon, <1>5 DEF SendDelivery
  <2>2. CASE /\ claims' = [claims EXCEPT ![w][id] = Outcome(c, "delivered", NoTime)]
             /\ received' = received \cup {id}
    <3> DEFINE d == Outcome(c, "delivered", NoTime)
    <3> HIDE DEF c
    <3>1. d \in Claim /\ d.generation = c.generation /\ d.state = "outcome"
      BY SMTT(60), <1>1, <1>2, OutcomeClaim
    <3> HIDE DEF d
    <3> QED BY Zenon, <1>1, <1>3, <2>1, <2>2, <3>1, OneClaimStep DEF c, d
  <2>3. CASE /\ claims' = [claims EXCEPT ![w][id] = Outcome(c, "failed", NoTime)]
             /\ UNCHANGED received
    <3> DEFINE d == Outcome(c, "failed", NoTime)
    <3> HIDE DEF c
    <3>1. d \in Claim /\ d.generation = c.generation /\ d.state = "outcome" /\ d.status = "failed"
      BY <1>1, <1>2, OutcomeClaim
    <3> HIDE DEF d
    <3> QED BY Zenon, <1>1, <1>3, <2>1, <2>3, <3>1, OneClaimStep DEF c, d
  <2>4. CASE /\ claims' = [claims EXCEPT ![w][id] = RetryOutcome(c)]
             /\ received' \in {received, received \cup {id}}
    <3> DEFINE d == RetryOutcome(c)
    <3> HIDE DEF c
    <3>1. /\ d \in Claim /\ d.generation = c.generation /\ d.state = "outcome"
          /\ d.status # "delivered"
      BY Zenon, <1>1, RetryClaim
    <3> HIDE DEF d
    <3> QED BY Zenon, <1>1, <1>3, <2>1, <2>4, <3>1, OneClaimStep DEF c, d
  <2> QED BY Zenon, <1>5, <2>2, <2>3, <2>4 DEF SendDelivery
<1> QED BY Zenon, <1>4, <1>5

(* claim_delivery_records: a claim is newer than every claim before it.       *)
LEMMA ClaimStep ==
    ASSUME PubsubInvariant, NEW w \in Workers, ClaimDeliveries(w)
    PROVE  PubsubInvariant'
<1> DEFINE at == turns[w].at
           T(id) == ClaimedRecord(deliveries[id], w, at)
           C(id) == NewClaim(id, T(id), at)
<1>t. TypeOK /\ ClaimsSound BY Zenon DEF PubsubInvariant
<1>1. PICK page \in SUBSET DeliveryIds :
         /\ page \subseteq DueDeliveries(at)
         /\ deliveries' = [id \in DeliveryIds |-> IF id \in page THEN T(id) ELSE deliveries[id]]
         /\ claims' = [claims EXCEPT ![w] =
               [id \in DeliveryIds |-> IF id \in page THEN C(id) ELSE NoClaim]]
  BY Zenon DEF ClaimDeliveries, IsDuePage
<1>2. UNCHANGED <<requests, intents, chunks, received, faults>>
      /\ turns' = [turns EXCEPT ![w] = Turn("deliver", 0)]
  BY Zenon DEF ClaimDeliveries
<1>3. at \in Int /\ at + DeliveryLease \in Int /\ NoTime \in Int
  BY <1>t, PubsubAssumption DEF TypeOK, NoTime
<1>4. ASSUME NEW id \in page
      PROVE  /\ deliveries[id] \in DeliveryRecord /\ deliveries[id] # NoRecord
             /\ T(id) \in DeliveryRecord /\ T(id) # NoRecord
             /\ T(id).generation = deliveries[id].generation + 1
             /\ T(id).status = deliveries[id].status /\ T(id).status \notin Terminal
  <2>1. deliveries[id] \in DeliveryRecord /\ deliveries[id] # NoRecord
        /\ deliveries[id].status \in {"pending", "retry"}
    BY Zenon, <1>t, <1>1, <1>4 DEF DueDeliveries, IsClaimable, TypeOK
  <2> DEFINE g == deliveries[id].generation + 1
             l == at + DeliveryLease
  <2>2. T(id) = [deliveries[id] EXCEPT !.generation = g, !.owner = Owner[w], !.lease = l]
    BY Zenon DEF ClaimedRecord
  <2>3. g \in Nat /\ l \in Int BY <1>3, <2>1 DEF DeliveryRecord
  <2> HIDE DEF g, l, T
  <2>4. T(id) \in DeliveryRecord /\ T(id).generation = g /\ T(id).status = deliveries[id].status
    BY ZenonT(60), <2>1, <2>2, <2>3 DEF DeliveryRecord
  <2> QED BY Zenon, <2>1, <2>4, Absent DEF g, Terminal
<1> HIDE DEF T
<1>5. ASSUME NEW id \in page
      PROVE  /\ C(id) \in Claim /\ C(id) # NoClaim /\ C(id).generation = T(id).generation
             /\ C(id).state = IF Confirmation(id) THEN "claimed" ELSE "sending"
  <2>1. T(id) \in DeliveryRecord BY Zenon, <1>4, <1>5
  <2>2. C(id) \in Claim BY Zenon, <1>3, <2>1 DEF NewClaim, Claim, DeliveryRecord
  <2> QED BY Zenon, <2>2, Absent DEF NewClaim
<1> HIDE DEF C, at
<1>6. deliveries' \in [DeliveryIds -> DeliveryRecord \cup {NoRecord}]
  BY Zenon, <1>t, <1>1, <1>4 DEF TypeOK
<1>7. claims' \in [Workers -> [DeliveryIds -> Claim \cup {NoClaim}]]
  <2>1. [id \in DeliveryIds |-> IF id \in page THEN C(id) ELSE NoClaim]
        \in [DeliveryIds -> Claim \cup {NoClaim}]
    BY Zenon, <1>5
  <2> QED BY ZenonT(60), <1>t, <1>1, <2>1 DEF TypeOK
<1>8. turns' \in [Workers -> [phase : Phase, at : Int]]
  BY <1>t, <1>2 DEF TypeOK, Turn, Phase
<1>9. TypeOK' BY Zenon, <1>t, <1>2, <1>6, <1>7, <1>8, RequestsKeep DEF TypeOK
<1>10. FanOutSound' BY Zenon, <1>1, <1>2, <1>4, FanOutKeeps
<1>11. \A v \in Workers, id \in DeliveryIds :
          claims'[v][id] = IF v = w THEN IF id \in page THEN C(id) ELSE NoClaim ELSE claims[v][id]
  BY Zenon, <1>t, <1>1 DEF TypeOK
<1>12. \A id \in DeliveryIds :
          deliveries'[id] = IF id \in page THEN T(id) ELSE deliveries[id]
  BY Zenon, <1>1
<1>13. ASSUME NEW v \in Workers, NEW id \in DeliveryIds, claims[v][id] # NoClaim
       PROVE  /\ deliveries[id] \in DeliveryRecord /\ claims[v][id] \in Claim
              /\ claims[v][id].generation \in Nat /\ deliveries[id].generation \in Nat
              /\ claims[v][id].generation <= deliveries[id].generation
  <2>1. deliveries[id] # NoRecord /\ claims[v][id].generation <= deliveries[id].generation
    BY Zenon, <1>t, <1>13 DEF ClaimsSound
  <2>2. deliveries[id] \in DeliveryRecord /\ claims[v][id] \in Claim
    <3>1. /\ deliveries \in [DeliveryIds -> DeliveryRecord \cup {NoRecord}]
          /\ claims \in [Workers -> [DeliveryIds -> Claim \cup {NoClaim}]]
      BY ZenonT(60), <1>t DEF TypeOK
    <3>2. deliveries[id] \in DeliveryRecord \cup {NoRecord}
      BY ZenonT(60), <3>1
    <3>3. claims[v] \in [DeliveryIds -> Claim \cup {NoClaim}]
      BY ZenonT(60), <3>1
    <3>4. claims[v][id] \in Claim \cup {NoClaim}
      BY ZenonT(60), <3>3
    <3> QED
      BY ZenonT(60), <1>13, <2>1, <3>2, <3>4
  <2> QED BY Zenon, <2>1, <2>2 DEF Claim, DeliveryRecord
<1>14. ASSUME NEW v \in Workers, NEW id \in DeliveryIds, claims'[v][id] # NoClaim
       PROVE  /\ deliveries'[id] # NoRecord
              /\ claims'[v][id].generation <= deliveries'[id].generation
              /\ \A u \in Workers : claims'[u][id] # NoClaim
                    /\ claims'[u][id].generation = claims'[v][id].generation => u = v
              /\ claims'[v][id].state = "claimed" => Confirmation(id)
              /\ claims'[v][id].state = "outcome" /\ claims'[v][id].status = "delivered"
                 => Confirmation(id) \/ id \in received'
  <2>1. CASE id \in page
    <3>1. deliveries'[id] = T(id) /\ T(id).generation = deliveries[id].generation + 1
          /\ deliveries[id].generation \in Nat /\ T(id) # NoRecord
      BY Zenon, <1>4, <1>12, <2>1 DEF DeliveryRecord
    <3>2. \A u \in Workers : u # w /\ claims'[u][id] # NoClaim =>
             /\ claims'[u][id] = claims[u][id] /\ claims[u][id].generation \in Nat
             /\ claims[u][id].generation <= deliveries[id].generation
      BY ZenonT(60), <1>11, <1>13
    <3>3. claims'[w][id] = C(id) /\ C(id).generation = deliveries[id].generation + 1
          /\ C(id).state = IF Confirmation(id) THEN "claimed" ELSE "sending"
      BY Zenon, <1>5, <1>11, <2>1, <3>1
    <3>4. claims'[v][id].generation <= deliveries'[id].generation
      BY SMTT(60), <1>14, <3>1, <3>2, <3>3
    <3>5. ASSUME NEW u \in Workers, claims'[u][id] # NoClaim,
                 claims'[u][id].generation = claims'[v][id].generation
          PROVE  u = v
      <4>1. CASE u = w \/ v = w BY SMTT(60), <1>14, <3>1, <3>2, <3>3, <3>5, <4>1
      <4>2. CASE u # w /\ v # w BY SMTT(60), <1>t, <1>14, <3>2, <3>5, <4>2 DEF ClaimsSound
      <4> QED BY Zenon, <4>1, <4>2
    <3>6. /\ claims'[v][id].state = "claimed" => Confirmation(id)
          /\ claims'[v][id].state = "outcome" /\ claims'[v][id].status = "delivered"
             => Confirmation(id) \/ id \in received'
      <4>1. CASE v = w BY Zenon, <3>3, <4>1
      <4>2. CASE v # w BY ZenonT(60), <1>t, <1>2, <1>14, <3>2, <4>2 DEF ClaimsSound
      <4> QED BY Zenon, <4>1, <4>2
    <3> QED BY Zenon, <3>1, <3>4, <3>5, <3>6
  <2>2. CASE id \notin page
    <3>1. deliveries'[id] = deliveries[id] BY ZenonT(60), <1>12, <2>2
    <3>2. \A u \in Workers : claims'[u][id] # NoClaim => claims'[u][id] = claims[u][id]
      BY Zenon, <1>11, <2>2
    <3>3. claims'[v][id] = claims[v][id] /\ claims[v][id] # NoClaim BY Zenon, <1>14, <3>2
    <3>4. /\ deliveries[id] # NoRecord
          /\ claims[v][id].generation <= deliveries[id].generation
          /\ claims[v][id].state = "claimed" => Confirmation(id)
          /\ claims[v][id].state = "outcome" /\ claims[v][id].status = "delivered"
             => Confirmation(id) \/ id \in received
      BY ZenonT(60), <1>t, <3>3 DEF ClaimsSound
    <3>5. \A u \in Workers : claims[u][id] # NoClaim
             /\ claims[u][id].generation = claims[v][id].generation => u = v
      BY Zenon, <1>t, <3>3 DEF ClaimsSound
    <3> QED BY ZenonT(60), <1>2, <3>1, <3>2, <3>3, <3>4, <3>5
  <2> QED BY Zenon, <2>1, <2>2
<1>15. \A id \in DeliveryIds : deliveries'[id] # NoRecord /\ deliveries'[id].status \in Terminal
          => deliveries'[id].owner = NoOwner
  BY ZenonT(60), <1>t, <1>4, <1>12 DEF ClaimsSound
<1>16. DeliveredReached'
  BY ZenonT(60), <1>t, <1>2, <1>4, <1>12 DEF ClaimsSound, DeliveredReached, Terminal
<1>17. ClaimsSound' BY ZenonT(60), <1>14, <1>15, <1>16 DEF ClaimsSound
<1> QED BY Zenon, <1>2, <1>9, <1>10, <1>17, RequestsKeep DEF PubsubInvariant

(* update_delivery_record: the outcome of the latest claim, or nothing.       *)
LEMMA SettleStep ==
    ASSUME PubsubInvariant, NEW w \in Workers, NEW id \in DeliveryIds, SettleDelivery(w, id)
    PROVE  /\ PubsubInvariant'
           /\ claims[w][id].state = "outcome" /\ deliveries[id] # NoRecord
           /\ \/ deliveries' = deliveries
              \/ /\ Settles(deliveries[id], claims[w][id], w)
                 /\ \A i \in DeliveryIds : i # id => deliveries'[i] = deliveries[i]
                 /\ deliveries'[id] \in DeliveryRecord
                 /\ deliveries'[id].status = claims[w][id].status
                 /\ deliveries'[id].generation = deliveries[id].generation
<1> DEFINE c == claims[w][id]
           settled == [deliveries[id] EXCEPT !.status = c.status, !.attempts = c.attempts,
                          !.next_attempt = c.next_attempt, !.owner = NoOwner, !.lease = NoTime]
<1>t. TypeOK /\ ClaimsSound BY ZenonT(60) DEF PubsubInvariant
<1>1. c.state = "outcome" /\ c \in Claim /\ c # NoClaim
  BY <1>t, Absent DEF SettleDelivery, TypeOK
<1>2. deliveries[id] \in DeliveryRecord /\ deliveries[id] # NoRecord
  BY Zenon, <1>t, <1>1 DEF ClaimsSound, TypeOK
<1>3. UNCHANGED <<requests, intents, turns, chunks, received, faults>>
      /\ claims' = [claims EXCEPT ![w][id] = NoClaim]
  BY Zenon DEF SettleDelivery
<1>4. \/ deliveries' = deliveries
      \/ Settles(deliveries[id], c, w) /\ deliveries' = [deliveries EXCEPT ![id] = settled]
  BY Zenon DEF SettleDelivery
<1>5. /\ settled \in DeliveryRecord /\ settled # NoRecord
      /\ settled.generation = deliveries[id].generation
      /\ settled.status = c.status /\ settled.owner = NoOwner
  <2>1. NoTime \in Int BY PubsubAssumption DEF NoTime
  <2> HIDE DEF c
  <2>2. /\ settled \in DeliveryRecord
        /\ settled.generation = deliveries[id].generation
        /\ settled.status = c.status /\ settled.owner = NoOwner
    BY Zenon, <1>1, <1>2, <2>1 DEF DeliveryRecord, Claim
  <2> QED BY Zenon, <2>2, Absent
<1> HIDE DEF settled
<1>6. \A i \in DeliveryIds : i # id => deliveries'[i] = deliveries[i]
  BY Zenon, <1>t, <1>4 DEF TypeOK
<1>7. deliveries'[id] \in {deliveries[id], settled} BY Zenon, <1>t, <1>4 DEF TypeOK
<1>8. deliveries' \in [DeliveryIds -> DeliveryRecord \cup {NoRecord}]
  BY Zenon, <1>t, <1>4, <1>5 DEF TypeOK
<1>9. claims' \in [Workers -> [DeliveryIds -> Claim \cup {NoClaim}]] BY Zenon, <1>t, <1>3 DEF TypeOK
<1>10. \A v \in Workers, i \in DeliveryIds :
          claims'[v][i] = IF v = w /\ i = id THEN NoClaim ELSE claims[v][i]
  BY Zenon, <1>t, <1>3 DEF TypeOK
<1>11. TypeOK' BY Zenon, <1>t, <1>3, <1>8, <1>9, RequestsKeep DEF TypeOK
<1>12. \A i \in DeliveryIds : deliveries'[i] = NoRecord <=> deliveries[i] = NoRecord
  BY Zenon, <1>2, <1>5, <1>6, <1>7
<1>13. FanOutSound' BY Zenon, <1>3, <1>12, FanOutKeeps
<1>14. \A i \in DeliveryIds : deliveries[i] # NoRecord =>
          deliveries'[i].generation = deliveries[i].generation
  BY Zenon, <1>5, <1>6, <1>7
<1>15. \A v \in Workers, i \in DeliveryIds : claims'[v][i] # NoClaim =>
          claims[v][i] # NoClaim /\ claims'[v][i] = claims[v][i]
  BY Zenon, <1>10
<1>16. ASSUME NEW v \in Workers, NEW i \in DeliveryIds, claims'[v][i] # NoClaim
       PROVE  /\ deliveries'[i] # NoRecord
              /\ claims'[v][i].generation <= deliveries'[i].generation
              /\ \A u \in Workers : claims'[u][i] # NoClaim
                    /\ claims'[u][i].generation = claims'[v][i].generation => u = v
              /\ claims'[v][i].state = "claimed" => Confirmation(i)
              /\ claims'[v][i].state = "outcome" /\ claims'[v][i].status = "delivered"
                 => Confirmation(i) \/ i \in received'
  BY SMTT(60), <1>t, <1>3, <1>12, <1>14, <1>15, <1>16 DEF ClaimsSound
<1>17. \A i \in DeliveryIds : deliveries'[i] # NoRecord /\ deliveries'[i].status \in Terminal
          => deliveries'[i].owner = NoOwner
  BY SMTT(60), <1>t, <1>5, <1>6, <1>7 DEF ClaimsSound
<1>18. DeliveredReached'
  <2>1. c.status = "delivered" => Confirmation(id) \/ id \in received
    BY ZenonT(60), <1>t, <1>1 DEF ClaimsSound
  <2> HIDE DEF c
  <2> QED BY ZenonT(60), <1>t, <1>3, <1>5, <1>6, <1>7, <2>1 DEF ClaimsSound, DeliveredReached
<1>19. ClaimsSound' BY Zenon, <1>16, <1>17, <1>18 DEF ClaimsSound
<1>20. PubsubInvariant' BY Zenon, <1>3, <1>11, <1>13, <1>19, RequestsKeep DEF PubsubInvariant
<1>21. Settles(deliveries[id], c, w) /\ deliveries' = [deliveries EXCEPT ![id] = settled]
       => deliveries'[id] = settled
  BY ZenonT(60), <1>t DEF TypeOK
<1> QED BY Zenon, <1>1, <1>2, <1>4, <1>5, <1>6, <1>20, <1>21

(* A lost turn, a lost claim and a tick of the clock settle nothing.          *)
LEMMA FaultStep ==
    ASSUME PubsubInvariant, NEW w \in Workers, Fault(w)
    PROVE  PubsubInvariant'
<1>t. TypeOK BY Zenon DEF PubsubInvariant
<1>1. UNCHANGED <<requests, intents, deliveries, received>> /\ faults' \in Nat
  BY <1>t DEF Fault, LoseTurn, LoseClaim, TypeOK
<1>2. CASE LoseTurn(w)
  <2>1. /\ turns' \in [Workers -> [phase : Phase, at : Int]]
        /\ chunks' \in [Workers -> [Messages -> PublishIntent \cup {NoIntent}]]
    BY SMTT(60), <1>t, <1>2 DEF LoseTurn, TypeOK, IdleTurn, Phase, NoChunks
  <2>2. /\ claims' \in [Workers -> [DeliveryIds -> Claim \cup {NoClaim}]]
        /\ \A v \in Workers, id \in DeliveryIds :
              claims'[v][id] = NoClaim \/ claims'[v][id] = claims[v][id]
    BY Zenon, <1>t, <1>2 DEF LoseTurn, TypeOK, NoClaims
  <2>3. ClaimsSound' BY Zenon, <1>1, <2>2, ClaimsKeep
  <2>4. FanOutSound' BY Zenon, <1>1, FanOutKeeps
  <2>5. TypeOK' BY Zenon, <1>t, <1>1, <2>1, <2>2, RequestsKeep DEF TypeOK
  <2> QED BY Zenon, <1>1, <2>3, <2>4, <2>5, RequestsKeep DEF PubsubInvariant
<1>3. ASSUME NEW id \in DeliveryIds, LoseClaim(w, id) PROVE PubsubInvariant'
  <2>1. UNCHANGED <<turns, chunks>> BY Zenon, <1>3 DEF LoseClaim
  <2>2. /\ claims' \in [Workers -> [DeliveryIds -> Claim \cup {NoClaim}]]
        /\ \A v \in Workers, i \in DeliveryIds :
              claims'[v][i] = NoClaim \/ claims'[v][i] = claims[v][i]
    BY Zenon, <1>t, <1>3 DEF LoseClaim, TypeOK
  <2>3. ClaimsSound' BY Zenon, <1>1, <2>2, ClaimsKeep
  <2>4. FanOutSound' BY Zenon, <1>1, FanOutKeeps
  <2>5. TypeOK' BY Zenon, <1>t, <1>1, <2>1, <2>2, RequestsKeep DEF TypeOK
  <2> QED BY Zenon, <1>1, <2>3, <2>4, <2>5, RequestsKeep DEF PubsubInvariant
<1> QED BY Zenon, <1>2, <1>3 DEF Fault

(* The clock goes on: leases and due times age, and nothing else changes.     *)
LEMMA TickStep ==
    ASSUME PubsubInvariant, Tick
    PROVE  PubsubInvariant'
<1>t. TypeOK BY ZenonT(60) DEF PubsubInvariant
<1>1. UNCHANGED <<requests, received>> /\ faults' \in Nat BY <1>t DEF Tick, TypeOK
<1>a. \A t \in Int : Aged(t) \in Int BY DEF Aged
<1>2. ASSUME NEW i \in PublishIntent \cup {NoIntent}
      PROVE  /\ AgedIntent(i) \in PublishIntent \cup {NoIntent}
             /\ AgedIntent(i) = NoIntent <=> i = NoIntent
             /\ i # NoIntent => /\ AgedIntent(i).next_chunk = i.next_chunk
                                /\ AgedIntent(i).snapshot = i.snapshot
  <2>1. CASE i = NoIntent BY Zenon, <2>1 DEF AgedIntent
  <2>2. CASE i # NoIntent
    <3>1. i \in PublishIntent /\ Aged(i.lease) \in Int BY Zenon, <1>a, <2>2 DEF PublishIntent
    <3>2. AgedIntent(i) = [i EXCEPT !.lease = Aged(i.lease)] BY Zenon, <2>2 DEF AgedIntent
    <3>3. /\ AgedIntent(i) \in PublishIntent /\ AgedIntent(i).next_chunk = i.next_chunk
          /\ AgedIntent(i).snapshot = i.snapshot
      BY Zenon, <3>1, <3>2 DEF PublishIntent
    <3> QED BY Zenon, <2>2, <3>3, Absent
  <2> QED BY Zenon, <2>1, <2>2
<1>3. ASSUME NEW d \in DeliveryRecord \cup {NoRecord}
      PROVE  /\ AgedRecord(d) \in DeliveryRecord \cup {NoRecord}
             /\ AgedRecord(d) = NoRecord <=> d = NoRecord
             /\ d # NoRecord => /\ AgedRecord(d).generation = d.generation
                                /\ AgedRecord(d).status = d.status
                                /\ AgedRecord(d).owner = d.owner
                                /\ AgedRecord(d).attempts = d.attempts
  <2>1. CASE d = NoRecord BY Zenon, <2>1 DEF AgedRecord
  <2>2. CASE d # NoRecord
    <3>1. d \in DeliveryRecord /\ Aged(d.lease) \in Int /\ Aged(d.next_attempt) \in Int
      BY Zenon, <1>a, <2>2 DEF DeliveryRecord
    <3>2. AgedRecord(d) = [d EXCEPT !.next_attempt = Aged(d.next_attempt), !.lease = Aged(d.lease)]
      BY Zenon, <2>2 DEF AgedRecord
    <3>3. /\ AgedRecord(d) \in DeliveryRecord /\ AgedRecord(d).generation = d.generation
          /\ AgedRecord(d).status = d.status /\ AgedRecord(d).owner = d.owner
          /\ AgedRecord(d).attempts = d.attempts
      BY Zenon, <3>1, <3>2 DEF DeliveryRecord
    <3> QED BY Zenon, <2>2, <3>3, Absent
  <2> QED BY Zenon, <2>1, <2>2
<1>4. ASSUME NEW c \in Claim \cup {NoClaim}
      PROVE  /\ AgedClaim(c) \in Claim \cup {NoClaim}
             /\ c = NoClaim => AgedClaim(c) = NoClaim
             /\ c # NoClaim => /\ AgedClaim(c).generation = c.generation
                               /\ AgedClaim(c).state = c.state /\ AgedClaim(c).status = c.status
  <2>1. CASE c = NoClaim BY Zenon, <2>1 DEF AgedClaim
  <2>2. CASE c # NoClaim
    <3>1. c \in Claim /\ Aged(c.observed) \in Int /\ Aged(c.next_attempt) \in Int
      BY Zenon, <1>a, <2>2 DEF Claim
    <3>2. AgedClaim(c) = [c EXCEPT !.observed = Aged(c.observed),
                                   !.next_attempt = Aged(c.next_attempt)]
      BY Zenon, <2>2 DEF AgedClaim
    <3> QED BY Zenon, <2>2, <3>1, <3>2 DEF Claim
  <2> QED BY Zenon, <2>1, <2>2
<1>5. /\ intents' = [m \in Messages |-> AgedIntent(intents[m])]
      /\ deliveries' = [id \in DeliveryIds |-> AgedRecord(deliveries[id])]
      /\ turns' = [w \in Workers |->
            IF Reading(w) THEN [turns[w] EXCEPT !.at = @ - 1] ELSE turns[w]]
      /\ chunks' = [w \in Workers |-> [m \in Messages |-> AgedIntent(chunks[w][m])]]
      /\ claims' = [w \in Workers |-> [id \in DeliveryIds |-> AgedClaim(claims[w][id])]]
  BY Zenon DEF Tick
<1>6. turns' \in [Workers -> [phase : Phase, at : Int]]
  <2>1. ASSUME NEW w \in Workers
        PROVE  [turns[w] EXCEPT !.at = @ - 1] \in [phase : Phase, at : Int]
               /\ turns[w] \in [phase : Phase, at : Int]
    <3>1. turns[w] \in [phase : Phase, at : Int] BY Zenon, <1>t DEF TypeOK
    <3>2. turns[w].at - 1 \in Int BY SMTT(30), <3>1
    <3> QED BY Zenon, <3>1, <3>2
  <2> QED BY Zenon, <1>5, <2>1
<1>7. intents' \in [Messages -> PublishIntent \cup {NoIntent}] BY Zenon, <1>t, <1>2, <1>5 DEF TypeOK
<1>8. deliveries' \in [DeliveryIds -> DeliveryRecord \cup {NoRecord}]
  BY Zenon, <1>t, <1>3, <1>5 DEF TypeOK
<1>9. chunks' \in [Workers -> [Messages -> PublishIntent \cup {NoIntent}]]
  BY <1>t, <1>2, <1>5 DEF TypeOK
<1>10. claims' \in [Workers -> [DeliveryIds -> Claim \cup {NoClaim}]]
  BY <1>t, <1>4, <1>5 DEF TypeOK
<1>11. TypeOK' BY Zenon, <1>t, <1>1, <1>6, <1>7, <1>8, <1>9, <1>10, RequestsKeep DEF TypeOK
<1>12. \A id \in DeliveryIds :
          /\ deliveries'[id] = NoRecord <=> deliveries[id] = NoRecord
          /\ deliveries[id] # NoRecord =>
                /\ deliveries'[id].generation = deliveries[id].generation
                /\ deliveries'[id].status = deliveries[id].status
                /\ deliveries'[id].owner = deliveries[id].owner
  BY ZenonT(60), <1>t, <1>3, <1>5 DEF TypeOK
<1>13. \A m \in Messages :
          /\ intents'[m] = NoIntent <=> intents[m] = NoIntent
          /\ intents[m] # NoIntent => /\ intents'[m].next_chunk = intents[m].next_chunk
                                      /\ intents'[m].snapshot = intents[m].snapshot
  BY Zenon, <1>t, <1>2, <1>5 DEF TypeOK
<1>14. \A w \in Workers, id \in DeliveryIds :
          \/ claims'[w][id] = NoClaim
          \/ /\ claims[w][id] # NoClaim
             /\ claims'[w][id].generation = claims[w][id].generation
             /\ claims'[w][id].state = claims[w][id].state
             /\ claims'[w][id].status = claims[w][id].status
  BY <1>t, <1>4, <1>5 DEF TypeOK
<1>15. FanOutSound' BY Zenon, <1>1, <1>12, <1>13, FanOutKeeps
<1>16. ClaimsSound' BY Zenon, <1>1, <1>12, <1>14, ClaimsKeep
<1> QED BY ZenonT(60), <1>1, <1>11, <1>15, <1>16, RequestsKeep DEF PubsubInvariant

-----------------------------------------------------------------------------
(* The inductive invariant: whatever publishers, subscribers and workers do,   *)
(* in whatever order, it holds.                                             *)
THEOREM PubsubCorrect == Spec => []PubsubInvariant
<1>1. PubsubInvariant /\ [Next]_vars => PubsubInvariant'
  <2> SUFFICES ASSUME PubsubInvariant, [Next]_vars PROVE PubsubInvariant'
    BY Zenon
  <2>1. CASE UNCHANGED vars
    <3>1. UNCHANGED <<requests, intents, deliveries, turns, chunks, claims, received, faults>>
      BY Zenon, <2>1 DEF vars, requests
    <3>2. FanOutSound' BY Zenon, <3>1, FanOutKeeps
    <3>3. ClaimsSound' BY Zenon, <3>1, ClaimsKeep
    <3>4. TypeOK' BY Zenon, <3>1, RequestsKeep DEF TypeOK, PubsubInvariant
    <3> QED BY Zenon, <3>1, <3>2, <3>3, <3>4, RequestsKeep DEF PubsubInvariant
  <2>2. CASE Catalog BY Zenon, <2>2, CatalogStep
  <2>3. ASSUME NEW m \in Messages, Publish(m) PROVE PubsubInvariant' BY Zenon, <2>3, PublishStep
  <2>4. ASSUME NEW w \in Workers, Work(w) PROVE PubsubInvariant'
    <3>1. CASE StartTurn(w) \/ ClaimChunks(w) \/ StartClaims(w) \/ EndTurn(w) BY Zenon, <3>1, TurnStep
    <3>2. ASSUME NEW m \in Messages, CommitChunk(w, m) PROVE PubsubInvariant' BY Zenon, <3>2, CommitStep
    <3>3. CASE ClaimDeliveries(w) BY Zenon, <3>3, ClaimStep
    <3>4. ASSUME NEW id \in DeliveryIds, LookUpSubscription(w, id) \/ SendDelivery(w, id)
          PROVE  PubsubInvariant'
      BY Zenon, <3>4, SendStep
    <3>5. ASSUME NEW id \in DeliveryIds, SettleDelivery(w, id) PROVE PubsubInvariant'
      BY Zenon, <3>5, SettleStep
    <3> QED BY Zenon, <2>4, <3>1, <3>2, <3>3, <3>4, <3>5 DEF Work
  <2>5. ASSUME NEW w \in Workers, Fault(w) PROVE PubsubInvariant' BY Zenon, <2>5, FaultStep
  <2>6. CASE Tick BY Zenon, <2>6, TickStep
  <2> QED BY Zenon, <2>1, <2>2, <2>3, <2>4, <2>5, <2>6 DEF Next
<1> QED BY <1>1, InitInvariant, PTL DEF Spec

(* accept_publish_on_port reaches exactly the subscribers of the topic's       *)
(* incarnation, up to those that came or went while it ran.                  *)
THEOREM AudienceAlwaysKept == Spec => []AudienceKept
<1>1. PubsubInvariant => AudienceKept BY Zenon DEF PubsubInvariant, AudienceSound, AudienceKept
<1> QED BY <1>1, PubsubCorrect, PTL

(* commit_publish_chunk makes each record of a publication once.              *)
THEOREM FanOutAlwaysExact == Spec => []FanOutExact
<1>1. PubsubInvariant => FanOutExact BY Zenon DEF PubsubInvariant, FanOutSound
<1> QED BY <1>1, PubsubCorrect, PTL

(* DeliveryRecord::settle accepts one of the claims on a record at most.       *)
THEOREM AlwaysOneSettler == Spec => []OneSettler
<1>1. PubsubInvariant => OneSettler
  <2> SUFFICES ASSUME PubsubInvariant, NEW v \in Workers, NEW w \in Workers, NEW id \in DeliveryIds,
                      claims[v][id] # NoClaim, Settles(deliveries[id], claims[v][id], v),
                      claims[w][id] # NoClaim, Settles(deliveries[id], claims[w][id], w)
               PROVE  v = w
    BY Zenon DEF OneSettler
  <2>1. claims[v][id].generation = claims[w][id].generation BY Zenon DEF Settles
  <2> QED BY Zenon, <2>1 DEF PubsubInvariant, ClaimsSound
<1> QED BY <1>1, PubsubCorrect, PTL

(* A notification saved as delivered was taken by its endpoint.              *)
THEOREM DeliveredAlwaysReached == Spec => []DeliveredReached
<1>1. PubsubInvariant => DeliveredReached BY Zenon DEF PubsubInvariant, ClaimsSound
<1> QED BY <1>1, PubsubCorrect, PTL

(* Records are never removed, a claim never rewinds, and only the latest claim *)
(* settles: DeliveryRecord::claim and DeliveryRecord::settle.                 *)
THEOREM SettledStaysSettled == Spec => SettledForGood
<1> DEFINE Kept(id) ==
             /\ deliveries'[id] # NoRecord
             /\ deliveries'[id].generation >= deliveries[id].generation
             /\ deliveries[id].status \in Terminal => deliveries'[id].status = deliveries[id].status
             /\ deliveries'[id].attempts # deliveries[id].attempts =>
                   \E w \in Workers : /\ claims[w][id].state = "outcome"
                                      /\ claims[w][id].generation = deliveries[id].generation
                                      /\ claims[w][id].status = deliveries'[id].status
<1>1. ASSUME PubsubInvariant, [Next]_vars, NEW id \in DeliveryIds, deliveries[id] # NoRecord
      PROVE  Kept(id)
  <2>t. TypeOK /\ FanOutSound /\ ClaimsSound BY ZenonT(60), <1>1 DEF PubsubInvariant
  <2>d. deliveries[id] \in DeliveryRecord /\ deliveries[id].generation \in Nat
    BY Zenon, <1>1, <2>t DEF TypeOK, DeliveryRecord
  <2>1. CASE deliveries'[id] = deliveries[id] BY <1>1, <2>d, <2>1
  <2>2. CASE Catalog
    <3>1. ASSUME NEW t \in Topics, NEW e \in Endpoints, Subscribe(t, e)
          PROVE  deliveries'[id] = deliveries[id]
      <4>1. \/ UNCHANGED deliveries
            \/ \E a \in Arns, i \in ConfirmationIds \ issued.ids :
                  deliveries' = [deliveries EXCEPT ![<<a, i>>] = NewRecord]
        BY Zenon, <3>1 DEF Subscribe, Active
      <4>2. \A a \in Arns, i \in ConfirmationIds \ issued.ids : <<a, i>> # id
        BY Zenon, <1>1, <2>t DEF FanOutSound
      <4> QED BY Zenon, <2>t, <4>1, <4>2 DEF TypeOK
    <3> QED BY Zenon, <2>1, <2>2, <3>1
            DEF Catalog, CreateTopic, DeleteTopic, ConfirmSubscription, Unsubscribe
  <2>3. ASSUME NEW m \in Messages, Publish(m) PROVE Kept(id)
    BY Zenon, <2>1, <2>3 DEF Publish, CapturePublish, ReadAudience, AcceptPublish, RetryPublish
  <2>4. ASSUME NEW w \in Workers, NEW m \in Messages, CommitChunk(w, m) PROVE Kept(id)
    <3>1. deliveries'[id] = deliveries[id] BY Zenon, <1>1, <2>4 DEF CommitChunk
    <3> QED BY Zenon, <2>1, <3>1
  <2>5. ASSUME NEW w \in Workers, ClaimDeliveries(w) PROVE Kept(id)
    <3>1. deliveries'[id] \in {deliveries[id], ClaimedRecord(deliveries[id], w, turns[w].at)}
      BY Zenon, <2>5 DEF ClaimDeliveries
    <3> DEFINE g == deliveries[id].generation + 1
               l == turns[w].at + DeliveryLease
               d == [deliveries[id] EXCEPT !.generation = g, !.owner = Owner[w], !.lease = l]
    <3>2. g \in Nat /\ l \in Int BY <2>t, <2>d, PubsubAssumption DEF TypeOK
    <3>3. ClaimedRecord(deliveries[id], w, turns[w].at) = d BY Zenon DEF ClaimedRecord
    <3> HIDE DEF g, l
    <3>4. /\ d \in DeliveryRecord /\ d.generation = g /\ d.status = deliveries[id].status
          /\ d.attempts = deliveries[id].attempts
      BY Zenon, <2>d, <3>2 DEF DeliveryRecord
    <3> HIDE DEF d
    <3>5. g >= deliveries[id].generation BY <2>d DEF g
    <3>6. CASE deliveries'[id] = d BY Zenon, <3>4, <3>5, <3>6, Absent
    <3> QED BY Zenon, <2>1, <3>1, <3>3, <3>6
  <2>6. ASSUME NEW w \in Workers, NEW i \in DeliveryIds, SettleDelivery(w, i) PROVE Kept(id)
    <3>1. CASE i = id
      <4>1. /\ claims[w][id].state = "outcome"
            /\ \/ deliveries' = deliveries
               \/ /\ Settles(deliveries[id], claims[w][id], w)
                  /\ deliveries'[id] \in DeliveryRecord
                  /\ deliveries'[id].status = claims[w][id].status
                  /\ deliveries'[id].generation = deliveries[id].generation
        BY ZenonT(60), <1>1, <2>6, <3>1, SettleStep
      <4>2. Settles(deliveries[id], claims[w][id], w) =>
               /\ claims[w][id].generation = deliveries[id].generation
               /\ deliveries[id].status \notin Terminal
        BY Zenon, <1>1, <2>t, PubsubAssumption DEF Settles, ClaimsSound
      <4> QED BY SMTT(60), <2>1, <2>d, <4>1, <4>2, Absent
    <3>2. CASE i # id
      <4>1. deliveries'[id] = deliveries[id] BY Zenon, <1>1, <2>6, <3>2, SettleStep
      <4> QED BY Zenon, <2>1, <4>1
    <3> QED BY Zenon, <3>1, <3>2
  <2>7. ASSUME NEW w \in Workers, Work(w) PROVE Kept(id)
    BY Zenon, <2>1, <2>4, <2>5, <2>6, <2>7
       DEF Work, StartTurn, ClaimChunks, StartClaims, EndTurn, LookUpSubscription, SendDelivery
  <2>8. ASSUME NEW w \in Workers, Fault(w) PROVE Kept(id)
    BY ZenonT(60), <2>1, <2>8 DEF Fault, LoseTurn, LoseClaim
  <2>9. CASE Tick
    <3> DEFINE t == Aged(deliveries[id].next_attempt)
               l == Aged(deliveries[id].lease)
               d == [deliveries[id] EXCEPT !.next_attempt = t, !.lease = l]
    <3>1. deliveries'[id] = d BY Zenon, <1>1, <2>9 DEF Tick, AgedRecord
    <3>2. t \in Int /\ l \in Int BY <2>d DEF Aged, DeliveryRecord
    <3> HIDE DEF t, l
    <3>3. /\ d \in DeliveryRecord /\ d.generation = deliveries[id].generation
          /\ d.status = deliveries[id].status /\ d.attempts = deliveries[id].attempts
      BY Zenon, <2>d, <3>2 DEF DeliveryRecord
    <3> QED BY <2>d, <3>1, <3>3, Absent
  <2>10. CASE UNCHANGED vars BY Zenon, <2>1, <2>10 DEF vars
  <2> HIDE DEF Kept
  <2> QED BY Zenon, <1>1, <2>2, <2>3, <2>7, <2>8, <2>9, <2>10 DEF Next
<1>2. PubsubInvariant /\ [Next]_vars =>
         [\A id \in DeliveryIds : deliveries[id] # NoRecord => Kept(id)]_vars
  BY Zenon, <1>1
<1> QED BY <1>2, PubsubCorrect, PTL DEF Spec, SettledForGood
=============================================================================
