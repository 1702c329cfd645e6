----------------------------- MODULE QueueProofs -----------------------------
(***************************************************************************)
(* Proofs about Queue for every number of clients, queues, messages and    *)
(* clock steps.  QueueInvariant is inductive: one lemma per kind of step,  *)
(* combined in NextStep; the theorems follow from it.                      *)
(***************************************************************************)
EXTENDS KvQueue, TLAPS

-----------------------------------------------------------------------------
(* The requests that only start, and the commits that change the catalog or  *)
(* that rewrite or remove rows                                             *)

(* A request in flight has the fields its handler captured: its op tells    *)
(* which.                                                                   *)
LEMMA CallKinds ==
    ASSUME TypeOK, NEW c \in Clients
    PROVE  /\ calls[c].op = "create" => calls[c] \in CreateCall
           /\ calls[c].op = "delete_queue" => calls[c] \in DeleteQueueCall
           /\ calls[c].op = "purge" => calls[c] \in PurgeCall
           /\ calls[c].op = "set_attributes" => calls[c] \in SetAttributesCall
           /\ calls[c].op = "send" => calls[c] \in SendCall
           /\ calls[c].op = "publish" => calls[c] \in PublishCall
           /\ calls[c].op = "receive" => calls[c] \in ReceiveCall
           /\ calls[c].op = "delete_message" => calls[c] \in DeleteMessageCall
           /\ calls[c].op = "change_visibility" => calls[c] \in ChangeVisibilityCall
           /\ calls[c].op = "checkpoint" => calls[c] \in CheckpointCall
<1>1. calls[c] \in Call \cup {Idle}
  BY Zenon DEF TypeOK
<1> QED
  BY <1>1 DEF Call, CreateCall, DeleteQueueCall, PurgeCall, SetAttributesCall, SendCall,
     PublishCall, ReceiveCall, DeleteMessageCall, ChangeVisibilityCall, CheckpointCall, Idle

(* The empty store, with no request in flight, satisfies the invariant.     *)
LEMMA InitInvariant == Init => QueueInvariant
<1> SUFFICES ASSUME Init PROVE QueueInvariant
  BY Zenon
<1>1. TypeOK
  BY QueueAssumption DEF Init, TypeOK, NoCursor, NoTurn, Idle
<1>2. CapturedInPast
  BY QueueAssumption DEF Init, CapturedInPast, Idle, NoTurn
<1>3. IncarnationsFresh /\ ReceiptsFresh /\ RandomIdsFresh
  BY Zenon DEF Init, IncarnationsFresh, ReceiptsFresh, RandomIdsFresh, Proposed, Idle
<1>4. IdentitiesUnique /\ ReceiptsUnique
  BY Zenon DEF Init, IdentitiesUnique, ReceiptsUnique
<1>5. MessagesMatchQueues /\ MessagesMatchLeases /\ ClaimsHold
  BY Zenon DEF Init, MessagesMatchQueues, MessagesMatchLeases, ClaimsHold
<1> QED
  BY Zenon, <1>1, <1>2, <1>3, <1>4, <1>5 DEF QueueInvariant

-----------------------------------------------------------------------------
(* Requests that start                                                     *)

(* A handler that captures its inputs before the first attempt keeps the    *)
(* invariant when what it captures was not issued before: a new             *)
(* incarnation, new handles, new random ids, a clock reading not ahead of   *)
(* the skew.                                                                *)
LEMMA StartStep ==
    ASSUME QueueInvariant, NEW c \in Clients, NEW call \in Call, Start(c, call),
           issued' \in [incarnation : Nat, receipt : Nat, ids : SUBSET RandomIds],
           issued.incarnation <= issued'.incarnation,
           issued.receipt <= issued'.receipt,
           issued.ids \subseteq issued'.ids,
           call.op \in {"send", "publish", "receive"} => call.at <= now + Skew,
           call.op = "create" => /\ issued.incarnation < call.queue.incarnation
                                 /\ call.queue.incarnation <= issued'.incarnation,
           call.op = "purge" => /\ issued.incarnation < call.incarnation
                                /\ call.incarnation <= issued'.incarnation,
           call.op = "receive" =>
               \A r \in call.receipts : issued.receipt < r /\ r <= issued'.receipt,
           call.op = "send" =>
               \A id \in DOMAIN call.entries : id \notin issued.ids /\ id \in issued'.ids
    PROVE  QueueInvariant'
<1>0. /\ calls' = [calls EXCEPT ![c] = call] /\ calls[c] = Idle
      /\ UNCHANGED <<now, catalog, messages, cleanup, leases>>
  BY Zenon DEF Start
<1>t. TypeOK /\ TypeOK'
  BY Zenon, <1>0 DEF QueueInvariant, TypeOK
<1>c. \A d \in Clients : calls'[d] = IF d = c THEN call ELSE calls[d]
  BY Zenon, <1>0, <1>t DEF TypeOK
<1>n. /\ now \in Nat /\ issued.incarnation \in Nat /\ issued.receipt \in Nat
      /\ issued'.incarnation \in Nat /\ issued'.receipt \in Nat
      /\ \A q \in catalog : q.incarnation \in Nat
      /\ \A m \in messages : m.incarnation \in Nat /\ m.receipt \in Nat
      /\ \A l \in leases : l.incarnation \in Nat /\ l.receipt \in Nat
  BY Zenon, <1>t DEF TypeOK, QueueCatalogRecord, QueueMessageRecord, Lease
<1>1. CapturedInPast'
  BY ZenonT(60), <1>0, <1>c DEF QueueInvariant, CapturedInPast
<1>2. IncarnationsFresh'
  <2>1. \A d \in Clients : Proposed(d)' =
           IF d # c THEN Proposed(d)
           ELSE IF call.op = "create" THEN {call.queue.incarnation}
           ELSE IF call.op = "purge" THEN {call.incarnation} ELSE {}
    BY Zenon, <1>c DEF Proposed
  <2>2. \A i \in Proposed(c)' : i \in Nat
    BY ZenonT(60), <2>1 DEF Call, CreateCall, DeleteQueueCall, PurgeCall, SetAttributesCall, SendCall,
       PublishCall, ReceiveCall, DeleteMessageCall, ChangeVisibilityCall, CheckpointCall,
       QueueCatalogRecord
  <2>3. \A d \in Clients : \A i \in Proposed(d) : i \in Nat /\ i <= issued.incarnation
    BY CallKinds, <1>t DEF QueueInvariant, IncarnationsFresh, Proposed, CreateCall, PurgeCall,
       QueueCatalogRecord
  <2>4. \A i \in Proposed(c)' : issued.incarnation < i /\ i <= issued'.incarnation
    BY Zenon, <2>1
  <2> QED
    BY <1>0, <1>n, <2>1, <2>2, <2>3, <2>4 DEF QueueInvariant, IncarnationsFresh
<1>3. ReceiptsFresh' /\ ReceiptsUnique'
  <2>1. call.op = "receive" => \A r \in call.receipts : r \in Nat
    BY Zenon DEF Call, CreateCall, DeleteQueueCall, PurgeCall, SetAttributesCall, SendCall,
       PublishCall, ReceiveCall, DeleteMessageCall, ChangeVisibilityCall, CheckpointCall
  <2>2. \A d \in Clients : calls[d].op = "receive" => \A r \in calls[d].receipts : r \in Nat
    BY Zenon, CallKinds, <1>t DEF ReceiveCall
  <2> QED
    BY <1>0, <1>c, <1>n, <2>1, <2>2 DEF QueueInvariant, ReceiptsFresh, ReceiptsUnique, NoReceipt
<1>4. RandomIdsFresh'
  <2>1. \A m \in messages : call.op = "send" /\ m.id \in DOMAIN call.entries =>
           m.id \in RandomIds
    BY Zenon, <1>t DEF TypeOK
  <2> QED
    BY <1>0, <1>c, <2>1 DEF QueueInvariant, RandomIdsFresh
<1>5. IdentitiesUnique' /\ MessagesMatchQueues' /\ MessagesMatchLeases'
  BY Zenon, <1>0 DEF QueueInvariant, IdentitiesUnique, MessagesMatchQueues, MessagesMatchLeases, Key
<1>6. ClaimsHold'
  BY Zenon, <1>0 DEF QueueInvariant, ClaimsHold, InForce, Reachable, Key
<1> QED
  BY Zenon, <1>t, <1>1, <1>2, <1>3, <1>4, <1>5, <1>6 DEF QueueInvariant

(* A captured clock reading is at most Skew ahead of the reference clock.   *)
LEMMA ClockReadingsPast ==
    ASSUME TypeOK
    PROVE  \A t \in ClockReadings : t \in Int /\ t <= now + Skew
BY QueueAssumption DEF TypeOK, ClockReadings

(* Every request of the queue API captures fresh values:                    *)
(* QueueIncarnation::new, receipt handles of receive_messages,              *)
(* MessageId::random of send_messages.                                      *)
LEMMA StartRequestStep ==
    ASSUME QueueInvariant, NEW c \in Clients, StartRequest(c)
    PROVE  QueueInvariant'
<1>t. TypeOK
  BY Zenon DEF QueueInvariant
<1>i. /\ issued \in [incarnation : Nat, receipt : Nat, ids : SUBSET RandomIds]
      /\ now \in Nat
  BY Zenon, <1>t DEF TypeOK
<1>1. CASE StartCreateQueue(c)
  <2> PICK name \in Names, url \in Urls, attributes \in AttributeSets :
        /\ NewIncarnation
        /\ Start(c, [op |-> "create",
                     queue |-> [name |-> name, url |-> url, attributes |-> attributes,
                                incarnation |-> issued.incarnation + 1]])
    BY Zenon, <1>1 DEF StartCreateQueue
  <2> DEFINE call == [op |-> "create",
                     queue |-> [name |-> name, url |-> url, attributes |-> attributes,
                                incarnation |-> issued.incarnation + 1]]
  <2>1. call \in Call
    BY <1>i, QueueAssumption DEF Call, CreateCall, QueueCatalogRecord
  <2>2. /\ issued' \in [incarnation : Nat, receipt : Nat, ids : SUBSET RandomIds]
        /\ issued'.incarnation = issued.incarnation + 1
        /\ issued'.receipt = issued.receipt /\ issued'.ids = issued.ids
    BY <1>i DEF NewIncarnation
  <2>3. call.op = "create" /\ call.queue.incarnation = issued.incarnation + 1 /\ Start(c, call)
    BY Zenon
  <2> QED
    BY <1>i, <2>1, <2>2, <2>3, StartStep
<1>2. CASE StartPurgeQueue(c)
  <2> PICK url \in Urls :
        /\ NewIncarnation
        /\ Start(c, [op |-> "purge", url |-> url, incarnation |-> issued.incarnation + 1])
    BY Zenon, <1>2 DEF StartPurgeQueue
  <2> DEFINE call == [op |-> "purge", url |-> url, incarnation |-> issued.incarnation + 1]
  <2>1. call \in Call
    BY <1>i DEF Call, PurgeCall
  <2>2. /\ issued' \in [incarnation : Nat, receipt : Nat, ids : SUBSET RandomIds]
        /\ issued'.incarnation = issued.incarnation + 1
        /\ issued'.receipt = issued.receipt /\ issued'.ids = issued.ids
    BY <1>i DEF NewIncarnation
  <2>3. call.op = "purge" /\ call.incarnation = issued.incarnation + 1 /\ Start(c, call)
    BY Zenon
  <2> QED
    BY <1>i, <2>1, <2>2, <2>3, StartStep
<1>3. CASE StartSendMessages(c)
  <2> PICK url \in Urls, at \in ClockReadings, ids \in SUBSET (RandomIds \ issued.ids) :
        /\ issued' = [issued EXCEPT !.ids = @ \cup ids]
        /\ \E entries \in [ids -> Entry] :
              Start(c, [op |-> "send", url |-> url, at |-> at, entries |-> entries])
    BY Zenon, <1>3 DEF StartSendMessages
  <2> PICK entries \in [ids -> Entry] :
        Start(c, [op |-> "send", url |-> url, at |-> at, entries |-> entries])
    BY Zenon
  <2> DEFINE call == [op |-> "send", url |-> url, at |-> at, entries |-> entries]
  <2>1. at \in Int /\ at <= now + Skew
    BY Zenon, <1>t, ClockReadingsPast
  <2>2. call \in Call
    <3>1. entries \in UNION {[i -> Entry] : i \in SUBSET RandomIds}
      BY Zenon
    <3> QED
      BY Zenon, <2>1, <3>1 DEF Call, SendCall
  <2>3. /\ issued' \in [incarnation : Nat, receipt : Nat, ids : SUBSET RandomIds]
        /\ issued'.ids = issued.ids \cup ids
        /\ issued'.receipt = issued.receipt /\ issued'.incarnation = issued.incarnation
    BY Zenon, <1>i
  <2>4. call.op = "send" /\ call.at = at /\ DOMAIN call.entries = ids /\ Start(c, call)
    BY Zenon
  <2> QED
    BY <1>i, <2>1, <2>2, <2>3, <2>4, StartStep
<1>4. CASE StartReceiveMessages(c)
  <2> PICK url \in Urls, at \in ClockReadings, timeout \in Timeouts, limit \in ReceiveLimits :
        /\ issued' = [issued EXCEPT !.receipt = @ + limit]
        /\ Start(c, [op |-> "receive", url |-> url, at |-> at, timeout |-> timeout,
                     receipts |-> (issued.receipt + 1) .. (issued.receipt + limit)])
    BY Zenon, <1>4 DEF StartReceiveMessages
  <2> DEFINE call == [op |-> "receive", url |-> url, at |-> at, timeout |-> timeout,
                     receipts |-> (issued.receipt + 1) .. (issued.receipt + limit)]
  <2>1. at \in Int /\ at <= now + Skew /\ limit \in Nat
    BY Zenon, <1>t, ClockReadingsPast, QueueAssumption
  <2>2. call \in Call
    BY <1>i, <2>1 DEF Call, ReceiveCall
  <2>3. /\ issued' \in [incarnation : Nat, receipt : Nat, ids : SUBSET RandomIds]
        /\ issued'.receipt = issued.receipt + limit
        /\ issued'.ids = issued.ids /\ issued'.incarnation = issued.incarnation
    BY <1>i, <2>1
  <2>4. /\ call.op = "receive" /\ call.at = at /\ Start(c, call)
        /\ call.receipts = (issued.receipt + 1) .. (issued.receipt + limit)
    BY Zenon
  <2>5. \A r \in call.receipts : issued.receipt < r /\ r <= issued'.receipt
    BY <1>i, <2>1, <2>3, <2>4
  <2> QED
    BY SMTT(60), <1>i, <2>1, <2>2, <2>3, <2>4, <2>5, StartStep
<1>5. CASE StartPublishMessage(c)
  <2> PICK url \in Urls, at \in ClockReadings, id \in PublishIds, entry \in Entry :
        /\ Start(c, [op |-> "publish", url |-> url, at |-> at, id |-> id, entry |-> entry])
        /\ UNCHANGED issued
    BY Zenon, <1>5 DEF StartPublishMessage
  <2> DEFINE call == [op |-> "publish", url |-> url, at |-> at, id |-> id, entry |-> entry]
  <2>1. at \in Int /\ at <= now + Skew
    BY Zenon, <1>t, ClockReadingsPast
  <2>2. call \in Call
    BY Zenon, <2>1 DEF Call, PublishCall
  <2>3. call.op = "publish" /\ call.at = at /\ Start(c, call)
    BY Zenon
  <2> QED
    BY <1>i, <2>1, <2>2, <2>3, StartStep
<1>6. ASSUME NEW call \in Call, Start(c, call), UNCHANGED issued,
             call.op \in {"delete_queue", "set_attributes", "delete_message",
                          "change_visibility", "checkpoint"}
      PROVE QueueInvariant'
  BY <1>i, <1>6, StartStep
<1>7. CASE StartDeleteQueue(c)
  BY Zenon, <1>6, <1>7 DEF StartDeleteQueue, Call, DeleteQueueCall
<1>8. CASE StartSetQueueAttributes(c)
  BY Zenon, <1>6, <1>8 DEF StartSetQueueAttributes, Call, SetAttributesCall
<1>9. CASE StartDeleteMessage(c)
  <2>1. \A r \in KnownReceipts : r \in Nat \ {0}
    BY <1>i DEF KnownReceipts
  <2> QED
    BY Zenon, <1>6, <1>9, <2>1 DEF StartDeleteMessage, Call, DeleteMessageCall
<1>10. CASE StartChangeMessageVisibility(c)
  <2>1. \A r \in KnownReceipts : r \in Nat \ {0}
    BY <1>i DEF KnownReceipts
  <2>2. \A at \in ClockReadings, timeout \in Timeouts : at + timeout \in Int
    BY <1>t, ClockReadingsPast, QueueAssumption
  <2> QED
    BY Zenon, <1>6, <1>10, <2>1, <2>2 DEF StartChangeMessageVisibility, Call, ChangeVisibilityCall
<1>11. CASE StartUpdateCheckpoint(c)
  <2>1. \A r \in KnownReceipts : r \in Nat \ {0}
    BY <1>i DEF KnownReceipts
  <2> QED
    BY Zenon, <1>6, <1>11, <2>1 DEF StartUpdateCheckpoint, Call, CheckpointCall
<1> QED
  BY Zenon, <1>1, <1>2, <1>3, <1>4, <1>5, <1>7, <1>8, <1>9, <1>10, <1>11 DEF StartRequest

-----------------------------------------------------------------------------
(* Commits that change the catalog                                         *)

(* A request that ends leaves the other requests and their proposals alone. *)
LEMMA FinishStep ==
    ASSUME TypeOK, NEW c \in Clients, calls' = [calls EXCEPT ![c] = Idle]
    PROVE  /\ calls' \in [Clients -> Call \cup {Idle}]
           /\ \A d \in Clients : calls'[d] = IF d = c THEN Idle ELSE calls[d]
           /\ \A d \in Clients : Proposed(d)' = IF d = c THEN {} ELSE Proposed(d)
           /\ \A d \in Clients : calls'[d].op # "idle" => calls'[d] = calls[d] /\ d # c
<1>1. /\ calls' \in [Clients -> Call \cup {Idle}]
      /\ \A d \in Clients : calls'[d] = IF d = c THEN Idle ELSE calls[d]
  BY Zenon DEF TypeOK
<1>2. \A d \in Clients : Proposed(d)' = IF d = c THEN {} ELSE Proposed(d)
  BY Zenon, <1>1 DEF Proposed, Idle
<1> QED
  BY Zenon, <1>1, <1>2 DEF Idle

(* A commit that only changes the catalog keeps the invariant when each     *)
(* queue has the incarnation the request captured or one its url already    *)
(* had.                                                                     *)
LEMMA CatalogStep ==
    ASSUME QueueInvariant, NEW c \in Clients, calls' = [calls EXCEPT ![c] = Idle],
           UNCHANGED <<now, messages, cleanup, issued, leases>>,
           catalog' \subseteq QueueCatalogRecord,
           \A q \in catalog' : \/ q.incarnation \in Proposed(c)
                               \/ \E p \in catalog : p.url = q.url /\ p.incarnation = q.incarnation,
           \A p, q \in catalog' :
              (p.name = q.name \/ p.url = q.url \/ p.incarnation = q.incarnation) => p = q
    PROVE  QueueInvariant'
<1>t. TypeOK
  BY Zenon DEF QueueInvariant
<1>c. /\ calls' \in [Clients -> Call \cup {Idle}]
      /\ \A d \in Clients : calls'[d] = IF d = c THEN Idle ELSE calls[d]
      /\ \A d \in Clients : Proposed(d)' = IF d = c THEN {} ELSE Proposed(d)
      /\ \A d \in Clients : calls'[d].op # "idle" => calls'[d] = calls[d] /\ d # c
  BY Zenon, <1>t, FinishStep
<1>1. TypeOK'
  BY Zenon, <1>t, <1>c DEF TypeOK
<1>2. CapturedInPast'
  BY ZenonT(60), <1>c DEF QueueInvariant, CapturedInPast
<1>3. IncarnationsFresh'
  <2>1. \A q \in catalog' : q.incarnation <= issued.incarnation
    BY Zenon DEF QueueInvariant, IncarnationsFresh
  <2>2. \A d \in Clients : \A i \in Proposed(d)' :
            /\ i \in Proposed(d) /\ d # c
            /\ \A q \in catalog' : q.incarnation # i
    BY <1>c DEF QueueInvariant, IncarnationsFresh
  <2> QED
    BY Zenon, <1>c, <2>1, <2>2 DEF QueueInvariant, IncarnationsFresh
<1>4. ReceiptsFresh' /\ ReceiptsUnique'
  BY <1>c DEF QueueInvariant, ReceiptsFresh, ReceiptsUnique
<1>5. RandomIdsFresh'
  BY <1>c DEF QueueInvariant, RandomIdsFresh
<1>6. IdentitiesUnique'
  BY Zenon DEF QueueInvariant, IdentitiesUnique, Key
<1>7. MessagesMatchQueues' /\ MessagesMatchLeases'
  BY DEF QueueInvariant, MessagesMatchQueues, MessagesMatchLeases, IncarnationsFresh, Key
<1>8. ClaimsHold'
  <2>1. \A l \in leases : Reachable(l.incarnation)' => Reachable(l.incarnation)
    BY DEF QueueInvariant, IncarnationsFresh, Reachable
  <2> QED
    BY Zenon, <2>1 DEF QueueInvariant, ClaimsHold, InForce, Key
<1> QED
  BY Zenon, <1>1, <1>2, <1>3, <1>4, <1>5, <1>6, <1>7, <1>8 DEF QueueInvariant

(* create_queue, delete_queue, purge_queue and set_queue_attributes are     *)
(* such commits.                                                            *)
LEMMA CatalogCommitStep ==
    ASSUME QueueInvariant, NEW c \in Clients,
           CreateQueue(c) \/ DeleteQueue(c) \/ PurgeQueue(c) \/ SetQueueAttributes(c)
    PROVE  QueueInvariant'
<1>t. TypeOK /\ IncarnationsFresh /\ IdentitiesUnique
  BY Zenon DEF QueueInvariant
<1>q. catalog \subseteq QueueCatalogRecord
  BY Zenon, <1>t DEF TypeOK
<1>1. CASE CreateQueue(c)
  <2>1. calls[c] \in CreateCall /\ Proposed(c) = {calls[c].queue.incarnation}
    BY Zenon, <1>1, <1>t, CallKinds DEF CreateQueue, Finish, Proposed
  <2>2. calls[c].queue \in QueueCatalogRecord
    BY Zenon, <2>1 DEF CreateCall
  <2>3. \A q \in catalog : q.incarnation # calls[c].queue.incarnation
    BY Zenon, <1>t, <2>1 DEF IncarnationsFresh
  <2>4. catalog' \subseteq catalog \cup {calls[c].queue}
    BY Zenon, <1>1 DEF CreateQueue
  <2>5. \A p, q \in catalog' :
           (p.name = q.name \/ p.url = q.url \/ p.incarnation = q.incarnation) => p = q
    BY SMTT(60), <1>1, <1>t, <2>3 DEF CreateQueue, IdentitiesUnique
  <2>6. catalog' \subseteq QueueCatalogRecord
    BY Zenon, <1>q, <2>2, <2>4
  <2>7. \A q \in catalog' : \/ q.incarnation \in Proposed(c)
                            \/ \E p \in catalog : p.url = q.url /\ p.incarnation = q.incarnation
    BY Zenon, <2>1, <2>4
  <2> QED
    BY Zenon, <1>1, <2>5, <2>6, <2>7, CatalogStep DEF CreateQueue, Finish
<1>2. CASE DeleteQueue(c)
  BY Zenon, <1>2, <1>t, <1>q, CatalogStep DEF DeleteQueue, Finish, IdentitiesUnique
<1>3. CASE PurgeQueue(c)
  <2>1. calls[c] \in PurgeCall /\ Proposed(c) = {calls[c].incarnation}
    BY Zenon, <1>3, <1>t, CallKinds DEF PurgeQueue, Finish, Proposed
  <2>2. calls[c].incarnation \in Nat \ {0}
    BY Zenon, <2>1 DEF PurgeCall
  <2>3. \A q \in catalog' : \E p \in catalog :
           IF p.url = calls[c].url
           THEN /\ q = [p EXCEPT !.incarnation = calls[c].incarnation]
                /\ q.name = p.name /\ q.url = p.url /\ q.attributes = p.attributes
                /\ q.incarnation = calls[c].incarnation
           ELSE q = p
    BY Zenon, <1>3, <1>q DEF PurgeQueue, QueueCatalogRecord
  <2>4. catalog' \subseteq QueueCatalogRecord
    BY SMTT(60), <1>q, <2>2, <2>3 DEF QueueCatalogRecord
  <2>5. \A q \in catalog : q.incarnation # calls[c].incarnation
    BY Zenon, <1>t, <2>1 DEF IncarnationsFresh
  <2>6. \A p, q \in catalog' :
           (p.name = q.name \/ p.url = q.url \/ p.incarnation = q.incarnation) => p = q
    BY <1>t, <2>3, <2>5 DEF IdentitiesUnique
  <2>7. \A q \in catalog' : \/ q.incarnation \in Proposed(c)
                            \/ \E p \in catalog : p.url = q.url /\ p.incarnation = q.incarnation
    BY Zenon, <2>1, <2>3
  <2> QED
    BY Zenon, <1>3, <2>4, <2>6, <2>7, CatalogStep DEF PurgeQueue, Finish
<1>4. CASE SetQueueAttributes(c)
  <2>1. calls[c].supplied \in SuppliedAttributes
    BY Zenon, <1>4, <1>t, CallKinds DEF SetQueueAttributes, Finish, SetAttributesCall
  <2>2. \A a \in Attributes : ExtendAttributes(a, calls[c].supplied) \in Attributes
    BY Zenon, <2>1, QueueAssumption DEF ExtendAttributes, Attributes, Unset
  <2>3. \A q \in catalog' : \E p \in catalog :
           /\ q.name = p.name /\ q.url = p.url /\ q.incarnation = p.incarnation
           /\ IF p.url = calls[c].url
              THEN q = [p EXCEPT !.attributes = ExtendAttributes(@, calls[c].supplied)]
              ELSE q = p
    BY ZenonT(60), <1>4, <1>q DEF SetQueueAttributes, QueueCatalogRecord
  <2>4. catalog' \subseteq QueueCatalogRecord
    BY <1>q, <2>2, <2>3 DEF QueueCatalogRecord
  <2>5. \A p, q \in catalog' :
           (p.name = q.name \/ p.url = q.url \/ p.incarnation = q.incarnation) => p = q
    BY <1>t, <2>3 DEF IdentitiesUnique
  <2>6. \A q \in catalog' : \E p \in catalog : p.url = q.url /\ p.incarnation = q.incarnation
    BY Zenon, <2>3
  <2> QED
    BY Zenon, <1>4, <2>4, <2>5, <2>6, CatalogStep DEF SetQueueAttributes, Finish
<1> QED
  BY Zenon, <1>1, <1>2, <1>3, <1>4

-----------------------------------------------------------------------------
(* Steps that keep the identities of rows and claims                       *)

SameRow(n, m) ==
    /\ n.incarnation = m.incarnation /\ n.id = m.id /\ n.url = m.url
    /\ n.receipt = m.receipt /\ n.expires_at = m.expires_at

SameClaim(k, l) ==
    /\ k.incarnation = l.incarnation /\ k.id = l.id
    /\ k.receipt = l.receipt /\ k.expires_at = l.expires_at

(* A step that adds no message key and no handle keeps the invariant when   *)
(* it keeps ClaimsHold: ended requests, a new turn of the cleanup job,      *)
(* later clock, fewer or changed rows.                                      *)
LEMMA KeepStep ==
    ASSUME QueueInvariant,
           UNCHANGED <<catalog, issued>>,
           now' \in Nat, now <= now',
           calls' \in [Clients -> Call \cup {Idle}],
           \A d \in Clients : calls'[d] = Idle \/ calls'[d] = calls[d],
           cleanup' \in [cursor : Nat \X Nat, at : Int], cleanup'.at <= now' + Skew,
           messages' \subseteq QueueMessageRecord,
           \A n \in messages' : \E m \in messages : SameRow(n, m),
           \A m, n \in messages' : Key(m) = Key(n) => m = n,
           leases' \subseteq Lease,
           \A k \in leases' : \E l \in leases : SameClaim(k, l),
           ClaimsHold'
    PROVE  QueueInvariant'
<1>t. TypeOK /\ now \in Nat
  BY Zenon DEF QueueInvariant, TypeOK
<1>1. TypeOK'
  BY Zenon, <1>t DEF TypeOK
<1>2. \A d \in Clients : calls'[d].op # "idle" => calls'[d] = calls[d]
  BY DEF Idle
<1>3. CapturedInPast'
  <2>1. \A d \in Clients : calls[d].op \in {"send", "publish", "receive"} =>
           calls[d].at \in Int /\ calls[d].at <= now + Skew
    BY Zenon, <1>t, CallKinds DEF QueueInvariant, CapturedInPast, SendCall, PublishCall, ReceiveCall
  <2> QED
    BY <1>t, <1>2, <2>1, QueueAssumption DEF CapturedInPast
<1>4. IncarnationsFresh'
  <2>1. \A d \in Clients : Proposed(d)' \subseteq Proposed(d)
    BY Zenon, <1>2 DEF Proposed, Idle
  <2> QED
    BY <2>1 DEF QueueInvariant, IncarnationsFresh, SameRow, SameClaim
<1>5. ReceiptsFresh'
  BY <1>2 DEF QueueInvariant, ReceiptsFresh, SameRow, SameClaim
<1>6. RandomIdsFresh'
  BY <1>2 DEF QueueInvariant, RandomIdsFresh, SameRow
<1>7. IdentitiesUnique'
  BY Zenon DEF QueueInvariant, IdentitiesUnique
<1>8. ReceiptsUnique'
  <2>1. \A m, n \in messages' : m.receipt = n.receipt /\ m.receipt # NoReceipt => Key(m) = Key(n)
    BY DEF QueueInvariant, ReceiptsUnique, SameRow, Key
  <2> QED
    BY SMTT(60), <1>2, <2>1 DEF QueueInvariant, ReceiptsUnique, SameRow
<1>9. MessagesMatchQueues' /\ MessagesMatchLeases'
  BY DEF QueueInvariant, MessagesMatchQueues, MessagesMatchLeases, SameRow, SameClaim, Key
<1> QED
  BY Zenon, <1>1, <1>3, <1>4, <1>5, <1>6, <1>7, <1>8, <1>9 DEF QueueInvariant

(* Claims hold after a step that leaves the claimed rows their handle,      *)
(* expiry and visibility.                                                   *)
LEMMA ClaimsStayWithRows ==
    ASSUME ClaimsHold, UNCHANGED <<now, catalog, leases>>,
           \A m \in messages : (\E l \in leases : m.receipt = l.receipt) =>
               \E n \in messages' : SameRow(n, m) /\ n.visible_at = m.visible_at
    PROVE  ClaimsHold'
<1> SUFFICES ASSUME NEW l \in leases, InForce(l, now), Reachable(l.incarnation)
             PROVE  \E n \in messages' : /\ Key(n) = Key(l) /\ n.receipt = l.receipt
                                         /\ n.visible_at >= l.until
                                         /\ n.expires_at = l.expires_at
  BY Zenon DEF ClaimsHold, InForce, Reachable, Key
<1>1. PICK m \in messages : /\ Key(m) = Key(l) /\ m.receipt = l.receipt
                            /\ m.visible_at >= l.until /\ m.expires_at = l.expires_at
  BY Zenon DEF ClaimsHold
<1>2. PICK n \in messages' : SameRow(n, m) /\ n.visible_at = m.visible_at
  BY Zenon, <1>1
<1> QED
  BY Zenon, <1>1, <1>2 DEF SameRow, Key

(* A request that ends without a write: abandoned, refused, or its queue is *)
(* missing.                                                                 *)
LEMMA NoEffectStep ==
    ASSUME QueueInvariant, NEW c \in Clients, calls' = [calls EXCEPT ![c] = Idle],
           UNCHANGED <<now, catalog, messages, cleanup, issued, leases>>
    PROVE  QueueInvariant'
<1>1. TypeOK /\ CapturedInPast /\ IdentitiesUnique /\ ClaimsHold
  BY Zenon DEF QueueInvariant
<1>2. ClaimsHold'
  BY Zenon, <1>1 DEF ClaimsHold, InForce, Reachable, Key
<1>3. /\ calls' \in [Clients -> Call \cup {Idle}]
      /\ \A d \in Clients : calls'[d] = Idle \/ calls'[d] = calls[d]
  BY Zenon, <1>1, FinishStep
<1> QED
  BY <1>1, <1>2, <1>3, KeepStep
     DEF TypeOK, CapturedInPast, IdentitiesUnique, SameRow, SameClaim, Key

(* As time passes claims only go out of force.                              *)
LEMMA TickStep ==
    ASSUME QueueInvariant, Tick
    PROVE  QueueInvariant'
<1>1. TypeOK /\ CapturedInPast /\ IdentitiesUnique /\ ClaimsHold
  BY Zenon DEF QueueInvariant
<1>2. now \in Nat /\ now' = now + 1 /\ cleanup'.at <= now' + Skew
  BY <1>1, QueueAssumption DEF Tick, TypeOK, CapturedInPast
<1>3. ClaimsHold'
  <2>1. \A l \in leases' : l \in leases /\ (InForce(l, now)' => InForce(l, now))
    BY <1>1, <1>2, QueueAssumption DEF Tick, InForce, TypeOK, Lease
  <2> QED
    BY Zenon, <1>1, <2>1 DEF Tick, ClaimsHold, Reachable, Key
<1> QED
  BY <1>1, <1>2, <1>3, KeepStep
     DEF Tick, TypeOK, IdentitiesUnique, SameRow, SameClaim, Key

(* execute and defer_unavailable_turn of the cleanup job move no row.       *)
LEMMA TurnStep ==
    ASSUME QueueInvariant, StartCleanup \/ DeferCleanup
    PROVE  QueueInvariant'
<1>1. TypeOK /\ IdentitiesUnique /\ ClaimsHold
  BY Zenon DEF QueueInvariant
<1>2. /\ cleanup' \in [cursor : Nat \X Nat, at : Int] /\ cleanup'.at <= now' + Skew
      /\ UNCHANGED <<now, catalog, messages, calls, issued, leases>>
  <2>1. CASE StartCleanup
    BY Zenon, <1>1, <2>1, ClockReadingsPast DEF StartCleanup, TypeOK
  <2>2. CASE DeferCleanup
    BY <1>1, <2>2, QueueAssumption DEF DeferCleanup, TypeOK, NoTurn
  <2> QED
    BY Zenon, <2>1, <2>2
<1>3. ClaimsHold'
  BY Zenon, <1>1, <1>2 DEF ClaimsHold, InForce, Reachable, Key
<1> QED
  BY <1>1, <1>2, <1>3, KeepStep DEF TypeOK, IdentitiesUnique, SameRow, SameClaim, Key

(* cleanup_queue_messages_page deletes no row of a claim in force: the row  *)
(* is alive on the job's clock, and its incarnation is the current one of   *)
(* its url.                                                                 *)
LEMMA CleanupStep ==
    ASSUME QueueInvariant, CleanupPage
    PROVE  QueueInvariant'
<1>1. TypeOK /\ IdentitiesUnique /\ ClaimsHold /\ CapturedInPast /\ MessagesMatchQueues
  BY Zenon DEF QueueInvariant
<1> PICK page \in SUBSET messages, cursor \in {NoCursor} \cup {Key(m) : m \in messages} :
      /\ messages' = messages \ {m \in page : Stale(m, cleanup.at)}
      /\ cleanup' = [cursor |-> cursor, at |-> NoTurn]
  BY Zenon DEF CleanupPage
<1>u. UNCHANGED <<now, catalog, calls, issued, leases>>
  BY Zenon DEF CleanupPage
<1>2. cursor \in Nat \X Nat
  <2>1. \A m \in messages : m.incarnation \in Nat /\ m.id \in Nat
    BY Zenon, <1>1, QueueAssumption DEF TypeOK, QueueMessageRecord, MessageIds
  <2>2. \A m \in messages : Key(m) \in Nat \X Nat
    BY Zenon, <2>1 DEF Key
  <2> QED
    BY <2>2 DEF NoCursor
<1>3. cleanup' \in [cursor : Nat \X Nat, at : Int] /\ cleanup'.at <= now' + Skew
  BY <1>1, <1>2, <1>u, QueueAssumption DEF TypeOK, NoTurn
<1>4. ClaimsHold'
  <2>1. ASSUME NEW l \in leases, InForce(l, now), Reachable(l.incarnation),
               NEW m \in messages, Key(m) = Key(l), m.expires_at = l.expires_at
        PROVE  ~ Stale(m, cleanup.at)
    <3>1. PICK q \in catalog : q.incarnation = l.incarnation
      BY Zenon, <2>1 DEF Reachable
    <3>2. m.incarnation = l.incarnation /\ q.url = m.url
      BY Zenon, <1>1, <2>1, <3>1 DEF Key, MessagesMatchQueues
    <3>3. m.expires_at > cleanup.at
      BY <1>1, <2>1, QueueAssumption DEF InForce, CapturedInPast, TypeOK, Lease
    <3> QED
      BY <1>1, <3>1, <3>2, <3>3 DEF Stale, Expired, TypeOK, QueueMessageRecord
  <2> QED
    BY Zenon, <1>1, <1>u, <2>1 DEF ClaimsHold, InForce, Reachable, Key
<1> QED
  BY <1>1, <1>u, <1>3, <1>4, KeepStep DEF TypeOK, IdentitiesUnique, SameRow, SameClaim, Key

(* delete_message, change_message_visibility and                            *)
(* update_message_snapshot_checkpoint act only on the claim whose handle    *)
(* they present.                                                            *)
LEMMA ReceiptCommitStep ==
    ASSUME QueueInvariant, NEW c \in Clients,
           DeleteMessage(c) \/ ChangeMessageVisibility(c) \/ UpdateCheckpoint(c)
    PROVE  QueueInvariant'
<1>t. /\ TypeOK /\ IdentitiesUnique /\ ReceiptsUnique /\ CapturedInPast
      /\ MessagesMatchLeases /\ ClaimsHold
  BY Zenon DEF QueueInvariant
<1>u. calls' = [calls EXCEPT ![c] = Idle] /\ UNCHANGED <<now, catalog, cleanup, issued>>
  BY Zenon DEF DeleteMessage, ChangeMessageVisibility, UpdateCheckpoint, Finish
<1>c. /\ calls' \in [Clients -> Call \cup {Idle}]
      /\ \A d \in Clients : calls'[d] = Idle \/ calls'[d] = calls[d]
  BY Zenon, <1>t, <1>u, FinishStep
<1>m. messages \subseteq QueueMessageRecord /\ leases \subseteq Lease /\ now \in Nat
  BY Zenon, <1>t DEF TypeOK
<1>k. ASSUME messages' \subseteq QueueMessageRecord,
             \A n \in messages' : \E m \in messages : SameRow(n, m),
             \A m, n \in messages' : Key(m) = Key(n) => m = n,
             leases' \subseteq Lease,
             \A k \in leases' : \E l \in leases : SameClaim(k, l),
             ClaimsHold'
      PROVE  QueueInvariant'
  BY <1>t, <1>u, <1>c, <1>k, KeepStep DEF TypeOK, CapturedInPast
<1>1. CASE UNCHANGED <<messages, leases>>
  BY Zenon, <1>1, <1>u, NoEffectStep
<1>2. ASSUME DeleteMessage(c), ~ UNCHANGED <<messages, leases>> PROVE QueueInvariant'
  <2> PICK q \in catalog :
        LET found == ByReceipt(q, calls[c].receipt) IN
        /\ messages' = messages \ found
        /\ leases' = {l \in leases : \A m \in found : l.receipt # m.receipt}
    BY Zenon, <1>2 DEF DeleteMessage
  <2>1. ClaimsHold'
    BY <1>t, <1>u DEF ClaimsHold, InForce, Reachable, Key
  <2> QED
    BY SMTT(20), <1>t, <1>m, <1>k, <2>1 DEF IdentitiesUnique, SameRow, SameClaim
<1>3. ASSUME ChangeMessageVisibility(c), ~ UNCHANGED <<messages, leases>> PROVE QueueInvariant'
  <2> DEFINE at == calls[c].visible_at
             r == calls[c].receipt
  <2>0. at \in Int /\ r \in Nat \ {0}
    BY Zenon, <1>3, <1>t, CallKinds DEF ChangeMessageVisibility, Finish, ChangeVisibilityCall
  <2> PICK q \in catalog :
        LET found == ByReceipt(q, r) IN
        /\ messages' = (messages \ found) \cup {[m EXCEPT !.visible_at = at] : m \in found}
        /\ leases' = {IF l.receipt = r /\ found # {} THEN [l EXCEPT !.until = at]
                      ELSE l : l \in leases}
    BY Zenon, <1>3 DEF ChangeMessageVisibility
  <2> DEFINE found == ByReceipt(q, r)
  <2>1. \A m \in found : m \in messages /\ m.receipt = r
    BY Zenon DEF ByReceipt
  <2>2. ASSUME NEW m \in messages
        PROVE  LET n == [m EXCEPT !.visible_at = at] IN
               n \in QueueMessageRecord /\ SameRow(n, m) /\ n.visible_at = at
    BY Zenon, <1>m, <2>0 DEF QueueMessageRecord, SameRow
  <2>3. ASSUME NEW l \in leases
        PROVE  LET k == [l EXCEPT !.until = at] IN
               k \in Lease /\ SameClaim(k, l) /\ k.until = at
    BY Zenon, <1>m, <2>0 DEF Lease, SameClaim
  <2>4. /\ messages' \subseteq QueueMessageRecord
        /\ \A n \in messages' : \E m \in messages :
              SameRow(n, m) /\ (IF m \in found THEN n = [m EXCEPT !.visible_at = at] ELSE n = m)
    BY ZenonT(60), <1>m, <2>1, <2>2 DEF SameRow
  <2>5. \A m, n \in messages' : Key(m) = Key(n) => m = n
    BY <1>t, <2>4 DEF IdentitiesUnique, SameRow, Key
  <2>6. /\ leases' \subseteq Lease
        /\ \A k \in leases' : \E l \in leases : SameClaim(k, l)
    <3> SUFFICES ASSUME NEW k \in leases'
                 PROVE  k \in Lease /\ \E l \in leases : SameClaim(k, l)
      BY Zenon
    <3>1. PICK l \in leases : k = [l EXCEPT !.until = at] \/ k = l
      BY Zenon
    <3>2. l \in Lease /\ SameClaim(l, l)
      BY Zenon, <1>m DEF SameClaim
    <3> QED
      BY Zenon, <2>3, <3>1, <3>2
  <2>7. ClaimsHold'
    <3> SUFFICES ASSUME NEW k \in leases', InForce(k, now), Reachable(k.incarnation)
                 PROVE  \E n \in messages' : /\ Key(n) = Key(k) /\ n.receipt = k.receipt
                                             /\ n.visible_at >= k.until
                                             /\ n.expires_at = k.expires_at
      BY Zenon, <1>u DEF ClaimsHold, InForce, Reachable, Key
    <3>1. CASE k \in leases /\ ~ (k.receipt = r /\ found # {})
      <4>1. PICK m \in messages : /\ Key(m) = Key(k) /\ m.receipt = k.receipt
                                  /\ m.visible_at >= k.until /\ m.expires_at = k.expires_at
        BY Zenon, <1>t, <3>1 DEF ClaimsHold
      <4> QED
        BY Zenon, <2>1, <3>1, <4>1
    <3>2. ASSUME NEW l \in leases, k = [l EXCEPT !.until = at], l.receipt = r, found # {}
          PROVE  \E n \in messages' : /\ Key(n) = Key(k) /\ n.receipt = k.receipt
                                      /\ n.visible_at >= k.until /\ n.expires_at = k.expires_at
      <4>1. PICK m \in found : TRUE
        BY Zenon, <3>2
      <4>2. Key(m) = Key(l) /\ m.expires_at = l.expires_at
        BY Zenon, <1>t, <2>1, <3>2, <4>1 DEF MessagesMatchLeases
      <4> DEFINE n == [m EXCEPT !.visible_at = at]
      <4>3. n \in messages'
        BY SMTT(60), <4>1
      <4>4. SameRow(n, m) /\ n.visible_at = at
        BY Zenon, <2>1, <2>2
      <4>5. SameClaim(k, l) /\ k.until = at
        BY Zenon, <2>3, <3>2
      <4>6. Key(n) = Key(k) /\ n.receipt = k.receipt /\ n.expires_at = k.expires_at
        BY Zenon, <2>1, <3>2, <4>2, <4>4, <4>5 DEF SameRow, SameClaim, Key
      <4>7. n.visible_at >= k.until
        BY <2>0, <4>4, <4>5
      <4> HIDE DEF n
      <4> QED
        BY Zenon, <4>3, <4>6, <4>7
    <3> QED
      BY Zenon, <3>1, <3>2
  <2> QED
    BY Zenon, <1>k, <2>4, <2>5, <2>6, <2>7
<1>4. ASSUME UpdateCheckpoint(c), ~ UNCHANGED <<messages, leases>> PROVE QueueInvariant'
  <2> DEFINE data == calls[c].data
  <2>0. data \in Nat
    BY Zenon, <1>4, <1>t, CallKinds, QueueAssumption DEF UpdateCheckpoint, Finish, CheckpointCall
  <2> PICK q \in catalog :
        LET found == ByReceipt(q, calls[c].receipt) IN
        messages' = (messages \ found) \cup {[m EXCEPT !.checkpoint = data] : m \in found}
    BY Zenon, <1>4 DEF UpdateCheckpoint
  <2> DEFINE found == ByReceipt(q, calls[c].receipt)
  <2>u. leases' = leases
    BY Zenon, <1>4 DEF UpdateCheckpoint
  <2>1. \A m \in found : m \in messages
    BY Zenon DEF ByReceipt
  <2>2. ASSUME NEW m \in messages
        PROVE  LET n == [m EXCEPT !.checkpoint = data] IN
               n \in QueueMessageRecord /\ SameRow(n, m) /\ n.visible_at = m.visible_at
    BY Zenon, <1>m, <2>0 DEF QueueMessageRecord, SameRow
  <2>4. /\ messages' \subseteq QueueMessageRecord
        /\ \A n \in messages' : \E m \in messages :
              SameRow(n, m) /\ (IF m \in found THEN n = [m EXCEPT !.checkpoint = data] ELSE n = m)
    BY ZenonT(60), <1>m, <2>1, <2>2 DEF SameRow
  <2>5. \A m, n \in messages' : Key(m) = Key(n) => m = n
    BY <1>t, <2>4 DEF IdentitiesUnique, SameRow, Key
  <2>6. \A m \in messages : \E n \in messages' : SameRow(n, m) /\ n.visible_at = m.visible_at
    <3> TAKE m \in messages
    <3>1. CASE m \in found
      BY Zenon, <2>2, <3>1
    <3>2. CASE m \notin found
      BY Zenon, <3>2 DEF SameRow
    <3> QED
      BY Zenon, <3>1, <3>2
  <2>7. ClaimsHold'
    BY Zenon, <1>t, <1>u, <2>u, <2>6, ClaimsStayWithRows
  <2> QED
    BY Zenon, <1>m, <1>k, <2>u, <2>4, <2>5, <2>7 DEF SameClaim
<1> QED
  BY Zenon, <1>1, <1>2, <1>3, <1>4


-----------------------------------------------------------------------------
(* Commits that add rows                                                   *)

(* A commit that adds rows without a handle, to a queue's current           *)
(* incarnation, under keys that are not taken, keeps the invariant.         *)
LEMMA AddRowsStep ==
    ASSUME QueueInvariant, NEW c \in Clients, calls' = [calls EXCEPT ![c] = Idle],
           UNCHANGED <<now, catalog, cleanup, issued, leases>>,
           messages' \subseteq QueueMessageRecord,
           \A n \in messages' : n \in messages \/
              /\ n.receipt = NoReceipt
              /\ \E q \in catalog : n.incarnation = q.incarnation /\ n.url = q.url
              /\ n.id \in PublishIds \/ (calls[c].op = "send" /\ n.id \in DOMAIN calls[c].entries),
           \A m, n \in messages' : Key(m) = Key(n) => m = n,
           ClaimsHold'
    PROVE  QueueInvariant'
<1>t. TypeOK /\ now \in Nat /\ issued.receipt \in Nat
  BY ZenonT(60) DEF QueueInvariant, TypeOK
<1>c. /\ calls' \in [Clients -> Call \cup {Idle}]
      /\ \A d \in Clients : calls'[d] = IF d = c THEN Idle ELSE calls[d]
      /\ \A d \in Clients : Proposed(d)' = IF d = c THEN {} ELSE Proposed(d)
      /\ \A d \in Clients : calls'[d].op # "idle" => calls'[d] = calls[d] /\ d # c
  BY Zenon, <1>t, FinishStep
<1>1. TypeOK'
  BY Zenon, <1>t, <1>c DEF TypeOK
<1>2. CapturedInPast'
  BY Zenon, <1>c DEF QueueInvariant, CapturedInPast
<1>3. IncarnationsFresh'
  <2>1. IncarnationsFresh
    BY Zenon DEF QueueInvariant
  <2>u. catalog' = catalog /\ issued' = issued /\ leases' = leases
    BY Zenon
  <2>m. \A n \in messages' : n \in messages \/ \E q \in catalog : n.incarnation = q.incarnation
    BY Zenon
  <2>2. ASSUME NEW d \in Clients, NEW i \in Proposed(d)' PROVE i \in Proposed(d)
    BY Zenon, <1>c, <2>2
  <2>3. ASSUME NEW d \in Clients, NEW i \in Proposed(d)', NEW e \in Clients, i \in Proposed(e)'
        PROVE  d = e
    BY Zenon, <2>1, <2>2, <2>3 DEF IncarnationsFresh
  <2>4. ASSUME NEW d \in Clients, NEW i \in Proposed(d)'
        PROVE  /\ i <= issued'.incarnation
               /\ \A q \in catalog' : q.incarnation # i
               /\ \A m \in messages' : m.incarnation # i
               /\ \A l \in leases' : l.incarnation # i
    <3>1. i \in Proposed(d)
      BY Zenon, <2>2, <2>4
    <3>2. /\ i <= issued.incarnation
          /\ \A q \in catalog : q.incarnation # i
          /\ \A m \in messages : m.incarnation # i
          /\ \A l \in leases : l.incarnation # i
      BY Zenon, <2>1, <3>1 DEF IncarnationsFresh
    <3>3. \A m \in messages' : m.incarnation # i
      BY Zenon, <2>m, <3>2
    <3> QED
      BY Zenon, <2>u, <3>2, <3>3
  <2>5. /\ \A q \in catalog' : q.incarnation <= issued'.incarnation
        /\ \A m \in messages' : m.incarnation <= issued'.incarnation
        /\ \A l \in leases' : l.incarnation <= issued'.incarnation
    <3>1. /\ \A q \in catalog : q.incarnation <= issued.incarnation
          /\ \A m \in messages : m.incarnation <= issued.incarnation
          /\ \A l \in leases : l.incarnation <= issued.incarnation
      BY Zenon, <2>1 DEF IncarnationsFresh
    <3>2. \A m \in messages' : m.incarnation <= issued.incarnation
      BY Zenon, <2>m, <3>1
    <3> QED
      BY Zenon, <2>u, <3>1, <3>2
  <2> QED
    BY Zenon, <2>3, <2>4, <2>5 DEF IncarnationsFresh
<1>4. ReceiptsFresh' /\ ReceiptsUnique'
  <2>1. \A d \in Clients : calls[d].op = "receive" => \A r \in calls[d].receipts : r # NoReceipt
    BY Zenon, <1>t, CallKinds DEF ReceiveCall, NoReceipt
  <2>2. NoReceipt <= issued.receipt
    BY <1>t DEF NoReceipt
  <2> QED
    BY <1>c, <2>1, <2>2 DEF QueueInvariant, ReceiptsFresh, ReceiptsUnique
<1>5. RandomIdsFresh'
  <2>1. \A id \in issued.ids : id \in RandomIds /\ id \notin PublishIds
    BY Zenon, <1>t, QueueAssumption DEF TypeOK
  <2>2. \A m \in messages' : m.id \in RandomIds => m.id \in issued.ids
    BY Zenon, <2>1, QueueAssumption DEF QueueInvariant, RandomIdsFresh
  <2>3. ASSUME NEW d \in Clients, d # c, calls[d].op = "send", NEW id \in DOMAIN calls[d].entries
        PROVE  /\ id \in issued.ids
               /\ \A m \in messages' : m.id # id
               /\ \A e \in Clients : calls[e].op = "send" /\ id \in DOMAIN calls[e].entries => d = e
    BY <2>1, <2>3 DEF QueueInvariant, RandomIdsFresh
  <2>4. \A d \in Clients : calls'[d].op = "send" => calls'[d] = calls[d] /\ d # c
    BY Zenon, <1>c
  <2> QED
    BY <2>2, <2>3, <2>4 DEF RandomIdsFresh
<1>6. IdentitiesUnique'
  BY Zenon DEF QueueInvariant, IdentitiesUnique
<1>7. MessagesMatchQueues'
  BY DEF QueueInvariant, MessagesMatchQueues, IdentitiesUnique
<1>8. MessagesMatchLeases'
  <2>1. \A l \in leases : l.receipt # NoReceipt
    BY Zenon, <1>t DEF TypeOK, Lease, NoReceipt
  <2> QED
    BY ZenonT(60), <2>1 DEF QueueInvariant, MessagesMatchLeases, Key
<1> QED
  BY Zenon, <1>1, <1>2, <1>3, <1>4, <1>5, <1>6, <1>7, <1>8 DEF QueueInvariant

(* The row QueueSendPolicy::prepare_message builds.                         *)
LEMMA PreparedRow ==
    ASSUME NEW q \in QueueCatalogRecord, NEW id \in MessageIds, NEW entry \in Entry,
           NEW at \in Int
    PROVE  LET n == PrepareMessage(q, id, entry, at) IN
           /\ n \in QueueMessageRecord
           /\ n.incarnation = q.incarnation /\ n.url = q.url /\ n.id = id
           /\ n.receipt = NoReceipt
<1>1. /\ q.incarnation \in Nat \ {0} /\ q.url \in Urls
      /\ q.attributes.delay \in Nat /\ q.attributes.retention \in Nat
  BY Zenon DEF QueueCatalogRecord, Attributes
<1>2. entry.body \in Bodies /\ (entry.delay = Unset \/ entry.delay \in Nat)
  BY Zenon, QueueAssumption DEF Entry
<1>3. at + (IF entry.delay = Unset THEN q.attributes.delay ELSE entry.delay) \in Int
  BY <1>1, <1>2
<1> QED
  BY SMTT(60), <1>1, <1>2, <1>3 DEF PrepareMessage, QueueMessageRecord, NoReceipt, NoCheckpoint

(* send_messages writes rows under random ids that no row has.              *)
LEMMA SendStep ==
    ASSUME QueueInvariant, NEW c \in Clients, SendMessages(c)
    PROVE  QueueInvariant'
<1> DEFINE call == calls[c]
<1>t. TypeOK /\ IdentitiesUnique /\ RandomIdsFresh /\ ClaimsHold
  BY Zenon DEF QueueInvariant
<1>u. /\ calls[c].op = "send" /\ calls' = [calls EXCEPT ![c] = Idle]
      /\ UNCHANGED <<now, catalog, cleanup, issued, leases>>
  BY Zenon DEF SendMessages, Finish
<1>1. /\ call.at \in Int /\ DOMAIN call.entries \subseteq RandomIds
      /\ \A id \in DOMAIN call.entries : call.entries[id] \in Entry
  <2>1. call \in SendCall
    BY Zenon, <1>t, <1>u, CallKinds
  <2>2. PICK ids \in SUBSET RandomIds : call.entries \in [ids -> Entry]
    BY Zenon, <2>1 DEF SendCall
  <2> QED
    BY Zenon, <2>1, <2>2 DEF SendCall
<1>2. /\ \A m \in messages : m \in messages'
      /\ \A n \in messages' : n \in messages \/
            \E q \in catalog, id \in DOMAIN call.entries :
               n = PrepareMessage(q, id, call.entries[id], call.at) /\ q.url = call.url
  BY SMTT(60) DEF SendMessages
<1>3. \A n \in messages' : n \in messages \/
         /\ n \in QueueMessageRecord /\ n.receipt = NoReceipt
         /\ \E q \in catalog, id \in DOMAIN call.entries :
               /\ n.incarnation = q.incarnation /\ n.url = q.url /\ n.id = id
               /\ n = PrepareMessage(q, id, call.entries[id], call.at) /\ q.url = call.url
  <2> SUFFICES ASSUME NEW n \in messages', n \notin messages
               PROVE  /\ n \in QueueMessageRecord /\ n.receipt = NoReceipt
                      /\ \E q \in catalog, id \in DOMAIN call.entries :
                            /\ n.incarnation = q.incarnation /\ n.url = q.url /\ n.id = id
                            /\ n = PrepareMessage(q, id, call.entries[id], call.at)
                            /\ q.url = call.url
    BY Zenon
  <2>1. PICK q \in catalog, id \in DOMAIN call.entries :
           n = PrepareMessage(q, id, call.entries[id], call.at) /\ q.url = call.url
    BY Zenon, <1>2
  <2>2. q \in QueueCatalogRecord /\ id \in MessageIds /\ call.entries[id] \in Entry
    BY Zenon, <1>t, <1>1, <2>1 DEF TypeOK, MessageIds
  <2>3. /\ n \in QueueMessageRecord /\ n.receipt = NoReceipt
        /\ n.incarnation = q.incarnation /\ n.url = q.url /\ n.id = id
    <3> DEFINE entry == call.entries[id]
               at == call.at
    <3>1. entry \in Entry /\ at \in Int
      BY Zenon, <1>1, <2>2
    <3>2. n = PrepareMessage(q, id, entry, at)
      BY Zenon, <2>1
    <3> HIDE DEF entry, at
    <3>3. LET w == PrepareMessage(q, id, entry, at) IN
          /\ w \in QueueMessageRecord
          /\ w.incarnation = q.incarnation /\ w.url = q.url /\ w.id = id
          /\ w.receipt = NoReceipt
      BY Zenon, <2>2, <3>1, PreparedRow
    <3> QED
      BY Zenon, <3>2, <3>3
  <2> QED
    BY Zenon, <2>1, <2>3
<1>4. \A m, n \in messages' : Key(m) = Key(n) => m = n
  <2> SUFFICES ASSUME NEW m \in messages', NEW n \in messages', m.incarnation = n.incarnation,
                      m.id = n.id
               PROVE  m = n
    BY Zenon DEF Key
  <2>1. \A o \in messages : o.id \notin DOMAIN call.entries
    BY ZenonT(60), <1>t, <1>u DEF RandomIdsFresh
  <2> QED
    BY <1>t, <1>3, <2>1 DEF IdentitiesUnique, Key
<1>5. ClaimsHold'
  BY Zenon, <1>t, <1>u, <1>2, ClaimsStayWithRows DEF SameRow
<1>6. messages' \subseteq QueueMessageRecord
  BY Zenon, <1>t, <1>3 DEF TypeOK
<1>7. \A n \in messages' : n \in messages \/
         /\ n.receipt = NoReceipt
         /\ \E q \in catalog : n.incarnation = q.incarnation /\ n.url = q.url
         /\ n.id \in DOMAIN call.entries
  BY Zenon, <1>3
<1> QED
  BY Zenon, <1>u, <1>4, <1>5, <1>6, <1>7, AddRowsStep

(* publish_message rewrites a row only after it expired on the publisher's  *)
(* clock, when no claim on it is in force.                                  *)
LEMMA PublishStep ==
    ASSUME QueueInvariant, NEW c \in Clients, PublishMessage(c)
    PROVE  QueueInvariant'
<1> DEFINE call == calls[c]
<1>t. TypeOK /\ IdentitiesUnique /\ CapturedInPast /\ ClaimsHold
  BY Zenon DEF QueueInvariant
<1>u. /\ calls[c].op = "publish" /\ calls' = [calls EXCEPT ![c] = Idle]
      /\ UNCHANGED <<now, catalog, cleanup, issued, leases>>
  BY Zenon DEF PublishMessage, Finish
<1>1. call.at \in Int /\ call.id \in PublishIds /\ call.entry \in Entry /\ call.at <= now + Skew
  BY Zenon, <1>t, <1>u, CallKinds DEF PublishCall, CapturedInPast
<1>2. CASE UNCHANGED messages
  BY Zenon, <1>2, <1>u, NoEffectStep
<1>3. ASSUME NEW q \in catalog,
             LET previous == {m \in messages : Key(m) = <<q.incarnation, call.id>>} IN
             /\ \A m \in previous : ~ KeepsPublished(m, call)
             /\ messages' = (messages \ previous)
                               \cup {PrepareMessage(q, call.id, call.entry, call.at)}
      PROVE  QueueInvariant'
  <2> DEFINE previous == {m \in messages : Key(m) = <<q.incarnation, call.id>>}
             row == PrepareMessage(q, call.id, call.entry, call.at)
  <2>1. /\ row \in QueueMessageRecord /\ row.receipt = NoReceipt
        /\ row.incarnation = q.incarnation /\ row.url = q.url /\ row.id = call.id
    BY SMTT(60), <1>t, <1>1, PreparedRow DEF TypeOK, MessageIds
  <2>2. messages' = (messages \ previous) \cup {row}
    BY Zenon, <1>3
  <2> HIDE DEF row
  <2>3. \A m, n \in messages' : Key(m) = Key(n) => m = n
    BY SMTT(60), <1>t, <2>1, <2>2 DEF IdentitiesUnique, Key
  <2>4. ClaimsHold'
    <3> SUFFICES ASSUME NEW l \in leases, InForce(l, now), Reachable(l.incarnation)
                 PROVE  \E n \in messages' : /\ Key(n) = Key(l) /\ n.receipt = l.receipt
                                             /\ n.visible_at >= l.until
                                             /\ n.expires_at = l.expires_at
      BY Zenon, <1>u DEF ClaimsHold, InForce, Reachable, Key
    <3>1. PICK m \in messages : /\ Key(m) = Key(l) /\ m.receipt = l.receipt
                                /\ m.visible_at >= l.until /\ m.expires_at = l.expires_at
      BY Zenon, <1>t DEF ClaimsHold
    <3>2. m.expires_at > call.at
      BY SMTT(60), <1>t, <1>1, <3>1, QueueAssumption DEF InForce, TypeOK, Lease
    <3>3. KeepsPublished(m, call)
      BY <1>t, <1>1, <3>2 DEF KeepsPublished, Expired, TypeOK, QueueMessageRecord
    <3>4. m \notin previous
      BY Zenon, <1>3, <3>3
    <3> QED
      BY Zenon, <2>2, <3>1, <3>4
  <2>5. \A n \in messages' : n \in messages \/ n = row
    BY Zenon, <2>2
  <2>6. messages' \subseteq QueueMessageRecord
    BY Zenon, <1>t, <2>1, <2>5 DEF TypeOK
  <2> QED
    BY Zenon, <1>1, <1>u, <2>1, <2>3, <2>4, <2>5, <2>6, AddRowsStep
<1> QED
  BY Zenon, <1>2, <1>3 DEF PublishMessage

(* The row plan_claims writes: only count, handle and visibility change.    *)
LEMMA ClaimedRow ==
    ASSUME NEW m \in QueueMessageRecord, NEW r \in Nat, NEW t \in Int
    PROVE  /\ Claimed(m, r, t) \in QueueMessageRecord
           /\ Claimed(m, r, t).incarnation = m.incarnation /\ Claimed(m, r, t).id = m.id
           /\ Claimed(m, r, t).url = m.url /\ Claimed(m, r, t).body = m.body
           /\ Claimed(m, r, t).count = m.count + 1
           /\ Claimed(m, r, t).expires_at = m.expires_at
           /\ Claimed(m, r, t).receipt = r /\ Claimed(m, r, t).visible_at = t
<1>1. m.count \in Nat /\ m.count + 1 \in Nat
  BY DEF QueueMessageRecord
<1> QED
  BY Zenon, <1>1 DEF Claimed, QueueMessageRecord

(* What a claim leaves of a row, for every row.                             *)
LEMMA ClaimedKeeps ==
    \A m \in QueueMessageRecord, r \in Nat, t \in Int :
        /\ Claimed(m, r, t).incarnation = m.incarnation /\ Claimed(m, r, t).id = m.id
        /\ Claimed(m, r, t).body = m.body /\ Claimed(m, r, t).expires_at = m.expires_at
        /\ Claimed(m, r, t).count = m.count + 1
BY ClaimedRow

(* A page of rows due at time at, its live rows, the handle and the new       *)
(* record of each of them, and what the commit of their claims leaves.      *)
ClaimedPage(c, page, live, handle, claim, at, until) ==
    /\ page \subseteq messages /\ live \subseteq page
    /\ \A m \in page : m.visible_at <= at
    /\ \A m \in live : handle[m] \in calls[c].receipts
    /\ \A m, n \in live : handle[m] = handle[n] => m = n
    /\ \A m \in live :
          /\ claim[m] \in QueueMessageRecord
          /\ claim[m].incarnation = m.incarnation /\ claim[m].id = m.id
          /\ claim[m].url = m.url /\ claim[m].expires_at = m.expires_at
          /\ claim[m].receipt = handle[m] /\ claim[m].visible_at = until
    /\ \A n \in messages' : (n \in messages /\ n \notin page) \/ \E m \in live : n = claim[m]
    /\ \A m \in live : claim[m] \in messages'
    /\ \A m \in messages : m \notin page => m \in messages'
    /\ \A l \in leases' : l \in leases \/ \E m \in live :
          /\ l.incarnation = m.incarnation /\ l.id = m.id /\ l.receipt = handle[m]
          /\ l.until = until /\ l.expires_at = m.expires_at /\ l \in Lease

(* Claims of due rows under handles nobody else has: a row of a claim in     *)
(* force is not due on any node's clock.                                    *)
LEMMA ClaimStep ==
    ASSUME QueueInvariant, NEW c \in Clients,
           calls[c].op = "receive", calls' = [calls EXCEPT ![c] = Idle],
           UNCHANGED <<now, catalog, cleanup, issued>>,
           NEW at \in Int, at <= now + Skew, NEW until \in Int,
           NEW page, NEW live, NEW handle, NEW claim,
           ClaimedPage(c, page, live, handle, claim, at, until)
    PROVE  QueueInvariant'
<1>a. /\ page \subseteq messages /\ live \subseteq page
      /\ \A m \in page : m.visible_at <= at
  BY ZenonT(60) DEF ClaimedPage
<1>h. /\ \A m \in live : handle[m] \in calls[c].receipts
      /\ \A m, n \in live : handle[m] = handle[n] => m = n
  BY Zenon DEF ClaimedPage
<1>r. \A m \in live :
         /\ claim[m] \in QueueMessageRecord
         /\ claim[m].incarnation = m.incarnation /\ claim[m].id = m.id
         /\ claim[m].url = m.url /\ claim[m].expires_at = m.expires_at
         /\ claim[m].receipt = handle[m] /\ claim[m].visible_at = until
  BY Zenon DEF ClaimedPage
<1>o. \A n \in messages' : (n \in messages /\ n \notin page) \/ \E m \in live : n = claim[m]
  BY Zenon DEF ClaimedPage
<1>w. /\ \A m \in live : claim[m] \in messages'
      /\ \A m \in messages : m \notin page => m \in messages'
  BY Zenon DEF ClaimedPage
<1>g. \A l \in leases' : l \in leases \/ \E m \in live :
         /\ l.incarnation = m.incarnation /\ l.id = m.id /\ l.receipt = handle[m]
         /\ l.until = until /\ l.expires_at = m.expires_at /\ l \in Lease
  BY Zenon DEF ClaimedPage
<1>t. /\ TypeOK /\ CapturedInPast /\ IncarnationsFresh /\ ReceiptsFresh /\ RandomIdsFresh
      /\ IdentitiesUnique /\ ReceiptsUnique /\ MessagesMatchQueues /\ MessagesMatchLeases
      /\ ClaimsHold
  BY Zenon DEF QueueInvariant
<1>c. /\ calls' \in [Clients -> Call \cup {Idle}]
      /\ \A d \in Clients : Proposed(d)' = IF d = c THEN {} ELSE Proposed(d)
      /\ \A d \in Clients : calls'[d].op # "idle" => calls'[d] = calls[d] /\ d # c
  BY Zenon, <1>t, FinishStep
<1>n. \A n \in messages' : \E m \in messages :
         /\ n.incarnation = m.incarnation /\ n.id = m.id /\ n.url = m.url
         /\ n.receipt = m.receipt \/ n.receipt \in calls[c].receipts
  BY SMTT(60), <1>a, <1>h, <1>r, <1>o
<1>l. \A l \in leases' : l \in leases \/ \E m \in messages :
         l.incarnation = m.incarnation /\ l.receipt \in calls[c].receipts
  BY ZenonT(60), <1>a, <1>h, <1>g
<1>1. TypeOK'
  <2>1. messages' \subseteq QueueMessageRecord /\ leases' \subseteq Lease
    BY SMTT(60), <1>t, <1>r, <1>o, <1>g DEF TypeOK
  <2> QED
    BY Zenon, <1>t, <1>c, <2>1 DEF TypeOK
<1>2. CapturedInPast'
  BY Zenon, <1>t, <1>c DEF CapturedInPast
<1>3. IncarnationsFresh'
  <2>1. /\ \A n \in messages' : \E m \in messages : n.incarnation = m.incarnation
        /\ \A l \in leases' : l \in leases \/ \E m \in messages : l.incarnation = m.incarnation
    BY Zenon, <1>n, <1>l
  <2>2. /\ \A q \in catalog' : q.incarnation <= issued'.incarnation
        /\ \A m \in messages' : m.incarnation <= issued'.incarnation
        /\ \A l \in leases' : l.incarnation <= issued'.incarnation
    BY Zenon, <1>t, <2>1 DEF IncarnationsFresh
  <2>3. ASSUME NEW d \in Clients, NEW i \in Proposed(d)'
        PROVE  /\ i <= issued'.incarnation
               /\ \A q \in catalog' : q.incarnation # i
               /\ \A m \in messages' : m.incarnation # i
               /\ \A l \in leases' : l.incarnation # i
               /\ \A e \in Clients : i \in Proposed(e)' => d = e
    <3>1. i \in Proposed(d) BY Zenon, <1>c, <2>3
    <3>2. /\ i <= issued.incarnation
          /\ \A q \in catalog : q.incarnation # i
          /\ \A m \in messages : m.incarnation # i
          /\ \A l \in leases : l.incarnation # i
          /\ \A e \in Clients : i \in Proposed(e) => d = e
      BY Zenon, <1>t, <3>1 DEF IncarnationsFresh
    <3>3. \A e \in Clients : i \in Proposed(e)' => i \in Proposed(e) BY Zenon, <1>c
    <3> QED
      BY Zenon, <2>1, <3>2, <3>3
  <2> QED
    BY Zenon, <2>2, <2>3 DEF IncarnationsFresh
<1>4. ReceiptsFresh'
  <2>1. \A r \in calls[c].receipts :
           /\ r <= issued.receipt
           /\ \A d \in Clients : calls[d].op = "receive" /\ r \in calls[d].receipts => c = d
    BY Zenon, <1>t DEF ReceiptsFresh
  <2>2. /\ \A m \in messages' : m.receipt <= issued'.receipt
        /\ \A l \in leases' : l.receipt <= issued'.receipt
    BY ZenonT(60), <1>t, <1>n, <1>l, <2>1 DEF ReceiptsFresh
  <2>3. ASSUME NEW d \in Clients, calls'[d].op = "receive", NEW r \in calls'[d].receipts
        PROVE  /\ r <= issued'.receipt
               /\ \A m \in messages' : m.receipt # r
               /\ \A l \in leases' : l.receipt # r
               /\ \A e \in Clients : calls'[e].op = "receive" /\ r \in calls'[e].receipts => d = e
    <3>1. calls'[d] = calls[d] /\ d # c BY Zenon, <1>c, <2>3
    <3>2. /\ r <= issued.receipt
          /\ \A m \in messages : m.receipt # r
          /\ \A l \in leases : l.receipt # r
          /\ \A e \in Clients : calls[e].op = "receive" /\ r \in calls[e].receipts => d = e
      BY Zenon, <1>t, <2>3, <3>1 DEF ReceiptsFresh
    <3>3. r \notin calls[c].receipts BY Zenon, <3>1, <3>2
    <3>4. \A e \in Clients : calls'[e].op = "receive" => calls'[e] = calls[e] BY Zenon, <1>c
    <3> QED
      BY ZenonT(60), <1>n, <1>l, <3>2, <3>3, <3>4
  <2> QED
    BY Zenon, <2>2, <2>3 DEF ReceiptsFresh
<1>5. RandomIdsFresh'
  <2>1. \A d \in Clients : calls'[d].op = "send" => calls'[d] = calls[d] BY Zenon, <1>c
  <2> QED
    BY SMTT(60), <1>t, <1>n, <2>1 DEF RandomIdsFresh
<1>6. IdentitiesUnique'
  <2>1. ASSUME NEW m \in messages', NEW n \in messages', Key(m) = Key(n)
        PROVE  m = n
    <3>1. PICK k \in messages :
               Key(k) = Key(m) /\ (IF k \in page THEN k \in live /\ m = claim[k] ELSE m = k)
      BY SMTT(60), <1>a, <1>r, <1>o DEF Key
    <3>2. PICK o \in messages :
               Key(o) = Key(n) /\ (IF o \in page THEN o \in live /\ n = claim[o] ELSE n = o)
      BY SMTT(60), <1>a, <1>r, <1>o DEF Key
    <3>3. k = o BY Zenon, <1>t, <2>1, <3>1, <3>2 DEF IdentitiesUnique
    <3> QED
      BY SMTT(60), <3>1, <3>2, <3>3
  <2> QED
    BY Zenon, <1>t, <2>1 DEF IdentitiesUnique
<1>7. ReceiptsUnique'
  <2>1. ASSUME NEW m \in messages', NEW n \in messages', m.receipt = n.receipt, m.receipt # NoReceipt
        PROVE  m = n
    <3>1. \A o \in messages : o.receipt \notin calls[c].receipts
      BY Zenon, <1>t DEF ReceiptsUnique
    <3>2. CASE m \in messages /\ n \in messages
      BY Zenon, <1>t, <2>1, <3>2 DEF ReceiptsUnique
    <3>3. CASE m \in messages /\ n \notin messages
      BY SMTT(60), <1>h, <1>r, <1>o, <2>1, <3>1, <3>3
    <3>4. CASE m \notin messages /\ n \in messages
      BY SMTT(60), <1>h, <1>r, <1>o, <2>1, <3>1, <3>4
    <3>5. CASE m \notin messages /\ n \notin messages
      BY SMTT(60), <1>h, <1>r, <1>o, <2>1, <3>5
    <3> QED
      BY Zenon, <3>2, <3>3, <3>4, <3>5
  <2>2. ASSUME NEW m \in messages', NEW d \in Clients, calls'[d].op = "receive"
        PROVE  m.receipt \notin calls'[d].receipts
    BY SMTT(60), <1>4, <2>2 DEF ReceiptsFresh
  <2> QED
    BY Zenon, <2>1, <2>2 DEF ReceiptsUnique
<1>8. MessagesMatchQueues'
  BY SMTT(60), <1>t, <1>n DEF MessagesMatchQueues
<1>9. MessagesMatchLeases'
  <2> SUFFICES ASSUME NEW n \in messages', NEW l \in leases', n.receipt = l.receipt
               PROVE  Key(n) = Key(l) /\ n.expires_at = l.expires_at
    BY Zenon DEF MessagesMatchLeases, Key
  <2>1. /\ \A r \in calls[c].receipts : \A m \in messages : m.receipt # r
        /\ \A r \in calls[c].receipts : \A k \in leases : k.receipt # r
    BY Zenon, <1>t DEF ReceiptsFresh
  <2>2. CASE n \in messages /\ n \notin page
    <3>1. l \in leases BY Zenon, <1>l, <2>1, <2>2
    <3> QED
      BY Zenon, <1>t, <2>2, <3>1 DEF MessagesMatchLeases
  <2>3. ASSUME NEW m \in live, n = claim[m]
        PROVE  Key(n) = Key(l) /\ n.expires_at = l.expires_at
    <3>1. PICK o \in live : /\ l.incarnation = o.incarnation /\ l.id = o.id
                            /\ l.receipt = handle[o] /\ l.expires_at = o.expires_at
      <4>1. n.receipt = handle[m] /\ handle[m] \in calls[c].receipts
        BY Zenon, <1>h, <1>r, <2>3
      <4>2. l \notin leases BY Zenon, <2>1, <4>1
      <4> QED
        BY Zenon, <1>g, <4>2
    <3>2. o = m BY SMTT(60), <1>h, <1>r, <2>3, <3>1
    <3> QED
      BY Zenon, <1>r, <2>3, <3>1, <3>2 DEF Key
  <2> QED
    BY Zenon, <1>o, <2>2, <2>3
<1>10. ClaimsHold'
  <2> SUFFICES ASSUME NEW l \in leases', InForce(l, now), Reachable(l.incarnation)
               PROVE  \E n \in messages' : /\ Key(n) = Key(l) /\ n.receipt = l.receipt
                                           /\ n.visible_at >= l.until
                                           /\ n.expires_at = l.expires_at
    BY Zenon DEF ClaimsHold, InForce, Reachable, Key
  <2>1. CASE l \in leases
    <3>1. PICK m \in messages : /\ Key(m) = Key(l) /\ m.receipt = l.receipt
                                /\ m.visible_at >= l.until /\ m.expires_at = l.expires_at
      BY Zenon, <1>t, <2>1 DEF ClaimsHold
    <3>2. /\ m.visible_at \in Int /\ l.until \in Int /\ now \in Nat
          /\ l.until > now + Skew
      BY Zenon, <1>t, <2>1 DEF TypeOK, Lease, QueueMessageRecord, InForce
    <3>3. ~ (m.visible_at <= at)
      <4> DEFINE v == m.visible_at
                 u == l.until
      <4>1. v \in Int /\ u \in Int /\ v >= u /\ u > now + Skew /\ now \in Nat
        BY Zenon, <3>1, <3>2
      <4> HIDE DEF v, u
      <4> SUFFICES ~ (v <= at) BY Zenon DEF v
      <4> QED
        BY SMTT(60), <4>1, QueueAssumption
    <3> QED
      BY Zenon, <1>a, <1>w, <3>1, <3>3
  <2>2. ASSUME NEW m \in live, l.incarnation = m.incarnation, l.id = m.id,
               l.receipt = handle[m], l.until = until, l.expires_at = m.expires_at
        PROVE  claim[m] \in messages' /\ Key(claim[m]) = Key(l) /\ claim[m].receipt = l.receipt
               /\ claim[m].visible_at >= l.until /\ claim[m].expires_at = l.expires_at
    <3>1. until >= until OBVIOUS
    <3> QED
      BY Zenon, <1>r, <1>w, <2>2, <3>1 DEF Key
  <2> QED
    BY ZenonT(60), <1>g, <2>1, <2>2
<1> QED
  BY Zenon, <1>1, <1>2, <1>3, <1>4, <1>5, <1>6, <1>7, <1>8, <1>9, <1>10 DEF QueueInvariant

(* receive_messages claims due rows under fresh handles.                    *)
LEMMA ReceiveStep ==
    ASSUME QueueInvariant, NEW c \in Clients, ReceiveMessages(c)
    PROVE  QueueInvariant'
<1> DEFINE call == calls[c]
           next_visible == call.at + call.timeout
<1>t. TypeOK /\ CapturedInPast
  BY Zenon DEF QueueInvariant
<1>u. /\ calls[c].op = "receive" /\ calls' = [calls EXCEPT ![c] = Idle]
      /\ UNCHANGED <<now, catalog, cleanup, issued>>
  BY Zenon DEF ReceiveMessages, Finish
<1>1. /\ call.at \in Int /\ call.at <= now + Skew /\ next_visible \in Int
      /\ \A r \in call.receipts : r \in Nat \ {0}
  <2>1. call \in ReceiveCall
    BY Zenon, <1>t, <1>u, CallKinds
  <2>2. call.at \in Int /\ call.timeout \in Nat /\ call.receipts \in SUBSET (Nat \ {0})
    BY Zenon, <2>1, QueueAssumption DEF ReceiveCall
  <2>3. call.at <= now + Skew
    BY Zenon, <1>t, <1>u DEF CapturedInPast
  <2> QED
    BY <2>2, <2>3
<1>2. CASE UNCHANGED <<messages, leases>>
  BY Zenon, <1>2, <1>u, NoEffectStep
<1>3. ASSUME NEW page \in SUBSET messages, NEW handle \in [Live(page, call) -> call.receipts],
             \A m \in page : m.visible_at <= call.at,
             OwnHandles(handle, Live(page, call)),
             messages' = (messages \ page)
                \cup {Claimed(m, handle[m], next_visible) : m \in Live(page, call)},
             leases' = leases \cup
                {[incarnation |-> m.incarnation, id |-> m.id, receipt |-> handle[m],
                  until |-> next_visible, expires_at |-> m.expires_at] : m \in Live(page, call)}
      PROVE  QueueInvariant'
  <2> DEFINE live == Live(page, call)
             claim == [m \in live |-> Claimed(m, handle[m], next_visible)]
             at == call.at
  <2>1. /\ live \in SUBSET page
        /\ \A m \in live : handle[m] \in calls[c].receipts
        /\ \A m, n \in live : handle[m] = handle[n] => m = n
    BY Zenon, <1>3 DEF Live, OwnHandles
  <2>2. \A n \in messages' : (n \in messages /\ n \notin page) \/ \E m \in live : n = claim[m]
    BY Zenon, <1>3
  <2>3. \A m \in live : claim[m] \in messages'
    BY Zenon, <1>3
  <2>4. \A m \in messages : m \notin page => m \in messages'
    BY Zenon, <1>3
  <2>5. \A m \in live : claim[m] = Claimed(m, handle[m], next_visible)
    BY Zenon
  <2>6. at \in Int /\ at <= now + Skew /\ \A m \in page : m.visible_at <= at
    BY Zenon, <1>1, <1>3
  <2>7. next_visible \in Int BY Zenon, <1>1
  <2>8. \A l \in leases' : l \in leases \/ \E m \in live :
           l = [incarnation |-> m.incarnation, id |-> m.id, receipt |-> handle[m],
                until |-> next_visible, expires_at |-> m.expires_at]
    BY Zenon, <1>3
  <2>9. ASSUME NEW m \in live
        PROVE  m \in QueueMessageRecord /\ handle[m] \in Nat \ {0}
    BY Zenon, <1>t, <1>1, <2>1, <2>9 DEF TypeOK
  <2> HIDE DEF live, claim, at, next_visible
  <2>10. ASSUME NEW m \in live
         PROVE  /\ claim[m] \in QueueMessageRecord
                /\ claim[m].incarnation = m.incarnation /\ claim[m].id = m.id
                /\ claim[m].url = m.url /\ claim[m].expires_at = m.expires_at
                /\ claim[m].receipt = handle[m] /\ claim[m].visible_at = next_visible
    <3> DEFINE r == handle[m]
    <3>1. m \in QueueMessageRecord /\ r \in Nat
      BY Zenon, <2>9, <2>10
    <3> HIDE DEF r
    <3>2. /\ Claimed(m, r, next_visible) \in QueueMessageRecord
          /\ Claimed(m, r, next_visible).incarnation = m.incarnation
          /\ Claimed(m, r, next_visible).id = m.id
          /\ Claimed(m, r, next_visible).url = m.url
          /\ Claimed(m, r, next_visible).expires_at = m.expires_at
          /\ Claimed(m, r, next_visible).receipt = r
          /\ Claimed(m, r, next_visible).visible_at = next_visible
      BY SMTT(60), <2>7, <3>1, ClaimedRow
    <3> QED
      BY Zenon, <2>5, <2>10, <3>2 DEF r
  <2>11. ASSUME NEW l \in leases', l \notin leases
         PROVE  \E m \in live :
                   /\ l.incarnation = m.incarnation /\ l.id = m.id /\ l.receipt = handle[m]
                   /\ l.until = next_visible /\ l.expires_at = m.expires_at /\ l \in Lease
    <3>1. PICK m \in live :
             l = [incarnation |-> m.incarnation, id |-> m.id, receipt |-> handle[m],
                  until |-> next_visible, expires_at |-> m.expires_at]
      BY Zenon, <2>8, <2>11
    <3>2. /\ m.incarnation \in Nat \ {0} /\ m.id \in MessageIds /\ m.expires_at \in Int
          /\ handle[m] \in Nat \ {0}
      BY Zenon, <2>9 DEF QueueMessageRecord
    <3> QED
      BY Zenon, <2>7, <3>1, <3>2 DEF Lease
  <2>12. ClaimedPage(c, page, live, handle, claim, at, next_visible)
    <3>1. page \subseteq messages /\ live \subseteq page /\ \A m \in page : m.visible_at <= at
      BY Zenon, <2>1, <2>6
    <3>2. /\ \A m \in live : handle[m] \in calls[c].receipts
          /\ \A m, n \in live : handle[m] = handle[n] => m = n
      BY Zenon, <2>1
    <3> QED
      BY Zenon, <2>2, <2>3, <2>4, <2>10, <2>11, <3>1, <3>2 DEF ClaimedPage
  <2> QED
    BY Zenon, <1>u, <2>6, <2>7, <2>12, ClaimStep
<1>4. ASSUME NEW q \in catalog, NEW page \in SUBSET messages, IsDuePage(page, q, call)
      PROVE  \A m \in page : m.visible_at <= call.at
  BY Zenon, <1>4 DEF IsDuePage, DueRows
<1> QED
  BY Zenon, <1>2, <1>3, <1>4 DEF ReceiveMessages

-----------------------------------------------------------------------------
(* The inductive invariant                                                 *)

(* Every step of the queue service keeps the invariant.                     *)
LEMMA NextStep == QueueInvariant /\ [Next]_vars => QueueInvariant'
<1> SUFFICES ASSUME QueueInvariant, [Next]_vars
             PROVE  QueueInvariant'
  BY Zenon
<1>1. ASSUME NEW c \in Clients, StartRequest(c)
      PROVE  QueueInvariant'
  BY Zenon, <1>1, StartRequestStep
<1>2. ASSUME NEW c \in Clients, CommitRequest(c)
      PROVE  QueueInvariant'
  BY Zenon, <1>2, CatalogCommitStep, SendStep, PublishStep, ReceiveStep, ReceiptCommitStep
     DEF CommitRequest
<1>3. ASSUME NEW c \in Clients, AbandonCall(c)
      PROVE  QueueInvariant'
  BY Zenon, <1>3, NoEffectStep DEF AbandonCall
<1>4. CASE StartCleanup \/ DeferCleanup
  BY Zenon, <1>4, TurnStep
<1>5. CASE CleanupPage
  BY Zenon, <1>5, CleanupStep
<1>6. CASE Tick
  BY SMTT(20), <1>6, TickStep
<1>7. CASE UNCHANGED vars
  <2> USE <1>7 DEF vars
  <2>1. TypeOK' /\ CapturedInPast' BY Zenon DEF QueueInvariant, TypeOK, CapturedInPast
  <2>2. IncarnationsFresh' BY SMTT(60) DEF QueueInvariant, IncarnationsFresh, Proposed
  <2>3. ReceiptsFresh' BY Zenon DEF QueueInvariant, ReceiptsFresh
  <2>4. RandomIdsFresh' BY Zenon DEF QueueInvariant, RandomIdsFresh
  <2>5. IdentitiesUnique' BY Zenon DEF QueueInvariant, IdentitiesUnique, Key
  <2>6. ReceiptsUnique' BY Zenon DEF QueueInvariant, ReceiptsUnique, Key
  <2>7. MessagesMatchQueues' BY Zenon DEF QueueInvariant, MessagesMatchQueues
  <2>8. MessagesMatchLeases' BY Zenon DEF QueueInvariant, MessagesMatchLeases
  <2>9. ClaimsHold' BY Zenon DEF QueueInvariant, ClaimsHold, InForce, Reachable, Key
  <2> QED
    BY Zenon, <2>1, <2>2, <2>3, <2>4, <2>5, <2>6, <2>7, <2>8, <2>9 DEF QueueInvariant
<1> QED
  BY Zenon, <1>1, <1>2, <1>3, <1>4, <1>5, <1>6, <1>7 DEF Next

(* In every behaviour of the queue service the state is well typed and every *)
(* request in flight holds captures (an incarnation, handles, random ids, a  *)
(* clock reading) that no other request, row, queue or claim has.           *)
THEOREM InvariantHolds == Spec => []QueueInvariant
<1>1. Init => QueueInvariant
  BY Zenon, InitInvariant
<1>2. QueueInvariant /\ [Next]_vars => QueueInvariant'
  BY Zenon, NextStep
<1> QED
  BY <1>1, <1>2, PTL DEF Spec

(* Catalog records, message rows, requests and claims keep their shape under *)
(* every interleaving of requests, cleanup and clock steps.                 *)
THEOREM TypesHold == Spec => []TypeOK
<1>1. QueueInvariant => TypeOK
  BY Zenon DEF QueueInvariant
<1> QED
  BY <1>1, InvariantHolds, PTL

(* create_queue, purge_queue, send_messages and publish_message never store a *)
(* second record with the same name, url, incarnation or message key.       *)
THEOREM IdentitiesStayUnique == Spec => []IdentitiesUnique
<1>1. QueueInvariant => IdentitiesUnique
  BY Zenon DEF QueueInvariant
<1> QED
  BY <1>1, InvariantHolds, PTL

(* The handles receive_messages captures before its attempts never name two  *)
(* rows, so apply_receipts acts on the claim a handle was returned for.     *)
THEOREM ReceiptsStayUnique == Spec => []ReceiptsUnique
<1>1. QueueInvariant => ReceiptsUnique
  BY Zenon DEF QueueInvariant
<1> QED
  BY <1>1, InvariantHolds, PTL

(* Whatever other receives, publishes, cleanup pages and requests with stale *)
(* handles commit, a claim that every clock holds in force keeps its row, its *)
(* handle and its visibility deadline.                                      *)
THEOREM ClaimsStayProtected == Spec => []ClaimsProtected
<1>1. QueueInvariant => ClaimsProtected
  BY Zenon DEF QueueInvariant, ClaimsHold, ClaimsProtected
<1> QED
  BY <1>1, InvariantHolds, PTL

-----------------------------------------------------------------------------
(* Action properties                                                       *)

(* A queue in the catalog after a commit has the incarnation the request      *)
(* captured, or one that was in the catalog before (create_queue, purge_queue, *)
(* delete_queue and set_queue_attributes).                                   *)
LEMMA IncarnationOrigin ==
    ASSUME TypeOK, NEW c \in Clients, CommitRequest(c), NEW q \in catalog'
    PROVE  q.incarnation \in Proposed(c) \/ Reachable(q.incarnation)
<1>q. catalog \subseteq QueueCatalogRecord
  BY Zenon DEF TypeOK
<1>1. CASE CreateQueue(c)
  BY Zenon, <1>1 DEF CreateQueue, Finish, Proposed, Reachable
<1>2. CASE DeleteQueue(c)
  BY Zenon, <1>2 DEF DeleteQueue, Reachable
<1>3. CASE PurgeQueue(c)
  <2>1. calls[c].op = "purge"
    BY Zenon, <1>3 DEF PurgeQueue, Finish
  <2>2. \E p \in catalog : q.incarnation = p.incarnation \/ q.incarnation = calls[c].incarnation
    BY Zenon, <1>3, <1>q DEF PurgeQueue, QueueCatalogRecord
  <2> QED
    BY Zenon, <2>1, <2>2 DEF Proposed, Reachable
<1>4. CASE SetQueueAttributes(c)
  BY Zenon, <1>4, <1>q DEF SetQueueAttributes, QueueCatalogRecord, Reachable
<1>5. CASE UNCHANGED catalog
  BY Zenon, <1>5 DEF Reachable
<1> QED
  BY Zenon, <1>1, <1>2, <1>3, <1>4, <1>5 DEF CommitRequest, SendMessages, PublishMessage,
     ReceiveMessages, DeleteMessage, ChangeMessageVisibility, UpdateCheckpoint

(* "A fresh incarnation makes old messages unreachable after delete/recreate": *)
(* no delayed create_queue or purge_queue brings the rows of a retired         *)
(* incarnation back, because the incarnation it captured has no rows.         *)
THEOREM UnreachableForGood == Spec => UnreachableStaysUnreachable
<1>1. ASSUME QueueInvariant, [Next]_vars, NEW m \in messages, ~ Reachable(m.incarnation)
      PROVE  ~ Reachable(m.incarnation)'
  <2>1. ASSUME NEW c \in Clients, CommitRequest(c)
        PROVE  ~ Reachable(m.incarnation)'
    BY Zenon, <1>1, <2>1, IncarnationOrigin DEF QueueInvariant, IncarnationsFresh, Reachable
  <2>2. CASE UNCHANGED catalog
    BY Zenon, <1>1, <2>2 DEF Reachable
  <2>3. ASSUME NEW c \in Clients, StartRequest(c)
        PROVE  UNCHANGED catalog
    BY ZenonT(60), <2>3 DEF StartRequest, StartCreateQueue, StartDeleteQueue, StartPurgeQueue,
       StartSetQueueAttributes, StartSendMessages, StartPublishMessage, StartReceiveMessages,
       StartDeleteMessage, StartChangeMessageVisibility, StartUpdateCheckpoint, Start
  <2> QED
    BY Zenon, <1>1, <2>1, <2>2, <2>3 DEF Next, AbandonCall, StartCleanup, CleanupPage, DeferCleanup,
       Tick, vars
<1>2. QueueInvariant /\ [Next]_vars =>
         [\A m \in messages \cap messages' :
             ~ Reachable(m.incarnation) => ~ Reachable(m.incarnation)']_vars
  BY Zenon, <1>1
<1> QED
  BY <1>2, InvariantHolds, PTL DEF Spec, UnreachableStaysUnreachable

(* One step of any request, of the cleanup job or of the clock loses no row   *)
(* that is alive on every clock and reachable, except to delete_message with  *)
(* the row's current handle.                                                 *)
LEMMA LiveRowKept ==
    ASSUME QueueInvariant, Next, NEW m \in messages,
           m.expires_at > now + Skew, Reachable(m.incarnation)
    PROVE  \/ \E n \in messages' : /\ Key(n) = Key(m) /\ n.body = m.body
                                   /\ n.expires_at = m.expires_at /\ n.count >= m.count
           \/ \E c \in Clients : /\ calls[c].op = "delete_message" /\ calls'[c] = Idle
                                 /\ calls[c].receipt = m.receipt
<1> DEFINE Kept == \E n \in messages' : /\ Key(n) = Key(m) /\ n.body = m.body
                                        /\ n.expires_at = m.expires_at /\ n.count >= m.count
<1>t. /\ TypeOK /\ CapturedInPast /\ MessagesMatchQueues
      /\ m \in QueueMessageRecord /\ m.count \in Nat /\ m.expires_at \in Int /\ now \in Nat
  BY ZenonT(60) DEF QueueInvariant, TypeOK, QueueMessageRecord
<1>s. CASE m \in messages'
  <2>1. m.count >= m.count
    BY <1>t
  <2> QED
    BY Zenon, <1>s, <2>1
<1>1. ASSUME NEW c \in Clients, StartRequest(c) \/ AbandonCall(c)
      PROVE  UNCHANGED messages
  BY ZenonT(60), <1>1 DEF StartRequest, StartCreateQueue, StartDeleteQueue, StartPurgeQueue,
     StartSetQueueAttributes, StartSendMessages, StartPublishMessage, StartReceiveMessages,
     StartDeleteMessage, StartChangeMessageVisibility, StartUpdateCheckpoint, Start, AbandonCall
<1>2. ASSUME NEW c \in Clients,
             CreateQueue(c) \/ DeleteQueue(c) \/ PurgeQueue(c) \/ SetQueueAttributes(c)
             \/ SendMessages(c)
      PROVE  m \in messages'
  BY Zenon, <1>2 DEF CreateQueue, DeleteQueue, PurgeQueue, SetQueueAttributes, SendMessages
<1>3. ASSUME NEW c \in Clients, PublishMessage(c)
      PROVE  m \in messages'
  <2>1. calls[c].at \in Int /\ calls[c].at <= now + Skew
    BY Zenon, <1>t, <1>3, CallKinds DEF PublishMessage, Finish, CapturedInPast, PublishCall
  <2>2. KeepsPublished(m, calls[c])
    BY SMTT(60), <1>t, <2>1, QueueAssumption DEF KeepsPublished, Expired
  <2> QED
    BY Zenon, <1>3, <2>2 DEF PublishMessage
<1>4. ASSUME NEW c \in Clients, ReceiveMessages(c), m \notin messages'
      PROVE  Kept
  <2>1. calls[c] \in ReceiveCall /\ calls[c].at <= now + Skew
    BY Zenon, <1>t, <1>4, CallKinds DEF ReceiveMessages, Finish, CapturedInPast
  <2>2. calls[c].at \in Int /\ calls[c].at + calls[c].timeout \in Int
    <3>1. calls[c].at \in Int /\ calls[c].timeout \in Nat
      BY Zenon, <2>1, QueueAssumption DEF ReceiveCall
    <3> QED
      BY SMTT(60), <3>1
  <2>p. PICK page \in SUBSET messages :
           \E handle \in [Live(page, calls[c]) -> calls[c].receipts] :
              messages' = (messages \ page)
                 \cup {Claimed(o, handle[o], calls[c].at + calls[c].timeout) :
                          o \in Live(page, calls[c])}
    BY Zenon, <1>4 DEF ReceiveMessages
  <2>3. PICK handle \in [Live(page, calls[c]) -> calls[c].receipts] :
           messages' = (messages \ page)
              \cup {Claimed(o, handle[o], calls[c].at + calls[c].timeout) :
                       o \in Live(page, calls[c])}
    BY Zenon, <2>p
  <2>4. m \in Live(page, calls[c])
    <3> DEFINE at == calls[c].at
    <3>1. at \in Int /\ at <= now + Skew
      BY Zenon, <2>1, <2>2
    <3> HIDE DEF at
    <3>2. ~ (m.expires_at <= at)
      BY SMTT(60), <1>t, <3>1, QueueAssumption
    <3>3. m \in page
      BY Zenon, <1>4, <2>3
    <3> QED
      BY Zenon, <3>2, <3>3 DEF Live, Expired, at
  <2>5. handle[m] \in Nat
    BY Zenon, <2>1, <2>3, <2>4 DEF ReceiveCall
  <2> DEFINE r == handle[m]
             t == calls[c].at + calls[c].timeout
             w == Claimed(m, r, t)
  <2>6. w \in messages'
    BY Zenon, <2>3, <2>4
  <2>7. r \in Nat /\ t \in Int
    BY Zenon, <2>2, <2>5
  <2> HIDE DEF r, t
  <2>8. /\ w.incarnation = m.incarnation /\ w.id = m.id /\ w.body = m.body
        /\ w.expires_at = m.expires_at /\ w.count = m.count + 1
    <3>1. m \in QueueMessageRecord
      BY Zenon, <1>t
    <3> QED
      BY Zenon, <3>1, <2>7, ClaimedKeeps
  <2>9. Key(w) = Key(m) /\ w.count >= m.count
    <3> HIDE DEF w
    <3>1. Key(w) = Key(m)
      BY Zenon, <2>8 DEF Key
    <3>2. w.count >= m.count
      BY SMTT(60), <1>t, <2>8
    <3> QED
      BY Zenon, <3>1, <3>2
  <2> HIDE DEF w
  <2> QED
    BY Zenon, <2>6, <2>8, <2>9
<1>5. ASSUME NEW c \in Clients, DeleteMessage(c), m \notin messages'
      PROVE  calls[c].op = "delete_message" /\ calls'[c] = Idle /\ calls[c].receipt = m.receipt
  BY ZenonT(60), <1>t, <1>5 DEF DeleteMessage, Finish, ByReceipt, TypeOK
<1>6. ASSUME NEW c \in Clients, ChangeMessageVisibility(c), m \notin messages'
      PROVE  Kept
  <2> DEFINE n == [m EXCEPT !.visible_at = calls[c].visible_at]
  <2>1. n \in messages'
    BY Zenon, <1>6 DEF ChangeMessageVisibility
  <2>2. /\ n.incarnation = m.incarnation /\ n.id = m.id /\ n.body = m.body
        /\ n.expires_at = m.expires_at /\ n.count = m.count
    BY Zenon, <1>t DEF QueueMessageRecord
  <2> HIDE DEF n
  <2> QED
    BY <1>t, <2>1, <2>2 DEF Key
<1>7. ASSUME NEW c \in Clients, UpdateCheckpoint(c), m \notin messages'
      PROVE  Kept
  <2> DEFINE n == [m EXCEPT !.checkpoint = calls[c].data]
  <2>1. n \in messages'
    BY Zenon, <1>7 DEF UpdateCheckpoint
  <2>2. /\ n.incarnation = m.incarnation /\ n.id = m.id /\ n.body = m.body
        /\ n.expires_at = m.expires_at /\ n.count = m.count
    BY Zenon, <1>t DEF QueueMessageRecord
  <2> HIDE DEF n
  <2> QED
    BY <1>t, <2>1, <2>2 DEF Key
<1>8. CASE CleanupPage
  <2>1. cleanup.at \in Int /\ cleanup.at <= now + Skew
    BY Zenon, <1>t DEF TypeOK, CapturedInPast
  <2>2. ~ Stale(m, cleanup.at)
    BY <1>t, <2>1, QueueAssumption DEF Stale, Expired, Reachable, MessagesMatchQueues
  <2> QED
    BY Zenon, <1>8, <1>s, <2>2 DEF CleanupPage
<1>9. CASE StartCleanup \/ DeferCleanup \/ Tick
  BY Zenon, <1>9, <1>s DEF StartCleanup, DeferCleanup, Tick
<1> QED
  BY Zenon, <1>s, <1>1, <1>2, <1>3, <1>4, <1>5, <1>6, <1>7, <1>8, <1>9 DEF Next, CommitRequest

(* A message leaves the store only by expiry, by retirement of its queue's    *)
(* incarnation, or by delete_message with its current handle: no receive,     *)
(* publish, visibility change or cleanup page loses or rewrites a live one.  *)
THEOREM LiveMessagesKept == Spec => NoLiveMessageLost
<1> DEFINE Fate(m) ==
       \/ m.expires_at <= now + Skew
       \/ ~ Reachable(m.incarnation)
       \/ \E n \in messages' : /\ Key(n) = Key(m) /\ n.body = m.body
                               /\ n.expires_at = m.expires_at /\ n.count >= m.count
       \/ \E c \in Clients : /\ calls[c].op = "delete_message" /\ calls'[c] = Idle
                             /\ calls[c].receipt = m.receipt
<1>1. ASSUME QueueInvariant, Next, NEW m \in messages
      PROVE  Fate(m)
  <2>1. m.expires_at \in Int /\ now + Skew \in Int
    BY <1>1, QueueAssumption DEF QueueInvariant, TypeOK, QueueMessageRecord
  <2> QED
    BY <1>1, <2>1, LiveRowKept
<1>2. QueueInvariant /\ [Next]_vars => [\A m \in messages : Fate(m)]_vars
  BY Zenon, <1>1
<1> QED
  BY <1>2, InvariantHolds, PTL DEF Spec, NoLiveMessageLost
-----------------------------------------------------------------------------
(* The indexes of the key-value backend                                    *)

(* A handle never moves to another row: a claim's handle is fresh, and the     *)
(* commits that present one rewrite other fields of the row they find.        *)
LEMMA HandlesStay ==
    ASSUME QueueInvariant, Next, NEW m \in messages, NEW n \in messages',
           m.receipt = n.receipt, m.receipt # NoReceipt
    PROVE  Key(m) = Key(n)
<1>t. TypeOK /\ ReceiptsUnique /\ ReceiptsFresh /\ messages \subseteq QueueMessageRecord
  BY ZenonT(60) DEF QueueInvariant, TypeOK
<1>s. CASE n \in messages
  BY Zenon, <1>t, <1>s DEF ReceiptsUnique
<1>k. ASSUME NEW p \in messages, n.receipt = p.receipt, Key(n) = Key(p)
      PROVE  Key(m) = Key(n)
  BY Zenon, <1>t, <1>k DEF ReceiptsUnique
<1>1. ASSUME NEW c \in Clients, StartRequest(c) \/ AbandonCall(c)
      PROVE  UNCHANGED messages
  BY Zenon, <1>1 DEF StartRequest, StartCreateQueue, StartDeleteQueue, StartPurgeQueue,
     StartSetQueueAttributes, StartSendMessages, StartPublishMessage, StartReceiveMessages,
     StartDeleteMessage, StartChangeMessageVisibility, StartUpdateCheckpoint, Start, AbandonCall
<1>2. ASSUME NEW c \in Clients,
             CreateQueue(c) \/ DeleteQueue(c) \/ PurgeQueue(c) \/ SetQueueAttributes(c)
             \/ DeleteMessage(c)
      PROVE  n \in messages
  BY Zenon, <1>2 DEF CreateQueue, DeleteQueue, PurgeQueue, SetQueueAttributes, DeleteMessage
<1>3. ASSUME NEW q, NEW id, NEW entry, NEW at
      PROVE  PrepareMessage(q, id, entry, at).receipt = NoReceipt
  BY Zenon DEF PrepareMessage
<1>4. ASSUME NEW c \in Clients, SendMessages(c) \/ PublishMessage(c)
      PROVE  n \in messages
  <2>1. CASE n \notin messages
    <3>1. \E q, id, entry, at : n = PrepareMessage(q, id, entry, at)
      <4>1. CASE SendMessages(c)
        <5> DEFINE call == calls[c]
                   fits(q) == {i \in DOMAIN call.entries : FitsQueue(q, call.entries[i])}
                   rows(q) == {PrepareMessage(q, id, call.entries[id], call.at) : id \in fits(q)}
                   queues == {q \in catalog : q.url = call.url}
        <5>1. messages' = messages \cup UNION {rows(q) : q \in queues}
          BY Zenon, <4>1 DEF SendMessages
        <5> HIDE DEF queues
        <5>2. PICK q \in queues : n \in rows(q)
          BY Zenon, <2>1, <5>1
        <5> QED
          BY Zenon, <5>2
      <4>2. CASE PublishMessage(c)
        <5> DEFINE call == calls[c]
                   previous(q) == {o \in messages : Key(o) = <<q.incarnation, call.id>>}
        <5>1. \/ UNCHANGED messages
              \/ \E q \in catalog :
                    messages' = (messages \ previous(q))
                                 \cup {PrepareMessage(q, call.id, call.entry, call.at)}
          BY Zenon, <4>2 DEF PublishMessage
        <5> HIDE DEF previous
        <5> QED
          BY Zenon, <2>1, <5>1
      <4> QED
        BY Zenon, <1>4, <4>1, <4>2
    <3> QED
      BY Zenon, <1>3, <3>1
  <2> QED
    BY Zenon, <2>1
<1>5. ASSUME NEW c \in Clients, ReceiveMessages(c), n \notin messages
      PROVE  FALSE
  <2>1. calls[c].op = "receive" /\ calls[c] \in ReceiveCall
    BY Zenon, <1>t, <1>5, CallKinds DEF ReceiveMessages, Finish
  <2>2. calls[c].receipts \subseteq Nat /\ calls[c].at + calls[c].timeout \in Int
    <3>1. /\ calls[c].receipts \subseteq Nat /\ calls[c].at \in Int /\ calls[c].timeout \in Nat
      BY Zenon, <2>1, QueueAssumption DEF ReceiveCall
    <3> QED
      BY <3>1
  <2> DEFINE next == calls[c].at + calls[c].timeout
  <2>3. PICK page \in SUBSET messages :
           \E handle \in [Live(page, calls[c]) -> calls[c].receipts] :
              messages' = (messages \ page)
                 \cup {Claimed(o, handle[o], next) : o \in Live(page, calls[c])}
    BY Zenon, <1>5 DEF ReceiveMessages
  <2>4. PICK handle \in [Live(page, calls[c]) -> calls[c].receipts] :
           messages' = (messages \ page)
              \cup {Claimed(o, handle[o], next) : o \in Live(page, calls[c])}
    BY Zenon, <2>3
  <2>5. next \in Int
    BY Zenon, <2>2
  <2> HIDE DEF next
  <2>6. PICK o \in Live(page, calls[c]) : n = Claimed(o, handle[o], next)
    BY Zenon, <1>5, <2>4
  <2>7. o \in messages /\ handle[o] \in calls[c].receipts
    BY Zenon, <2>3, <2>4, <2>6 DEF Live
  <2> DEFINE r == handle[o]
  <2>8. o \in QueueMessageRecord /\ r \in Nat /\ n = Claimed(o, r, next)
    BY Zenon, <1>t, <2>2, <2>6, <2>7
  <2> HIDE DEF r
  <2>9. n.receipt = r
    BY SMTT(60), <2>5, <2>8, ClaimedRow
  <2> QED
    BY Zenon, <1>t, <2>1, <2>7, <2>9 DEF ReceiptsUnique, r
<1>6. ASSUME NEW c \in Clients, ChangeMessageVisibility(c), n \notin messages
      PROVE  \E p \in messages : n.receipt = p.receipt /\ Key(n) = Key(p)
  <2>1. PICK p \in messages : n = [p EXCEPT !.visible_at = calls[c].visible_at]
    <3> DEFINE found(q) == ByReceipt(q, calls[c].receipt)
    <3>1. \/ UNCHANGED messages
          \/ \E q \in catalog :
                messages' = (messages \ found(q))
                   \cup {[p EXCEPT !.visible_at = calls[c].visible_at] : p \in found(q)}
      BY Zenon, <1>6 DEF ChangeMessageVisibility
    <3>2. \A q : found(q) \subseteq messages
      BY Zenon DEF ByReceipt
    <3> HIDE DEF found
    <3> QED
      BY Zenon, <1>6, <3>1, <3>2
  <2>2. n.receipt = p.receipt /\ n.incarnation = p.incarnation /\ n.id = p.id
    BY Zenon, <1>t, <2>1 DEF QueueMessageRecord
  <2> QED
    BY Zenon, <2>2 DEF Key
<1>7. ASSUME NEW c \in Clients, UpdateCheckpoint(c), n \notin messages
      PROVE  \E p \in messages : n.receipt = p.receipt /\ Key(n) = Key(p)
  <2>1. PICK p \in messages : n = [p EXCEPT !.checkpoint = calls[c].data]
    BY ZenonT(60), <1>7 DEF UpdateCheckpoint, ByReceipt
  <2>2. n.receipt = p.receipt /\ n.incarnation = p.incarnation /\ n.id = p.id
    BY Zenon, <1>t, <2>1 DEF QueueMessageRecord
  <2> QED
    BY Zenon, <2>2 DEF Key
<1>8. CASE StartCleanup \/ CleanupPage \/ DeferCleanup \/ Tick
  BY Zenon, <1>s, <1>8 DEF StartCleanup, CleanupPage, DeferCleanup, Tick
<1> QED
  BY Zenon, <1>s, <1>k, <1>1, <1>2, <1>4, <1>5, <1>6, <1>7, <1>8 DEF Next, CommitRequest

(* What due_key, due_value and receipt_key take from a row.                  *)
LEMMA EntryFields ==
    ASSUME NEW m
    PROVE  /\ DueEntry(m).key = DueKey(m) /\ DueEntry(m).expires_at = m.expires_at
           /\ DueEntry(m).claimed = (m.receipt # NoReceipt)
           /\ DueKey(m)[1] = m.incarnation /\ DueKey(m)[2] = m.visible_at /\ DueKey(m)[3] = m.id
           /\ ReceiptEntry(m).key = ReceiptKey(m) /\ ReceiptEntry(m).id = m.id
           /\ ReceiptKey(m)[1] = m.incarnation /\ ReceiptKey(m)[2] = m.receipt
BY ZenonT(60) DEF DueEntry, DueKey, ReceiptEntry, ReceiptKey

(* Rows of one table, and of the tables before and after a commit, that the    *)
(* keys of the indexes tell apart.                                          *)
KeysApart(old, new) ==
    /\ \A m, n \in old : Key(m) = Key(n) => m = n
    /\ \A m, n \in new : Key(m) = Key(n) => m = n
    /\ \A m, n \in old : m.receipt = n.receipt /\ m.receipt # NoReceipt => m = n
    /\ \A m, n \in new : m.receipt = n.receipt /\ m.receipt # NoReceipt => m = n
    /\ \A m \in old, n \in new :
          m.receipt = n.receipt /\ m.receipt # NoReceipt => Key(m) = Key(n)

(* The mutations an attempt stages with its rows leave the entries of the      *)
(* stored rows, because a row's due key holds its identity and a handle stays  *)
(* with its row (write_message_mutations, delete_message_records).           *)
LEMMA IndexStep ==
    ASSUME RowsIndexed, StageIndexes(messages \ messages', messages' \ messages),
           KeysApart(messages, messages')
    PROVE  RowsIndexed'
<1> DEFINE replaced == messages \ messages'
           written == messages' \ messages
<1>k. \A m, n : /\ DueKey(m) = DueKey(n) => Key(m) = Key(n)
                /\ ReceiptKey(m) = ReceiptKey(n) => m.receipt = n.receipt
  BY DEF DueKey, ReceiptKey, Key
<1>u. /\ \A m, n \in messages : Key(m) = Key(n) => m = n
      /\ \A m, n \in messages' : Key(m) = Key(n) => m = n
  BY Zenon DEF KeysApart
<1>r. /\ \A m, n \in messages : m.receipt = n.receipt /\ m.receipt # NoReceipt => m = n
      /\ \A m, n \in messages' : m.receipt = n.receipt /\ m.receipt # NoReceipt => m = n
      /\ \A m \in messages, n \in messages' :
            m.receipt = n.receipt /\ m.receipt # NoReceipt => Key(m) = Key(n)
  BY Zenon DEF KeysApart
<1>1. due' = {DueEntry(m) : m \in messages'}
  <2> DEFINE deleted == {DueKey(p) : p \in replaced}
             put == {DueEntry(m) : m \in written}
  <2>1. due' = {e \in due : e.key \notin deleted \cup {p.key : p \in put}} \cup put
    BY Zenon DEF StageIndexes, Staged
  <2>2. due = {DueEntry(m) : m \in messages}
    BY Zenon DEF RowsIndexed
  <2>3. ASSUME NEW e \in due' PROVE e \in {DueEntry(m) : m \in messages'}
    <3>1. CASE e \in put BY Zenon, <3>1
    <3>2. CASE e \in due /\ e.key \notin deleted
      <4>1. PICK m \in messages : e = DueEntry(m) BY Zenon, <2>2, <3>2
      <4>2. m \notin replaced BY Zenon, <3>2, <4>1, EntryFields
      <4> QED BY Zenon, <4>1, <4>2
    <3> QED BY Zenon, <2>1, <2>3, <3>1, <3>2
  <2>4. ASSUME NEW m \in messages' PROVE DueEntry(m) \in due'
    <3>1. CASE m \in written BY Zenon, <2>1, <3>1
    <3>2. CASE m \in messages
      <4>1. DueEntry(m) \in due BY Zenon, <2>2, <3>2
      <4>2. DueKey(m) \notin deleted
        <5> SUFFICES ASSUME NEW p \in replaced, DueKey(p) = DueKey(m) PROVE FALSE BY Zenon
        <5>1. Key(p) = Key(m) BY Zenon, <1>k
        <5> QED BY Zenon, <1>u, <3>2, <5>1
      <4>3. ASSUME NEW p \in put PROVE p.key # DueKey(m)
        <5>1. PICK n \in written : p = DueEntry(n) BY Zenon, <4>3
        <5>2. DueKey(n) # DueKey(m) BY Zenon, <1>k, <1>u, <3>2, <5>1
        <5> QED BY Zenon, <5>1, <5>2, EntryFields
      <4>4. DueEntry(m).key \notin deleted \cup {p.key : p \in put}
        BY Zenon, <4>2, <4>3, EntryFields
      <4> QED BY Zenon, <2>1, <4>1, <4>4
    <3> QED BY Zenon, <3>1, <3>2
  <2> HIDE DEF deleted, put
  <2>5. \A e : e \in due' <=> \E m \in messages' : e = DueEntry(m)
    BY Zenon, <2>3, <2>4
  <2> QED BY Zenon, <2>5
<1>2. receipts' = {ReceiptEntry(m) : m \in WithReceipt(messages')}
  <2>1. PICK kept \in SUBSET WithReceipt(written) :
           /\ \A m \in WithReceipt(written) : m \in kept \/ Contested(m, replaced, written)
           /\ receipts' = Staged(receipts, {ReceiptKey(p) : p \in WithReceipt(replaced)},
                                 {ReceiptEntry(m) : m \in kept})
    BY Zenon DEF StageIndexes
  <2>2. ASSUME NEW m \in WithReceipt(written) PROVE ~ Contested(m, replaced, written)
    <3>1. m \in written /\ m.receipt # NoReceipt BY Zenon, <2>2 DEF WithReceipt
    <3>2. ASSUME NEW n \in written, n # m PROVE ReceiptKey(n) # ReceiptKey(m)
      BY Zenon, <1>k, <1>r, <3>1, <3>2
    <3>3. ASSUME NEW p \in replaced, Key(p) # Key(m) PROVE ReceiptKey(p) # ReceiptKey(m)
      BY Zenon, <1>k, <1>r, <3>1, <3>3
    <3> QED BY Zenon, <3>2, <3>3 DEF Contested
  <2>3. kept = WithReceipt(written) BY Zenon, <2>1, <2>2
  <2> DEFINE deleted == {ReceiptKey(p) : p \in WithReceipt(replaced)}
             put == {ReceiptEntry(m) : m \in WithReceipt(written)}
  <2>4. receipts' = {e \in receipts : e.key \notin deleted \cup {p.key : p \in put}} \cup put
    BY Zenon, <2>1, <2>3 DEF Staged
  <2>5. receipts = {ReceiptEntry(m) : m \in WithReceipt(messages)}
    BY Zenon DEF RowsIndexed
  <2>6. ASSUME NEW e \in receipts' PROVE e \in {ReceiptEntry(m) : m \in WithReceipt(messages')}
    <3>1. CASE e \in put BY Zenon, <3>1 DEF WithReceipt
    <3>2. CASE e \in receipts /\ e.key \notin deleted
      <4>1. PICK m \in WithReceipt(messages) : e = ReceiptEntry(m) BY Zenon, <2>5, <3>2
      <4>2. m \notin WithReceipt(replaced) BY Zenon, <3>2, <4>1, EntryFields
      <4> QED BY Zenon, <4>1, <4>2 DEF WithReceipt
    <3> QED BY Zenon, <2>4, <2>6, <3>1, <3>2
  <2>7. ASSUME NEW m \in WithReceipt(messages') PROVE ReceiptEntry(m) \in receipts'
    <3>0. m \in messages' /\ m.receipt # NoReceipt BY Zenon, <2>7 DEF WithReceipt
    <3>1. CASE m \in written BY Zenon, <2>4, <3>0, <3>1 DEF WithReceipt
    <3>2. CASE m \in messages
      <4>1. ReceiptEntry(m) \in receipts BY Zenon, <2>5, <3>0, <3>2 DEF WithReceipt
      <4>2. ASSUME NEW p \in WithReceipt(replaced) PROVE ReceiptKey(p) # ReceiptKey(m)
        BY Zenon, <1>k, <1>r, <3>0, <3>2, <4>2 DEF WithReceipt
      <4>3. ASSUME NEW p \in put PROVE p.key # ReceiptKey(m)
        <5>1. PICK n \in WithReceipt(written) : p = ReceiptEntry(n) BY Zenon, <4>3
        <5>2. n \in messages' /\ n # m BY Zenon, <3>2, <5>1 DEF WithReceipt
        <5>3. ReceiptKey(n) # ReceiptKey(m) BY Zenon, <1>k, <1>r, <3>0, <5>2
        <5> QED BY Zenon, <5>1, <5>3, EntryFields
      <4>4. ReceiptEntry(m).key \notin deleted \cup {p.key : p \in put}
        <5>1. ReceiptKey(m) \notin deleted BY Zenon, <4>2
        <5>2. ReceiptKey(m) \notin {p.key : p \in put} BY Zenon, <4>3
        <5> QED BY Zenon, <5>1, <5>2, EntryFields
      <4> QED BY Zenon, <2>4, <4>1, <4>4
    <3> QED BY Zenon, <3>0, <3>1, <3>2
  <2> HIDE DEF deleted, put
  <2>8. \A e : e \in receipts' <=> \E m \in WithReceipt(messages') : e = ReceiptEntry(m)
    BY Zenon, <2>6, <2>7
  <2> QED BY Zenon, <2>8
<1> QED BY Zenon, <1>1, <1>2 DEF RowsIndexed

(* The store with its indexes takes the steps of the queue service.          *)
LEMMA KvStep == QueueInvariant /\ RowsIndexed /\ [KvNext]_kvVars => (QueueInvariant /\ RowsIndexed)'
<1> SUFFICES ASSUME QueueInvariant, RowsIndexed, [KvNext]_kvVars
             PROVE  QueueInvariant' /\ RowsIndexed'
  BY Zenon
<1>1. [Next]_vars
  BY Zenon DEF KvNext, kvVars
<1>2. QueueInvariant'
  BY Zenon, <1>1, NextStep
<1>3. CASE KvNext
  <2>1. Next /\ StageIndexes(messages \ messages', messages' \ messages)
    BY Zenon, <1>3 DEF KvNext
  <2>2. /\ \A m, n \in messages : Key(m) = Key(n) => m = n
        /\ \A m, n \in messages : m.receipt = n.receipt /\ m.receipt # NoReceipt => m = n
    BY Zenon DEF QueueInvariant, IdentitiesUnique, ReceiptsUnique
  <2>3. /\ \A m, n \in messages' : Key(m) = Key(n) => m = n
        /\ \A m, n \in messages' : m.receipt = n.receipt /\ m.receipt # NoReceipt => m = n
    BY Zenon, <1>2 DEF QueueInvariant, IdentitiesUnique, ReceiptsUnique, Key
  <2>4. \A m \in messages, n \in messages' :
           m.receipt = n.receipt /\ m.receipt # NoReceipt => Key(m) = Key(n)
    BY Zenon, <2>1, HandlesStay
  <2>5. KeysApart(messages, messages')
    BY Zenon, <2>2, <2>3, <2>4 DEF KeysApart
  <2> QED
    BY Zenon, <1>2, <2>1, <2>5, IndexStep
<1>4. CASE UNCHANGED kvVars
  BY Zenon, <1>2, <1>4 DEF kvVars, vars, RowsIndexed, DueEntry, DueKey, ReceiptEntry, ReceiptKey,
     WithReceipt
<1> QED
  BY Zenon, <1>3, <1>4

(* write_message_records and delete_message_records never leave a row without *)
(* its index entries nor an entry without its row, whichever requests and      *)
(* cleanup pages commit and in whatever order.                              *)
THEOREM RowsStayIndexed == KvSpec => []RowsIndexed
<1>1. KvInit => QueueInvariant /\ RowsIndexed
  <2> SUFFICES ASSUME KvInit PROVE QueueInvariant /\ RowsIndexed
    BY Zenon
  <2>1. Init /\ messages = {} /\ due = {} /\ receipts = {}
    BY Zenon DEF KvInit, Init
  <2>2. QueueInvariant
    BY Zenon, <2>1, InitInvariant
  <2> QED
    BY Zenon, <2>1, <2>2 DEF RowsIndexed, WithReceipt
<1> QED
  BY <1>1, KvStep, PTL DEF KvSpec

(* Indexes that hold the entries of the rows find what Queue reads.           *)
LEMMA IndexLookups ==
    ASSUME TypeOK, IdentitiesUnique, ReceiptsUnique, RowsIndexed
    PROVE  LookupsExact
<1>t. \A m \in messages : m.visible_at \in Int /\ m.expires_at \in Int
  BY Zenon DEF TypeOK, QueueMessageRecord
<1>d. /\ \A m \in messages : DueEntry(m) \in due
      /\ \A e \in due : \E m \in messages : e = DueEntry(m)
  BY Zenon DEF RowsIndexed
<1>r. /\ \A m \in messages : m.receipt # NoReceipt => ReceiptEntry(m) \in receipts
      /\ \A e \in receipts : \E m \in messages : e = ReceiptEntry(m) /\ m.receipt # NoReceipt
  BY Zenon DEF RowsIndexed, WithReceipt
<1>u. \A m, n \in messages : m.incarnation = n.incarnation /\ m.id = n.id => m = n
  BY Zenon DEF IdentitiesUnique, Key
<1> SUFFICES ASSUME NEW q \in catalog
             PROVE  LET rows(at) == {m \in messages : m.incarnation = q.incarnation /\ ~ Expired(m, at)}
                    IN
                    /\ \A at \in 0 .. now + Skew :
                          LET entries == DueEntries(q.incarnation, at)
                              counted == Counted(q.incarnation, at)
                          IN
                          /\ RowsOfDue(entries) = DueRows(q, at) /\ ~ DueReadFails(entries)
                          /\ \A d, e \in entries : d.key[3] = e.key[3] => d = e
                          /\ counted.visible = {DueEntry(m) : m \in {n \in rows(at) : n.visible_at <= at}}
                          /\ counted.not_visible =
                                {DueEntry(m) : m \in {n \in rows(at) : n.visible_at > at /\ n.receipt # NoReceipt}}
                          /\ counted.delayed =
                                {DueEntry(m) : m \in {n \in rows(at) : n.visible_at > at /\ n.receipt = NoReceipt}}
                    /\ \A receipt \in 1 .. issued.receipt :
                          LET entries == ReceiptEntries(q.incarnation, receipt)
                          IN
                          /\ RowsOfReceipt(entries) = ByReceipt(q, receipt) /\ ~ ReceiptReadFails(entries)
                          /\ \A d, e \in entries : d = e
  BY Zenon DEF LookupsExact
<1> DEFINE inc == q.incarnation
<1>1. ASSUME NEW at \in 0 .. now + Skew
      PROVE  LET entries == DueEntries(inc, at) IN
             /\ RowsOfDue(entries) = DueRows(q, at) /\ ~ DueReadFails(entries)
             /\ \A d, e \in entries : d.key[3] = e.key[3] => d = e
  <2> DEFINE entries == DueEntries(inc, at)
  <2>1. \A e \in entries : \E m \in DueRows(q, at) : e = DueEntry(m)
    <3> TAKE e \in entries
    <3>1. PICK m \in messages : e = DueEntry(m) BY Zenon, <1>d DEF DueEntries
    <3>2. m.incarnation = inc /\ m.visible_at <= at BY Zenon, <3>1, EntryFields DEF DueEntries
    <3> QED BY Zenon, <3>1, <3>2 DEF DueRows
  <2>2. \A m \in DueRows(q, at) : DueEntry(m) \in entries
    BY ZenonT(60), <1>d, EntryFields DEF DueRows, DueEntries
  <2>3. \A m \in DueRows(q, at) : m \in messages /\ m.incarnation = inc BY Zenon DEF DueRows
  <2> HIDE DEF entries
  <2>4. ASSUME NEW m \in messages, NEW n \in DueRows(q, at)
        PROVE  Key(m) = <<DueEntry(n).key[1], DueEntry(n).key[3]>> <=> m = n
    <3>1. DueEntry(n).key[1] = n.incarnation /\ DueEntry(n).key[3] = n.id BY Zenon, EntryFields
    <3>2. n \in messages BY Zenon, <2>3
    <3> QED BY <1>u, <3>1, <3>2 DEF Key
  <2>5. RowsOfDue(entries) = DueRows(q, at)
    <3>1. ASSUME NEW m \in RowsOfDue(entries) PROVE m \in DueRows(q, at)
      <4>1. m \in messages /\ \E e \in entries : Key(m) = <<e.key[1], e.key[3]>>
        BY Zenon, <3>1 DEF RowsOfDue
      <4>2. PICK n \in DueRows(q, at) : Key(m) = <<DueEntry(n).key[1], DueEntry(n).key[3]>>
        BY Zenon, <2>1, <4>1
      <4> QED BY Zenon, <2>4, <4>1, <4>2
    <3>2. ASSUME NEW m \in DueRows(q, at) PROVE m \in RowsOfDue(entries)
      <4>1. m \in messages /\ DueEntry(m) \in entries BY Zenon, <2>2, <2>3, <3>2
      <4>2. Key(m) = <<DueEntry(m).key[1], DueEntry(m).key[3]>> BY Zenon, <2>4, <3>2, <4>1
      <4> QED BY Zenon, <4>1, <4>2 DEF RowsOfDue
    <3> QED BY Zenon, <3>1, <3>2
  <2>6. ~ DueReadFails(entries)
    <3> SUFFICES ASSUME NEW e \in entries
                 PROVE  \E m \in messages : Key(m) = <<e.key[1], e.key[3]>> /\ DueEntry(m) = e
      BY Zenon DEF DueReadFails
    <3>1. PICK n \in DueRows(q, at) : e = DueEntry(n) BY Zenon, <2>1
    <3> QED BY Zenon, <2>3, <2>4, <3>1
  <2>7. ASSUME NEW d \in entries, NEW e \in entries, d.key[3] = e.key[3] PROVE d = e
    <3>1. PICK m \in DueRows(q, at) : d = DueEntry(m) BY Zenon, <2>1, <2>7
    <3>2. PICK n \in DueRows(q, at) : e = DueEntry(n) BY Zenon, <2>1, <2>7
    <3>3. m.id = n.id BY Zenon, <2>7, <3>1, <3>2, EntryFields
    <3> QED BY Zenon, <1>u, <2>3, <3>1, <3>2, <3>3
  <2> QED BY Zenon, <2>5, <2>6, <2>7 DEF entries
<1>2. ASSUME NEW at \in 0 .. now + Skew
      PROVE  LET counted == Counted(inc, at)
                 rows == {m \in messages : m.incarnation = inc /\ ~ Expired(m, at)}
             IN
             /\ counted.visible = {DueEntry(m) : m \in {n \in rows : n.visible_at <= at}}
             /\ counted.not_visible =
                   {DueEntry(m) : m \in {n \in rows : n.visible_at > at /\ n.receipt # NoReceipt}}
             /\ counted.delayed =
                   {DueEntry(m) : m \in {n \in rows : n.visible_at > at /\ n.receipt = NoReceipt}}
  <2> DEFINE counted == Counted(inc, at)
             rows == {m \in messages : m.incarnation = inc /\ ~ Expired(m, at)}
             entries == {e \in due : e.key[1] = inc /\ e.expires_at > at}
  <2>1. at \in Int BY <1>2
  <2>2. \A m \in messages : ~ Expired(m, at) <=> m.expires_at > at
    <3> SUFFICES ASSUME NEW m \in messages PROVE ~ Expired(m, at) <=> m.expires_at > at BY Zenon
    <3>1. m.expires_at \in Int BY Zenon, <1>t
    <3> QED BY <2>1, <3>1 DEF Expired
  <2>3. /\ \A m \in rows : DueEntry(m) \in entries
        /\ \A e \in entries : \E m \in rows : e = DueEntry(m)
    <3>1. ASSUME NEW m \in rows PROVE DueEntry(m) \in entries
      BY ZenonT(60), <1>d, <2>2, <3>1, EntryFields
    <3>2. ASSUME NEW e \in entries PROVE \E m \in rows : e = DueEntry(m)
      <4>1. PICK m \in messages : e = DueEntry(m) BY Zenon, <1>d, <3>2
      <4>2. m.incarnation = inc /\ m.expires_at > at BY Zenon, <3>2, <4>1, EntryFields
      <4> QED BY Zenon, <2>2, <4>1, <4>2
    <3> QED BY Zenon, <3>1, <3>2
  <2>4. /\ counted.visible = {e \in entries : e.key[2] <= at}
        /\ counted.not_visible = {e \in entries : e.key[2] > at /\ e.claimed}
        /\ counted.delayed = {e \in entries : e.key[2] > at /\ ~ e.claimed}
    BY Zenon DEF Counted
  <2> HIDE DEF counted, rows, entries
  <2>5. \A m : /\ DueEntry(m).key[2] = m.visible_at
               /\ DueEntry(m).claimed = (m.receipt # NoReceipt)
    BY Zenon, EntryFields
  <2>6. counted.visible = {DueEntry(m) : m \in {n \in rows : n.visible_at <= at}}
    <3> DEFINE those == {n \in rows : n.visible_at <= at}
    <3>1. \A m \in those : DueEntry(m) \in counted.visible
      BY Zenon, <2>3, <2>4, <2>5
    <3>2. \A e \in counted.visible : \E m \in those : e = DueEntry(m)
      <4> TAKE e \in counted.visible
      <4>1. PICK m \in rows : e = DueEntry(m) BY Zenon, <2>3, <2>4
      <4> QED BY Zenon, <2>4, <2>5, <4>1
    <3> HIDE DEF those
    <3>3. \A e : e \in counted.visible <=> \E m \in those : e = DueEntry(m)
      BY Zenon, <3>1, <3>2
    <3>4. counted.visible = {DueEntry(m) : m \in those}
      BY Zenon, <3>3
    <3> QED
      BY Zenon, <3>4 DEF those
  <2>7. counted.not_visible =
           {DueEntry(m) : m \in {n \in rows : n.visible_at > at /\ n.receipt # NoReceipt}}
    <3> DEFINE those == {n \in rows : n.visible_at > at /\ n.receipt # NoReceipt}
    <3>1. \A m \in those : DueEntry(m) \in counted.not_visible
      BY Zenon, <2>3, <2>4, <2>5
    <3>2. \A e \in counted.not_visible : \E m \in those : e = DueEntry(m)
      <4> TAKE e \in counted.not_visible
      <4>1. PICK m \in rows : e = DueEntry(m) BY Zenon, <2>3, <2>4
      <4> QED BY Zenon, <2>4, <2>5, <4>1
    <3> HIDE DEF those
    <3>3. \A e : e \in counted.not_visible <=> \E m \in those : e = DueEntry(m)
      BY Zenon, <3>1, <3>2
    <3>4. counted.not_visible = {DueEntry(m) : m \in those}
      BY Zenon, <3>3
    <3> QED
      BY Zenon, <3>4 DEF those
  <2>8. counted.delayed =
           {DueEntry(m) : m \in {n \in rows : n.visible_at > at /\ n.receipt = NoReceipt}}
    <3> DEFINE those == {n \in rows : n.visible_at > at /\ n.receipt = NoReceipt}
    <3>1. \A m \in those : DueEntry(m) \in counted.delayed
      BY Zenon, <2>3, <2>4, <2>5
    <3>2. \A e \in counted.delayed : \E m \in those : e = DueEntry(m)
      <4> TAKE e \in counted.delayed
      <4>1. PICK m \in rows : e = DueEntry(m) BY Zenon, <2>3, <2>4
      <4> QED BY Zenon, <2>4, <2>5, <4>1
    <3> HIDE DEF those
    <3>3. \A e : e \in counted.delayed <=> \E m \in those : e = DueEntry(m)
      BY Zenon, <3>1, <3>2
    <3>4. counted.delayed = {DueEntry(m) : m \in those}
      BY Zenon, <3>3
    <3> QED
      BY Zenon, <3>4 DEF those
  <2> QED BY Zenon, <2>6, <2>7, <2>8 DEF counted, rows
<1>3. ASSUME NEW receipt \in 1 .. issued.receipt
      PROVE  LET entries == ReceiptEntries(inc, receipt) IN
             /\ RowsOfReceipt(entries) = ByReceipt(q, receipt) /\ ~ ReceiptReadFails(entries)
             /\ \A d, e \in entries : d = e
  <2> DEFINE entries == ReceiptEntries(inc, receipt)
  <2>0. receipt # NoReceipt BY <1>3 DEF NoReceipt
  <2>1. \A e \in entries : \E m \in ByReceipt(q, receipt) : e = ReceiptEntry(m)
    <3> TAKE e \in entries
    <3>1. PICK m \in messages : e = ReceiptEntry(m) BY Zenon, <1>r DEF ReceiptEntries
    <3>2. ReceiptKey(m) = <<inc, receipt>> BY Zenon, <3>1, EntryFields DEF ReceiptEntries
    <3>3. m.incarnation = inc /\ m.receipt = receipt BY <3>2 DEF ReceiptKey
    <3> QED BY Zenon, <3>1, <3>3 DEF ByReceipt
  <2>2. \A m \in ByReceipt(q, receipt) :
           /\ m \in messages /\ m.incarnation = inc /\ m.receipt = receipt
           /\ ReceiptEntry(m) \in entries
    <3> TAKE m \in ByReceipt(q, receipt)
    <3>1. m \in messages /\ m.incarnation = inc /\ m.receipt = receipt BY Zenon DEF ByReceipt
    <3>2. ReceiptEntry(m) \in receipts BY Zenon, <1>r, <2>0, <3>1
    <3>3. ReceiptEntry(m).key = <<inc, receipt>> BY Zenon, <3>1, EntryFields DEF ReceiptKey
    <3> QED BY Zenon, <3>1, <3>2, <3>3 DEF ReceiptEntries
  <2> HIDE DEF entries
  <2>3. ASSUME NEW m \in messages, NEW n \in ByReceipt(q, receipt)
        PROVE  Key(m) = <<ReceiptEntry(n).key[1], ReceiptEntry(n).id>> <=> m = n
    <3>1. ReceiptEntry(n).key[1] = n.incarnation /\ ReceiptEntry(n).id = n.id BY Zenon, EntryFields
    <3>2. n \in messages BY Zenon, <2>2
    <3> QED BY <1>u, <3>1, <3>2 DEF Key
  <2>4. RowsOfReceipt(entries) = ByReceipt(q, receipt)
    <3>1. ASSUME NEW m \in RowsOfReceipt(entries) PROVE m \in ByReceipt(q, receipt)
      <4>1. m \in messages /\ \E e \in entries : Key(m) = <<e.key[1], e.id>>
        BY Zenon, <3>1 DEF RowsOfReceipt
      <4>2. PICK n \in ByReceipt(q, receipt) :
               Key(m) = <<ReceiptEntry(n).key[1], ReceiptEntry(n).id>>
        BY Zenon, <2>1, <4>1
      <4> QED BY Zenon, <2>3, <4>1, <4>2
    <3>2. ASSUME NEW m \in ByReceipt(q, receipt) PROVE m \in RowsOfReceipt(entries)
      <4>1. m \in messages /\ ReceiptEntry(m) \in entries BY Zenon, <2>2, <3>2
      <4>2. Key(m) = <<ReceiptEntry(m).key[1], ReceiptEntry(m).id>> BY Zenon, <2>3, <3>2, <4>1
      <4> QED BY Zenon, <4>1, <4>2 DEF RowsOfReceipt
    <3> QED BY Zenon, <3>1, <3>2
  <2>5. ~ ReceiptReadFails(entries)
    <3> SUFFICES ASSUME NEW e \in entries
                 PROVE  \E m \in messages : Key(m) = <<e.key[1], e.id>> /\ ReceiptKey(m) = e.key
      BY Zenon DEF ReceiptReadFails
    <3>1. PICK n \in ByReceipt(q, receipt) : e = ReceiptEntry(n) BY Zenon, <2>1
    <3>2. ReceiptKey(n) = e.key BY Zenon, <3>1, EntryFields
    <3> QED BY Zenon, <2>2, <2>3, <3>1, <3>2
  <2>6. ASSUME NEW d \in entries, NEW e \in entries PROVE d = e
    <3>1. PICK m \in ByReceipt(q, receipt) : d = ReceiptEntry(m) BY Zenon, <2>1, <2>6
    <3>2. PICK n \in ByReceipt(q, receipt) : e = ReceiptEntry(n) BY Zenon, <2>1, <2>6
    <3>3. /\ m \in messages /\ n \in messages
          /\ m.receipt = n.receipt /\ m.receipt # NoReceipt
      BY Zenon, <2>0, <2>2, <3>1, <3>2
    <3>4. m = n BY Zenon, <3>3 DEF ReceiptsUnique
    <3> QED BY Zenon, <3>1, <3>2, <3>4
  <2> QED BY Zenon, <2>4, <2>5, <2>6 DEF entries
<1> QED BY Zenon, <1>1, <1>2, <1>3

(* read_due_messages, read_messages_by_receipt and count_queue_messages answer *)
(* from the indexes what the rows say, at every captured time and for every    *)
(* handle, and their checks of an entry against its row never fail.          *)
THEOREM LookupsStayExact == KvSpec => []LookupsExact
<1>1. KvSpec => []QueueInvariant
  <2>1. KvInit => QueueInvariant
    BY Zenon, InitInvariant DEF KvInit
  <2>2. QueueInvariant /\ [KvNext]_kvVars => QueueInvariant'
    BY Zenon, NextStep DEF KvNext, kvVars
  <2> QED
    BY <2>1, <2>2, PTL DEF KvSpec
<1>2. QueueInvariant /\ RowsIndexed => LookupsExact
  BY Zenon, IndexLookups DEF QueueInvariant
<1> QED
  BY <1>1, <1>2, RowsStayIndexed, PTL
=============================================================================
