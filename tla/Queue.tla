------------------------------- MODULE Queue -------------------------------
(***************************************************************************)
(* The queue service of crates/queue-provider at the level of its          *)
(* QueueAttempt port: a catalog of queues, the message rows of every queue *)
(* incarnation, the callers whose requests are in flight and the scheduled *)
(* cleanup job.                                                            *)
(*                                                                         *)
(* A request is two steps.  The first captures what the code captures      *)
(* before retry_native_conflicts: the clock, fresh receipt handles, a      *)
(* fresh incarnation, a random message id.  The second is the native       *)
(* attempt that commits, atomic because every read of an attempt is        *)
(* conflict protected.  Attempts that lose a conflict change nothing and   *)
(* are retried with the captured values, so they only put time and other   *)
(* callers' commits between the two steps.                                 *)
(***************************************************************************)
EXTENDS Integers, FiniteSets, TLC

CONSTANTS
    Clients,            \* request handlers that may run at the same time
    Names, Urls,        \* queue names and queue urls
    AttributeSets,      \* attribute records a queue may be created with
    SuppliedAttributes, \* attributes of SetQueueAttributes, Unset if not given
    RandomIds,          \* ids MessageId::random can return
    PublishIds,         \* stable identities chosen by publishers
    Bodies,             \* message bodies, each one standing for its size
    Delays,             \* per-message delays; Unset when the sender gives none
    Timeouts,           \* visibility timeouts
    CheckpointData,     \* snapshot checkpoint values
    ReceiveLimits,      \* MaxNumberOfMessages values
    PageLimit,          \* rows per cleanup page
    Skew,               \* how far a node's clock is from the reference clock
    Operations,         \* request kinds and jobs that run in this instance
    MaxBatch, MaxTime, MaxIncarnation, MaxReceipt  \* bounds of this instance

Unset == -1

Attributes == [delay : Nat, retention : Nat, size : Nat]

ASSUME QueueAssumption ==
    /\ RandomIds \subseteq Nat /\ PublishIds \subseteq Nat
    /\ RandomIds \cap PublishIds = {}
    /\ Bodies \subseteq Nat /\ Delays \subseteq Nat \cup {Unset}
    /\ Timeouts \subseteq Nat /\ CheckpointData \subseteq Nat \ {0}
    /\ AttributeSets \subseteq Attributes
    /\ SuppliedAttributes \subseteq
          [delay : Nat \cup {Unset}, retention : Nat \cup {Unset}, size : Nat \cup {Unset}]
    /\ ReceiveLimits \subseteq Nat \ {0} /\ PageLimit \in Nat \ {0}
    /\ Skew \in Nat /\ MaxBatch \in Nat /\ MaxTime \in Nat
    /\ MaxIncarnation \in Nat /\ MaxReceipt \in Nat

VARIABLES
    now,       \* the reference clock
    catalog,   \* the QueueCatalogRecords
    messages,  \* the QueueMessageRecords of all incarnations
    calls,     \* the request each client has in flight, with its captures
    cleanup,   \* the cleanup job: checkpointed cursor, time its turn captured
    issued,    \* identities generated so far
    leases     \* history variable: claims the store granted, not given up by
               \* a request that names their receipt handle

vars == <<now, catalog, messages, calls, cleanup, issued, leases>>

NoReceipt == 0
NoCheckpoint == 0
NoCursor == <<0, 0>>
NoTurn == -1
Idle == [op |-> "idle"]

MessageIds == RandomIds \cup PublishIds

QueueCatalogRecord ==
    [name : Names, url : Urls, attributes : Attributes, incarnation : Nat \ {0}]

QueueMessageRecord ==
    [incarnation : Nat \ {0}, id : MessageIds, url : Urls, body : Bodies,
     count : Nat, receipt : Nat, visible_at : Int, expires_at : Int,
     checkpoint : Nat]

Entry == [body : Bodies, delay : Delays]

CreateCall == [op : {"create"}, queue : QueueCatalogRecord]
DeleteQueueCall == [op : {"delete_queue"}, url : Urls]
PurgeCall == [op : {"purge"}, url : Urls, incarnation : Nat \ {0}]
SetAttributesCall == [op : {"set_attributes"}, url : Urls, supplied : SuppliedAttributes]
SendCall ==
    [op : {"send"}, url : Urls, at : Int,
     entries : UNION {[ids -> Entry] : ids \in SUBSET RandomIds}]
PublishCall == [op : {"publish"}, url : Urls, at : Int, id : PublishIds, entry : Entry]
ReceiveCall ==
    [op : {"receive"}, url : Urls, at : Int, timeout : Timeouts, receipts : SUBSET (Nat \ {0})]
DeleteMessageCall == [op : {"delete_message"}, url : Urls, receipt : Nat \ {0}]
ChangeVisibilityCall ==
    [op : {"change_visibility"}, url : Urls, receipt : Nat \ {0}, visible_at : Int]
CheckpointCall ==
    [op : {"checkpoint"}, url : Urls, receipt : Nat \ {0}, data : CheckpointData]

Call ==
    CreateCall \cup DeleteQueueCall \cup PurgeCall \cup SetAttributesCall
    \cup SendCall \cup PublishCall \cup ReceiveCall
    \cup DeleteMessageCall \cup ChangeVisibilityCall \cup CheckpointCall

Lease ==
    [incarnation : Nat \ {0}, id : MessageIds, receipt : Nat \ {0},
     until : Int, expires_at : Int]

TypeOK ==
    /\ now \in Nat
    /\ catalog \subseteq QueueCatalogRecord
    /\ messages \subseteq QueueMessageRecord
    /\ calls \in [Clients -> Call \cup {Idle}]
    /\ cleanup \in [cursor : Nat \X Nat, at : Int]
    /\ issued \in [incarnation : Nat, receipt : Nat, ids : SUBSET RandomIds]
    /\ leases \subseteq Lease

Init ==
    /\ now = 0
    /\ catalog = {}
    /\ messages = {}
    /\ calls = [c \in Clients |-> Idle]
    /\ cleanup = [cursor |-> NoCursor, at |-> NoTurn]
    /\ issued = [incarnation |-> 0, receipt |-> 0, ids |-> {}]
    /\ leases = {}

-----------------------------------------------------------------------------
(* Rows and catalog lookups                                                *)

Key(m) == <<m.incarnation, m.id>>

KeyBefore(a, b) == a[1] < b[1] \/ (a[1] = b[1] /\ a[2] < b[2])

(* The order of the due index: visibility time, then message id. *)
DueBefore(m, n) ==
    m.visible_at < n.visible_at \/ (m.visible_at = n.visible_at /\ m.id < n.id)

CleanupBefore(m, n) == KeyBefore(Key(m), Key(n))

Expired(m, at) == m.expires_at <= at

Missing(url) == ~ \E q \in catalog : q.url = url

(* An incarnation no catalog record holds is retired: no request reaches its *)
(* rows any more.                                                           *)
Reachable(incarnation) == \E q \in catalog : q.incarnation = incarnation

InForce(l, t) == l.until > t + Skew /\ l.expires_at > t + Skew

(* The captured reading of a node's own clock. *)
ClockReadings == {t \in (now - Skew) .. (now + Skew) : t >= 0}


-----------------------------------------------------------------------------
(* What the provider computes from the rows an attempt read                *)

(* QueueSendPolicy: a message is stored with the queue's retention, and with *)
(* the queue's delay unless the sender gave one.                            *)
PrepareMessage(q, id, entry, at) ==
    [incarnation |-> q.incarnation, id |-> id, url |-> q.url, body |-> entry.body,
     count |-> 0, receipt |-> NoReceipt,
     visible_at |-> at + (IF entry.delay = Unset THEN q.attributes.delay ELSE entry.delay),
     expires_at |-> at + q.attributes.retention,
     checkpoint |-> NoCheckpoint]

FitsQueue(q, entry) == entry.body <= q.attributes.size

(* plan_claims: a claimed row has the new handle and its next visibility. *)
Claimed(m, receipt, next_visible) ==
    [m EXCEPT !.count = @ + 1, !.receipt = receipt, !.visible_at = next_visible]

ExtendAttributes(a, s) ==
    [delay |-> IF s.delay = Unset THEN a.delay ELSE s.delay,
     retention |-> IF s.retention = Unset THEN a.retention ELSE s.retention,
     size |-> IF s.size = Unset THEN a.size ELSE s.size]

(* Mutation: a receive does not look at visibility. *)
DueRowsAnyTime(q, at) == {m \in messages : m.incarnation = q.incarnation}

(* The rows a receive reads: due at the captured time, first in due order, at *)
(* most one per captured receipt handle.                                     *)
DueRows(q, at) ==
    {m \in messages : m.incarnation = q.incarnation /\ m.visible_at <= at}

IsDuePage(page, q, call) ==
    /\ page \subseteq DueRows(q, call.at)
    /\ \A m \in page, n \in DueRows(q, call.at) \ page : DueBefore(m, n)
    /\ \/ Cardinality(page) = Cardinality(call.receipts)
       \/ page = DueRows(q, call.at) /\ Cardinality(page) <= Cardinality(call.receipts)

(* plan_claims deletes the expired rows of the page and claims the others. *)
Live(page, call) == {m \in page : ~ Expired(m, call.at)}

(* Mutation: one handle for the whole response. *)
AnyHandles(handle, live) == TRUE

(* Every claimed row gets a handle of its own. *)
OwnHandles(handle, live) == \A m, n \in live : handle[m] = handle[n] => m = n

(* read_messages_by_receipt in the queue's current incarnation. *)
ByReceipt(q, receipt) ==
    {m \in messages : m.incarnation = q.incarnation /\ m.receipt = receipt}

(* A row cleanup deletes: expired, or of an incarnation its url no longer has. *)
Stale(m, at) ==
    Expired(m, at) \/ ~ \E q \in catalog : q.url = m.url /\ q.incarnation = m.incarnation

RowsAfter(cursor) == {m \in messages : KeyBefore(cursor, Key(m))}

(* A cleanup page: rows in key order after the cursor, at most PageLimit of   *)
(* them, fewer when the byte budget of the scan ends it.                     *)
IsCleanupPage(page) ==
    /\ page \subseteq RowsAfter(cleanup.cursor)
    /\ \A m \in page, n \in RowsAfter(cleanup.cursor) \ page : CleanupBefore(m, n)
    /\ Cardinality(page) <= PageLimit
    /\ page = {} => RowsAfter(cleanup.cursor) = {}

(* Mutation: the cursor is the row read ahead to learn that there are more. *)
IsCursorPastLookahead(cursor, page) ==
    LET rest == RowsAfter(cleanup.cursor) \ page IN
    \/ rest = {} /\ cursor = NoCursor
    \/ \E m \in rest : /\ \A n \in rest : n = m \/ CleanupBefore(m, n)
                       /\ cursor = Key(m)

(* QueueCleanupPage::finish: continue after the last row while there are more. *)
IsNextCursor(cursor, page) ==
    IF page = RowsAfter(cleanup.cursor)
    THEN cursor = NoCursor
    ELSE \E m \in page : /\ \A n \in page : n = m \/ CleanupBefore(n, m)
                         /\ cursor = Key(m)

-----------------------------------------------------------------------------
(* Requests: what a caller captures before the first attempt               *)

Start(c, call) ==
    /\ calls[c] = Idle
    /\ call.op \in Operations
    /\ calls' = [calls EXCEPT ![c] = call]
    /\ UNCHANGED <<now, catalog, messages, cleanup, leases>>

NewIncarnation ==
    /\ issued.incarnation < MaxIncarnation
    /\ issued' = [issued EXCEPT !.incarnation = @ + 1]

StartCreateQueue(c) ==
    \E name \in Names, url \in Urls, attributes \in AttributeSets :
        /\ NewIncarnation
        /\ Start(c, [op |-> "create",
                     queue |-> [name |-> name, url |-> url, attributes |-> attributes,
                                incarnation |-> issued.incarnation + 1]])

StartDeleteQueue(c) ==
    \E url \in Urls :
        /\ Start(c, [op |-> "delete_queue", url |-> url])
        /\ UNCHANGED issued

StartPurgeQueue(c) ==
    \E url \in Urls :
        /\ NewIncarnation
        /\ Start(c, [op |-> "purge", url |-> url, incarnation |-> issued.incarnation + 1])

StartSetQueueAttributes(c) ==
    \E url \in Urls, supplied \in SuppliedAttributes :
        /\ Start(c, [op |-> "set_attributes", url |-> url, supplied |-> supplied])
        /\ UNCHANGED issued

StartSendMessages(c) ==
    \E url \in Urls, at \in ClockReadings, ids \in SUBSET (RandomIds \ issued.ids) :
        /\ ids # {} /\ Cardinality(ids) <= MaxBatch
        /\ issued' = [issued EXCEPT !.ids = @ \cup ids]
        /\ \E entries \in [ids -> Entry] :
              Start(c, [op |-> "send", url |-> url, at |-> at, entries |-> entries])

StartPublishMessage(c) ==
    \E url \in Urls, at \in ClockReadings, id \in PublishIds, entry \in Entry :
        /\ Start(c, [op |-> "publish", url |-> url, at |-> at, id |-> id, entry |-> entry])
        /\ UNCHANGED issued

StartReceiveMessages(c) ==
    \E url \in Urls, at \in ClockReadings, timeout \in Timeouts, limit \in ReceiveLimits :
        /\ issued.receipt + limit <= MaxReceipt
        /\ issued' = [issued EXCEPT !.receipt = @ + limit]
        /\ Start(c, [op |-> "receive", url |-> url, at |-> at, timeout |-> timeout,
                     receipts |-> (issued.receipt + 1) .. (issued.receipt + limit)])

(* Handles callers can know: generated for a receive that is no longer in   *)
(* flight.  They include handles of claims that were superseded.           *)
KnownReceipts ==
    {r \in 1 .. issued.receipt :
        \A c \in Clients : calls[c].op = "receive" => r \notin calls[c].receipts}

StartDeleteMessage(c) ==
    \E url \in Urls, receipt \in KnownReceipts :
        /\ Start(c, [op |-> "delete_message", url |-> url, receipt |-> receipt])
        /\ UNCHANGED issued

StartChangeMessageVisibility(c) ==
    \E url \in Urls, receipt \in KnownReceipts, at \in ClockReadings, timeout \in Timeouts :
        /\ Start(c, [op |-> "change_visibility", url |-> url, receipt |-> receipt,
                     visible_at |-> at + timeout])
        /\ UNCHANGED issued

StartUpdateCheckpoint(c) ==
    \E url \in Urls, receipt \in KnownReceipts, data \in CheckpointData :
        /\ Start(c, [op |-> "checkpoint", url |-> url, receipt |-> receipt, data |-> data])
        /\ UNCHANGED issued

-----------------------------------------------------------------------------
(* The attempt of each request that commits                                *)

Finish(c, op) ==
    /\ calls[c].op = op
    /\ calls' = [calls EXCEPT ![c] = Idle]

(* Mutation: only the name is looked up. *)
CreateQueueByName(c) ==
    LET proposed == calls[c].queue IN
    /\ Finish(c, "create")
    /\ catalog' = IF \E q \in catalog : q.name = proposed.name
                  THEN catalog
                  ELSE catalog \cup {proposed}
    /\ UNCHANGED <<now, messages, cleanup, issued, leases>>

(* A name or url that is taken answers Existing or QueueExists, and changes  *)
(* nothing either way.                                                      *)
CreateQueue(c) ==
    LET proposed == calls[c].queue IN
    /\ Finish(c, "create")
    /\ catalog' = IF \E q \in catalog : q.name = proposed.name \/ q.url = proposed.url
                  THEN catalog
                  ELSE catalog \cup {proposed}
    /\ UNCHANGED <<now, messages, cleanup, issued, leases>>

DeleteQueue(c) ==
    /\ Finish(c, "delete_queue")
    /\ catalog' = {q \in catalog : q.url # calls[c].url}
    /\ UNCHANGED <<now, messages, cleanup, issued, leases>>

(* Mutation: an attempt that committed is retried. *)
PurgeQueueAgain(c) ==
    /\ calls[c].op = "purge"
    /\ catalog' = {IF q.url = calls[c].url
                   THEN [q EXCEPT !.incarnation = calls[c].incarnation]
                   ELSE q : q \in catalog}
    /\ UNCHANGED <<now, messages, calls, cleanup, issued, leases>>

PurgeQueue(c) ==
    /\ Finish(c, "purge")
    /\ catalog' = {IF q.url = calls[c].url
                   THEN [q EXCEPT !.incarnation = calls[c].incarnation]
                   ELSE q : q \in catalog}
    /\ UNCHANGED <<now, messages, cleanup, issued, leases>>

SetQueueAttributes(c) ==
    /\ Finish(c, "set_attributes")
    /\ catalog' = {IF q.url = calls[c].url
                   THEN [q EXCEPT !.attributes = ExtendAttributes(@, calls[c].supplied)]
                   ELSE q : q \in catalog}
    /\ UNCHANGED <<now, messages, cleanup, issued, leases>>

(* Entries too large for the queue are refused one by one; the others are    *)
(* written together.                                                        *)
SendMessages(c) ==
    LET call == calls[c] IN
    /\ Finish(c, "send")
    /\ messages' = messages \cup
          UNION {{PrepareMessage(q, id, call.entries[id], call.at) :
                     id \in {i \in DOMAIN call.entries : FitsQueue(q, call.entries[i])}} :
                 q \in {q \in catalog : q.url = call.url}}
    /\ UNCHANGED <<now, catalog, cleanup, issued, leases>>

(* Mutation: a stored message is rewritten whether or not it expired. *)
KeepsOtherBody(m, call) == m.body # call.entry.body

(* publish_message answers before it writes: another message has the        *)
(* identity, or this one is stored and has not expired for the publisher.   *)
KeepsPublished(m, call) == m.body # call.entry.body \/ ~ Expired(m, call.at)

PublishMessage(c) ==
    LET call == calls[c] IN
    /\ Finish(c, "publish")
    /\ \/ Missing(call.url) /\ UNCHANGED messages
       \/ \E q \in catalog :
             LET previous == {m \in messages : Key(m) = <<q.incarnation, call.id>>} IN
             /\ q.url = call.url
             /\ IF \/ \E m \in previous : KeepsPublished(m, call)
                   \/ ~ FitsQueue(q, call.entry)
                THEN UNCHANGED messages
                ELSE messages' = (messages \ previous)
                                  \cup {PrepareMessage(q, call.id, call.entry, call.at)}
    /\ UNCHANGED <<now, catalog, cleanup, issued, leases>>

(* A receive deletes the expired rows of its page and claims the others, each *)
(* with a handle of its own.                                                 *)
ReceiveMessages(c) ==
    LET call == calls[c]
        next_visible == call.at + call.timeout
    IN
    /\ Finish(c, "receive")
    /\ \/ Missing(call.url) /\ UNCHANGED <<messages, leases>>
       \/ \E q \in catalog, page \in SUBSET messages :
             LET live == Live(page, call) IN
             /\ q.url = call.url
             /\ IsDuePage(page, q, call)
             /\ \E handle \in [live -> call.receipts] :
                   /\ OwnHandles(handle, live)
                   /\ messages' = (messages \ page)
                         \cup {Claimed(m, handle[m], next_visible) : m \in live}
                   /\ leases' = leases \cup
                         {[incarnation |-> m.incarnation, id |-> m.id, receipt |-> handle[m],
                           until |-> next_visible, expires_at |-> m.expires_at] : m \in live}
    /\ UNCHANGED <<now, catalog, cleanup, issued>>

(* apply_receipts: the row whose handle in the current incarnation is the    *)
(* request's, if there is one, is deleted or replaced.                      *)
DeleteMessage(c) ==
    LET call == calls[c] IN
    /\ Finish(c, "delete_message")
    /\ \/ Missing(call.url) /\ UNCHANGED <<messages, leases>>
       \/ \E q \in catalog :
             LET found == ByReceipt(q, call.receipt) IN
             /\ q.url = call.url
             /\ messages' = messages \ found
             /\ leases' = {l \in leases : \A m \in found : l.receipt # m.receipt}
    /\ UNCHANGED <<now, catalog, cleanup, issued>>

ChangeMessageVisibility(c) ==
    LET call == calls[c] IN
    /\ Finish(c, "change_visibility")
    /\ \/ Missing(call.url) /\ UNCHANGED <<messages, leases>>
       \/ \E q \in catalog :
             LET found == ByReceipt(q, call.receipt) IN
             /\ q.url = call.url
             /\ messages' = (messages \ found)
                   \cup {[m EXCEPT !.visible_at = call.visible_at] : m \in found}
             /\ leases' = {IF l.receipt = call.receipt /\ found # {}
                           THEN [l EXCEPT !.until = call.visible_at]
                           ELSE l : l \in leases}
    /\ UNCHANGED <<now, catalog, cleanup, issued>>

UpdateCheckpoint(c) ==
    LET call == calls[c] IN
    /\ Finish(c, "checkpoint")
    /\ \/ Missing(call.url) /\ UNCHANGED messages
       \/ \E q \in catalog :
             LET found == ByReceipt(q, call.receipt) IN
             /\ q.url = call.url
             /\ messages' = (messages \ found)
                   \cup {[m EXCEPT !.checkpoint = call.data] : m \in found}
    /\ UNCHANGED <<now, catalog, cleanup, issued, leases>>

(* The attempts of a request are used up, or its node fails: nothing commits. *)
AbandonCall(c) ==
    /\ calls[c] # Idle
    /\ calls' = [calls EXCEPT ![c] = Idle]
    /\ UNCHANGED <<now, catalog, messages, cleanup, issued, leases>>

-----------------------------------------------------------------------------
(* The scheduled cleanup job                                               *)

StartCleanup ==
    /\ "cleanup" \in Operations
    /\ cleanup.at = NoTurn
    /\ \E at \in ClockReadings : cleanup' = [cleanup EXCEPT !.at = at]
    /\ UNCHANGED <<now, catalog, messages, calls, issued, leases>>

CleanupPage ==
    /\ cleanup.at # NoTurn
    /\ \E page \in SUBSET messages :
          /\ IsCleanupPage(page)
          /\ messages' = messages \ {m \in page : Stale(m, cleanup.at)}
          /\ \E cursor \in {NoCursor} \cup {Key(m) : m \in messages} :
                /\ IsNextCursor(cursor, page)
                /\ cleanup' = [cursor |-> cursor, at |-> NoTurn]
    /\ UNCHANGED <<now, catalog, calls, issued, leases>>

(* defer_unavailable_turn: the checkpoint of a failed turn is kept. *)
DeferCleanup ==
    /\ cleanup.at # NoTurn
    /\ cleanup' = [cleanup EXCEPT !.at = NoTurn]
    /\ UNCHANGED <<now, catalog, messages, calls, issued, leases>>

-----------------------------------------------------------------------------
Tick ==
    /\ now < MaxTime
    /\ now' = now + 1
    /\ leases' = {l \in leases : InForce(l, now')}
    /\ UNCHANGED <<catalog, messages, calls, cleanup, issued>>

StartRequest(c) ==
    \/ StartCreateQueue(c) \/ StartDeleteQueue(c) \/ StartPurgeQueue(c)
    \/ StartSetQueueAttributes(c) \/ StartSendMessages(c) \/ StartPublishMessage(c)
    \/ StartReceiveMessages(c) \/ StartDeleteMessage(c)
    \/ StartChangeMessageVisibility(c) \/ StartUpdateCheckpoint(c)

CommitRequest(c) ==
    \/ CreateQueue(c) \/ DeleteQueue(c) \/ PurgeQueue(c) \/ SetQueueAttributes(c)
    \/ SendMessages(c) \/ PublishMessage(c) \/ ReceiveMessages(c)
    \/ DeleteMessage(c) \/ ChangeMessageVisibility(c) \/ UpdateCheckpoint(c)

Next ==
    \/ \E c \in Clients : StartRequest(c) \/ CommitRequest(c) \/ AbandonCall(c)
    \/ StartCleanup \/ CleanupPage \/ DeferCleanup
    \/ Tick

Spec == Init /\ [][Next]_vars

(* The scheduler runs the job again and again, and the store does not fail   *)
(* every attempt of a turn for ever.                                        *)
FairSpec == Spec /\ WF_vars(StartCleanup) /\ SF_vars(CleanupPage)

-----------------------------------------------------------------------------
(* Properties                                                              *)

(* Names, urls and incarnations identify catalog records, and (incarnation,  *)
(* message id) identifies a message row, whatever the order in which creates, *)
(* deletes, purges and sends that were captured earlier commit.             *)
IdentitiesUnique ==
    /\ \A p, q \in catalog :
          (p.name = q.name \/ p.url = q.url \/ p.incarnation = q.incarnation) => p = q
    /\ \A m, n \in messages : Key(m) = Key(n) => m = n

(* A receipt handle names at most one message row in the whole store, and    *)
(* never one of a receive that has not committed: a request that presents a  *)
(* handle acts on the claim it was returned for or on nothing.              *)
ReceiptsUnique ==
    /\ \A m, n \in messages : m.receipt = n.receipt /\ m.receipt # NoReceipt => m = n
    /\ \A m \in messages, c \in Clients :
          calls[c].op = "receive" => m.receipt \notin calls[c].receipts

(* While a claim is in force (its deadline and the message's expiry are in   *)
(* the future on every node's clock, and its queue was not purged or         *)
(* deleted), the row is still there, still carries the claim's handle and is *)
(* not visible before the deadline: no receive, publish, cleanup or request  *)
(* with another handle took the message away from the consumer.             *)
ClaimsProtected ==
    \A l \in leases : InForce(l, now) /\ Reachable(l.incarnation) =>
        \E m \in messages :
            /\ Key(m) = Key(l)
            /\ m.receipt = l.receipt
            /\ m.visible_at >= l.until

(* "A fresh incarnation makes old messages unreachable after delete/recreate" *)
(* (queue_catalog.rs:14): a row that no queue reaches is not reached later,  *)
(* whichever delayed create or purge commits.                               *)
UnreachableStaysUnreachable ==
    [][\A m \in messages \cap messages' :
          ~ Reachable(m.incarnation) => ~ Reachable(m.incarnation)']_vars

(* A stored message goes only when it is expired on some node's clock, its    *)
(* incarnation is retired, or a delete presents its current handle; until    *)
(* then its body and expiry stay and its receive count does not go back.    *)
NoLiveMessageLost ==
    [][\A m \in messages :
          \/ m.expires_at <= now + Skew
          \/ ~ Reachable(m.incarnation)
          \/ \E n \in messages' : /\ Key(n) = Key(m) /\ n.body = m.body
                                  /\ n.expires_at = m.expires_at /\ n.count >= m.count
          \/ \E c \in Clients : /\ calls[c].op = "delete_message" /\ calls'[c] = Idle
                                /\ calls[c].receipt = m.receipt]_vars

(* The inductive strengthening of the invariants above, part by part.       *)

(* No capture is ahead of what a clock could show now. *)
CapturedInPast ==
    /\ \A c \in Clients :
          calls[c].op \in {"send", "publish", "receive"} => calls[c].at <= now + Skew
    /\ cleanup.at <= now + Skew

(* The incarnation that call c gives to a queue when it commits. *)
Proposed(c) ==
    IF calls[c].op = "create" THEN {calls[c].queue.incarnation}
    ELSE IF calls[c].op = "purge" THEN {calls[c].incarnation}
    ELSE {}

(* An incarnation a request in flight holds is nobody else's. *)
IncarnationsFresh ==
    /\ \A q \in catalog : q.incarnation <= issued.incarnation
    /\ \A m \in messages : m.incarnation <= issued.incarnation
    /\ \A l \in leases : l.incarnation <= issued.incarnation
    /\ \A c \in Clients : \A i \in Proposed(c) :
          /\ i <= issued.incarnation
          /\ \A q \in catalog : q.incarnation # i
          /\ \A m \in messages : m.incarnation # i
          /\ \A l \in leases : l.incarnation # i
          /\ \A d \in Clients : i \in Proposed(d) => c = d

(* So is a receipt handle. *)
ReceiptsFresh ==
    /\ \A m \in messages : m.receipt <= issued.receipt
    /\ \A l \in leases : l.receipt <= issued.receipt
    /\ \A c \in Clients : calls[c].op = "receive" => \A r \in calls[c].receipts :
          /\ r <= issued.receipt
          /\ \A m \in messages : m.receipt # r
          /\ \A l \in leases : l.receipt # r
          /\ \A d \in Clients : calls[d].op = "receive" /\ r \in calls[d].receipts => c = d

(* So is a random message id. *)
RandomIdsFresh ==
    /\ \A m \in messages : m.id \in RandomIds => m.id \in issued.ids
    /\ \A c \in Clients : calls[c].op = "send" => \A id \in DOMAIN calls[c].entries :
          /\ id \in issued.ids
          /\ \A m \in messages : m.id # id
          /\ \A d \in Clients : calls[d].op = "send" /\ id \in DOMAIN calls[d].entries => c = d

(* A row of a queue's current incarnation was sent to that queue's url. *)
MessagesMatchQueues ==
    \A m \in messages, q \in catalog : q.incarnation = m.incarnation => q.url = m.url

(* A row that still carries a claim's handle is the row that was claimed. *)
MessagesMatchLeases ==
    \A m \in messages, l \in leases :
        m.receipt = l.receipt => Key(m) = Key(l) /\ m.expires_at = l.expires_at

(* ClaimsProtected, and the expiry has not moved either. *)
ClaimsHold ==
    \A l \in leases : InForce(l, now) /\ Reachable(l.incarnation) =>
        \E m \in messages : /\ Key(m) = Key(l) /\ m.receipt = l.receipt
                            /\ m.visible_at >= l.until /\ m.expires_at = l.expires_at

(* Everything a commit relies on about requests captured earlier. *)
QueueInvariant ==
    /\ TypeOK /\ CapturedInPast
    /\ IncarnationsFresh /\ ReceiptsFresh /\ RandomIdsFresh
    /\ IdentitiesUnique /\ ReceiptsUnique
    /\ MessagesMatchQueues /\ MessagesMatchLeases /\ ClaimsHold

(* The row with this key is garbage for every node. *)
Garbage(key) ==
    \E m \in messages : Key(m) = key /\ Stale(m, now - Skew)

(* Expired and retired rows are reclaimed: the cursor of the cleanup job     *)
(* comes by every one of them, whatever is inserted, claimed or deleted      *)
(* between two pages.                                                      *)
GarbageReclaimed ==
    \A key \in (1 .. MaxIncarnation) \X MessageIds : Garbage(key) ~> ~ Garbage(key)

=============================================================================
