------------------------------ MODULE KvQueue ------------------------------
(***************************************************************************)
(* How the key-value backends store the messages of Queue (crates/         *)
(* kv-backend/src/queue_message.rs): beside every message row an entry of  *)
(* the due index, and beside a claimed row an entry of the receipt index.  *)
(* Receives, requests that present a handle and the message counts of a    *)
(* queue look the rows up through these entries, which nothing keeps in    *)
(* step but the mutations that an attempt stages with the rows it writes.  *)
(*                                                                         *)
(* The rows themselves, and who writes them when, are those of Queue.      *)
(***************************************************************************)
EXTENDS Queue

VARIABLES
    due,       \* the due index
    receipts   \* the receipt index

kvVars == <<vars, due, receipts>>

DueKey(m) == <<m.incarnation, m.visible_at, m.id>>
DueEntry(m) ==
    [key |-> DueKey(m), claimed |-> m.receipt # NoReceipt, expires_at |-> m.expires_at]

ReceiptKey(m) == <<m.incarnation, m.receipt>>
ReceiptEntry(m) == [key |-> ReceiptKey(m), id |-> m.id]

WithReceipt(rows) == {m \in rows : m.receipt # NoReceipt}

KvInit == Init /\ due = {} /\ receipts = {}

-----------------------------------------------------------------------------
(* The mutations an attempt stages                                         *)

(* Mutation: the entries of the previous record are deleted last. *)
StagedDeletesLast(index, deletes, puts) ==
    {e \in index \cup puts : e.key \notin deletes}

(* The entries of the previous records are deleted, then those of the new     *)
(* ones are put, over what stands at their keys.                            *)
Staged(index, deletes, puts) ==
    {e \in index : e.key \notin deletes \cup {p.key : p \in puts}} \cup puts

(* Two records of one attempt name the same receipt key: which of their        *)
(* mutations comes last is not known.                                       *)
Contested(m, replaced, written) ==
    \/ \E n \in written : n # m /\ ReceiptKey(n) = ReceiptKey(m)
    \/ \E p \in replaced : Key(p) # Key(m) /\ ReceiptKey(p) = ReceiptKey(m)

(* write_message_records and delete_message_records, for the rows an attempt  *)
(* replaces or deletes and the rows it writes.                             *)
StageIndexes(replaced, written) ==
    /\ due' = Staged(due, {DueKey(p) : p \in replaced}, {DueEntry(m) : m \in written})
    /\ \E kept \in SUBSET WithReceipt(written) :
          /\ \A m \in WithReceipt(written) : m \in kept \/ Contested(m, replaced, written)
          /\ \A m, n \in kept : ReceiptKey(m) = ReceiptKey(n) => m = n
          /\ receipts' = Staged(receipts, {ReceiptKey(p) : p \in WithReceipt(replaced)},
                                {ReceiptEntry(m) : m \in kept})

KvNext == Next /\ StageIndexes(messages \ messages', messages' \ messages)

KvSpec == KvInit /\ [][KvNext]_kvVars

-----------------------------------------------------------------------------
(* Lookups through the indexes                                             *)

(* read_due_messages: the entries in the range of the scan, the rows they      *)
(* name, and the rows it refuses because they differ from their entries.    *)
DueEntries(incarnation, at) ==
    {e \in due : e.key[1] = incarnation /\ e.key[2] <= at}

RowsOfDue(entries) ==
    {m \in messages : \E e \in entries : Key(m) = <<e.key[1], e.key[3]>>}

DueReadFails(entries) ==
    \E e \in entries : ~ \E m \in messages : Key(m) = <<e.key[1], e.key[3]>> /\ DueEntry(m) = e

(* read_messages_by_receipt *)
ReceiptEntries(incarnation, receipt) ==
    {e \in receipts : e.key = <<incarnation, receipt>>}

RowsOfReceipt(entries) ==
    {m \in messages : \E e \in entries : Key(m) = <<e.key[1], e.id>>}

ReceiptReadFails(entries) ==
    \E e \in entries : ~ \E m \in messages : Key(m) = <<e.key[1], e.id>> /\ ReceiptKey(m) = e.key

(* count_queue_messages *)
Counted(incarnation, at) ==
    LET entries == {e \in due : e.key[1] = incarnation /\ e.expires_at > at}
    IN  [visible |-> {e \in entries : e.key[2] <= at},
         not_visible |-> {e \in entries : e.key[2] > at /\ e.claimed},
         delayed |-> {e \in entries : e.key[2] > at /\ ~ e.claimed}]

-----------------------------------------------------------------------------
(* What is checked                                                         *)

(* However rows are sent, claimed, extended, published again, deleted and     *)
(* cleaned up, the indexes hold the entries of the stored rows and no others: *)
(* no row is hidden from its queue, and no entry outlives its row, those of    *)
(* retired incarnations included (write_message_mutations,                   *)
(* delete_message_records).                                                 *)
RowsIndexed ==
    /\ due = {DueEntry(m) : m \in messages}
    /\ receipts = {ReceiptEntry(m) : m \in WithReceipt(messages)}

(* A lookup through an index finds the rows that Queue takes from the table,   *)
(* at any time a request may have captured and for any handle it may present, *)
(* none of them twice, and never fails on an entry that differs from its row   *)
(* ("KV queue due index differs from message").  A queue's counts are of its   *)
(* unexpired rows: those a receive would return, those under a claim, and      *)
(* those whose delay has not passed.                                        *)
LookupsExact ==
    \A q \in catalog :
        LET rows(at) == {m \in messages : m.incarnation = q.incarnation /\ ~ Expired(m, at)}
        IN
        /\ \A at \in 0 .. now + Skew :
              LET entries == DueEntries(q.incarnation, at)
                  counted == Counted(q.incarnation, at)
              IN
              /\ RowsOfDue(entries) = DueRows(q, at) /\ ~ DueReadFails(entries)
              /\ \A d, e \in entries : d.key[3] = e.key[3] => d = e
              /\ counted.visible = {DueEntry(m) : m \in {n \in rows(at) : n.visible_at <= at}}
              /\ counted.not_visible =
                    {DueEntry(m) : m \in {n \in rows(at) : n.visible_at > at /\ n.receipt # NoReceipt}}
              /\ counted.delayed =
                    {DueEntry(m) : m \in {n \in rows(at) : n.visible_at > at /\ n.receipt = NoReceipt}}
        /\ \A receipt \in 1 .. issued.receipt :
              LET entries == ReceiptEntries(q.incarnation, receipt)
              IN
              /\ RowsOfReceipt(entries) = ByReceipt(q, receipt) /\ ~ ReceiptReadFails(entries)
              /\ \A d, e \in entries : d = e
=============================================================================
