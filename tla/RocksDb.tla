------------------------------ MODULE RocksDb ------------------------------
(***************************************************************************)
(* Native attempts on RocksDB (crates/kv-backend/src/rocksdb): the caller's *)
(* side with its buffered writes and its calls that may be dropped, the    *)
(* command channel, the one writer thread that drives read-write attempts, *)
(* the settlement both sides share, the durability batch that syncs the    *)
(* write-ahead log, the conflict retry, and crashes.                       *)
(***************************************************************************)
EXTENDS Integers, Sequences, FiniteSets, TLC

CONSTANTS
    Requests,    \* requests, each running one attempt after another
    Readers,     \* those whose attempts are AttemptMode::ReadOnly
    Keys, Values,
    Slots,       \* native calls an operation may have open at the same time
    Capacity,    \* DURABILITY_BATCH_CAPACITY
    MaxTries,    \* WriteRetryPolicy::max_attempts
    MaxWork, MaxCrashes  \* bounds: native calls of an attempt, crashes

ASSUME RocksDbAssumption ==
    /\ Readers \subseteq Requests
    /\ Values \subseteq Nat \ {0} /\ Capacity \in Nat \ {0} /\ MaxTries \in Nat \ {0}
    /\ MaxWork \in [Requests -> Nat] /\ MaxCrashes \in Nat

VARIABLES
    log,         \* commits in write-ahead log order
    synced,      \* how many of them a crash cannot take away
    queue,       \* attempts submitted to the writer thread; it drives the head
    attempts,    \* the last attempt of each request
    durability,  \* DurabilityBatch: the channel, the group, the barrier's reach
    crashes      \* crashes so far

vars == <<log, synced, queue, attempts, durability, crashes>>

NoValue == 0
NoKey == "nokey"
NotStarted == -1
NoBarrier == -1

Stored == Values \cup {NoValue}
Partial == UNION {[keys -> Stored] : keys \in SUBSET Keys}
NoWrites == [k \in {} |-> NoValue]

Entry == [request : Requests, reads : Partial, writes : Partial, db : [Keys -> Stored]]

Command ==
    [kind : {"apply"}, slot : Slots, writes : Partial]
    \cup [kind : {"get"}, slot : Slots, key : Keys]
    \cup [kind : {"finish"}, commit : BOOLEAN, writes : Partial]
    \cup [kind : {"closed"}]

Phase == {"idle", "open", "finishing", "settled", "waiting", "answered", "lost"}
Result == {"none", "ok", "conflict", "failed", "unknown"}

(* A native call: flushing until the buffered writes are applied, reading     *)
(* until the value comes.                                                   *)
IdleSlot == [state |-> "idle", key |-> NoKey, value |-> NoValue]
Slot ==
    {IdleSlot} \cup [state : {"flushing", "flushed", "reading", "read", "error"},
                     key : Keys, value : Stored]

Attempt ==
    [phase : Phase,
     tries : Nat, work : Nat,
     settlement : {"open", "rejected", "capacity"},
     pending : Partial,    \* RocksDbAttempt::pending
     staged : Partial,     \* history: every write of the operation so far
     seen : Partial,       \* history: values read of keys it had not written
     channel : Seq(Command),
     slots : [Slots -> Slot],
     snapshot : Int,       \* commits the native transaction sees
     batch : Partial,      \* the native transaction's private writes
     result : Result]      \* so far: of the operation, then of the attempt

FreshAttempt(phase, tries) ==
    [phase |-> phase, tries |-> tries, work |-> 0, settlement |-> "open",
     pending |-> NoWrites, staged |-> NoWrites, seen |-> NoWrites, channel |-> <<>>,
     slots |-> [s \in Slots |-> IdleSlot], snapshot |-> NotStarted, batch |-> NoWrites,
     result |-> "none"]

TypeOK ==
    /\ log \in Seq(Entry)
    /\ synced \in 0 .. Len(log)
    /\ queue \in Seq(Requests)
    /\ attempts \in [Requests -> Attempt]
    /\ durability \in [channel : Seq(Requests), group : SUBSET Requests, target : Int]
    /\ crashes \in Nat

Init ==
    /\ log = <<>> /\ synced = 0
    /\ queue = <<>>
    /\ attempts = [c \in Requests |-> FreshAttempt("idle", 0)]
    /\ durability = [channel |-> <<>>, group |-> {}, target |-> NoBarrier]
    /\ crashes = 0

-----------------------------------------------------------------------------
Overlay(db, writes) ==
    [k \in DOMAIN db \cup DOMAIN writes |-> IF k \in DOMAIN writes THEN writes[k] ELSE db[k]]

(* The store after the first n commits of a log. *)
ContentsAfter(commits, n) == IF n = 0 THEN [k \in Keys |-> NoValue] ELSE commits[n].db

(* Mutation: only the work budget rejects an attempt. *)
RejectedByBudget(a, kind) == IF kind = "capacity" THEN kind ELSE a.settlement

(* NativeAttemptSettlement::reject_error: fetch_max, so never weaker. *)
Rejected(a, kind) == IF a.settlement = "capacity" THEN a.settlement ELSE kind

(* NativeAttemptSettlement::require_open as the error its caller returns. *)
SettlementError(a) == IF a.settlement = "capacity" THEN "failed" ELSE "conflict"

SlotsIdle(a) == \A s \in Slots : a.slots[s] = IdleSlot

-----------------------------------------------------------------------------
(* The operation, on the caller's task                                     *)

BeginAttempt(c) ==
    /\ attempts[c].phase = "idle"
    /\ attempts' = [attempts EXCEPT ![c] = FreshAttempt("open", attempts[c].tries + 1)]
    /\ queue' = IF c \in Readers THEN queue ELSE Append(queue, c)
    /\ UNCHANGED <<log, synced, durability, crashes>>

(* native_stage borrows the attempt mutably: no call is open meanwhile.  A    *)
(* read-only attempt that stages a write is rejected.                       *)
Stage(c, k, v) ==
    LET a == attempts[c]
        write == [x \in {k} |-> v]
    IN
    /\ a.phase = "open" /\ a.settlement = "open" /\ SlotsIdle(a) /\ a.work < MaxWork[c]
    /\ \/ /\ c \notin Readers
          /\ attempts' = [attempts EXCEPT ![c].work = @ + 1,
                                          ![c].pending = Overlay(@, write),
                                          ![c].staged = Overlay(@, write)]
       \/ /\ c \in Readers
          /\ attempts' = [attempts EXCEPT ![c].work = @ + 1,
                                          ![c].settlement = Rejected(a, "rejected")]
    /\ UNCHANGED <<log, synced, queue, durability, crashes>>

Send(a, s, state, k, command) ==
    [a EXCEPT !.slots[s] = [state |-> state, key |-> k, value |-> NoValue],
              !.channel = Append(@, command)]

SendGet(a, s, k) == Send(a, s, "reading", k, [kind |-> "get", slot |-> s, key |-> k])

(* Mutation: the buffered writes are taken, and sent after the read. *)
FlushAfterRead(a, s, k) ==
    IF a.pending = NoWrites
    THEN SendGet(a, s, k)
    ELSE [SendGet(a, s, k) EXCEPT
             !.pending = NoWrites,
             !.channel = Append(@, [kind |-> "apply", slot |-> s, writes |-> a.pending])]

(* native_get_batch up to its first await: dispatch_pending takes and sends  *)
(* the buffered writes under one lock.                                      *)
FlushBeforeRead(a, s, k) ==
    IF a.pending = NoWrites
    THEN SendGet(a, s, k)
    ELSE [Send(a, s, "flushing", k, [kind |-> "apply", slot |-> s, writes |-> a.pending])
             EXCEPT !.pending = NoWrites]

BeginGet(c, s, k) ==
    LET a == attempts[c] IN
    /\ a.phase = "open" /\ a.settlement = "open" /\ a.slots[s] = IdleSlot /\ a.work < MaxWork[c]
    /\ attempts' = [attempts EXCEPT ![c] = [FlushBeforeRead(a, s, k) EXCEPT !.work = @ + 1]]
    /\ UNCHANGED <<log, synced, queue, durability, crashes>>

(* A call whose work budget is exhausted. *)
ExhaustBudget(c) ==
    LET a == attempts[c] IN
    /\ a.phase = "open" /\ a.settlement = "open" /\ \E s \in Slots : a.slots[s] = IdleSlot
    /\ attempts' = [attempts EXCEPT ![c].settlement = Rejected(a, "capacity")]
    /\ UNCHANGED <<log, synced, queue, durability, crashes>>

(* The call goes on after an answer of the worker: to the read after the     *)
(* flush, to its caller with the value, or to its caller with the error     *)
(* (the worker's, or that the values exceed the work budget).               *)
ResumeCall(c, s) ==
    LET a == attempts[c]
        slot == a.slots[s]
    IN
    /\ a.phase = "open"
    /\ \/ /\ slot.state = "flushed"
          /\ attempts' = [attempts EXCEPT ![c] = SendGet(a, s, slot.key)]
       \/ /\ slot.state = "read"
          /\ attempts' = [attempts EXCEPT
                ![c].slots[s] = IdleSlot,
                ![c].seen = IF slot.key \in DOMAIN a.staged THEN @
                            ELSE Overlay(@, [x \in {slot.key} |-> slot.value])]
       \/ \E kind \in {"rejected", "capacity"} :
             /\ slot.state = "error" \/ (slot.state = "read" /\ kind = "capacity")
             /\ attempts' = [attempts EXCEPT ![c].slots[s] = IdleSlot,
                                             ![c].settlement = Rejected(a, kind)]
    /\ UNCHANGED <<log, synced, queue, durability, crashes>>

(* The operation drops a call it was waiting for (a timeout, a lost race). *)
DropCall(c, s) ==
    LET a == attempts[c] IN
    /\ a.phase = "open" /\ a.slots[s] # IdleSlot
    /\ attempts' = [attempts EXCEPT ![c].slots[s] = IdleSlot,
                                    ![c].settlement = Rejected(a, "rejected")]
    /\ UNCHANGED <<log, synced, queue, durability, crashes>>

(* Mutation: a commit leaves the writes that are still buffered behind. *)
ReturnUnflushed(c, result) ==
    LET a == attempts[c]
        commit == result = "ok" /\ a.settlement = "open"
    IN
    /\ a.phase = "open" /\ SlotsIdle(a)
    /\ attempts' = [attempts EXCEPT
          ![c].phase = "finishing",
          ![c].result = IF commit THEN "ok"
                        ELSE IF result = "ok" \/ a.settlement = "capacity" THEN SettlementError(a)
                        ELSE result,
          ![c].pending = NoWrites,
          ![c].channel = Append(@, [kind |-> "finish", commit |-> commit, writes |-> NoWrites])]
    /\ UNCHANGED <<log, synced, queue, durability, crashes>>

(* The operation returns, possibly ok after it caught an error: finish asks  *)
(* for a commit only if the settlement is still open.  An error of the       *)
(* operation stands unless the work budget was exhausted.                   *)
Return(c, result) ==
    LET a == attempts[c]
        commit == result = "ok" /\ a.settlement = "open"
    IN
    /\ a.phase = "open" /\ SlotsIdle(a)
    /\ attempts' = [attempts EXCEPT
          ![c].phase = "finishing",
          ![c].result = IF commit THEN "ok"
                        ELSE IF result = "ok" \/ a.settlement = "capacity" THEN SettlementError(a)
                        ELSE result,
          ![c].pending = NoWrites,
          ![c].channel = Append(@, [kind |-> "finish", commit |-> commit,
                                    writes |-> IF commit THEN a.pending ELSE NoWrites])]
    /\ UNCHANGED <<log, synced, queue, durability, crashes>>

(* Mutation: the command channel outlives the panicked operation. *)
PanicHoldsChannel(c) ==
    /\ attempts[c].phase = "open"
    /\ attempts' = [attempts EXCEPT
          ![c].phase = "answered",
          ![c].result = "failed",
          ![c].slots = [s \in Slots |-> IdleSlot]]
    /\ UNCHANGED <<log, synced, queue, durability, crashes>>

(* The operation panics: the channel closes without a finish command. *)
Panic(c) ==
    /\ attempts[c].phase = "open"
    /\ attempts' = [attempts EXCEPT
          ![c].phase = "answered",
          ![c].result = "failed",
          ![c].slots = [s \in Slots |-> IdleSlot],
          ![c].channel = Append(@, [kind |-> "closed"])]
    /\ UNCHANGED <<log, synced, queue, durability, crashes>>

-----------------------------------------------------------------------------
(* The native side: the writer thread, or a reader's own blocking thread    *)

(* Mutation: one thread per write attempt. *)
DrivenAlone(c) == c \in Readers \/ \E i \in 1 .. Len(queue) : queue[i] = c

Driven(c) == c \in Readers \/ (queue # <<>> /\ Head(queue) = c)

StartNative(c) ==
    /\ Driven(c) /\ attempts[c].snapshot = NotStarted
    /\ attempts[c].phase = "open" \/ attempts[c].channel # <<>>
    /\ attempts' = [attempts EXCEPT ![c].snapshot = Len(log)]
    /\ UNCHANGED <<log, synced, queue, durability, crashes>>

Receives(c, kind) ==
    LET a == attempts[c] IN
    /\ Driven(c) /\ a.snapshot # NotStarted
    /\ a.channel # <<>> /\ Head(a.channel).kind = kind

(* Both ends of the answer channel are alive. *)
Awaited(a, command) ==
    a.slots[command.slot].state = IF command.kind = "apply" THEN "flushing" ELSE "reading"

(* execute_command fails: the settlement is not open, the waiter is gone, or  *)
(* the engine or the work budget refuses.                                   *)
CommandFails(c) ==
    LET a == attempts[c]
        command == Head(a.channel)
    IN
    /\ Receives(c, "apply") \/ Receives(c, "get")
    /\ \E kind \in {"rejected", "capacity"} :
          /\ kind = "capacity" => a.settlement = "open"
          /\ attempts' = [attempts EXCEPT
                ![c].channel = Tail(@),
                ![c].settlement = Rejected(a, kind),
                ![c].slots[command.slot] =
                    IF Awaited(a, command) THEN [@ EXCEPT !.state = "error"] ELSE @]
    /\ UNCHANGED <<log, synced, queue, durability, crashes>>

ApplyBatch(c) ==
    LET a == attempts[c]
        command == Head(a.channel)
    IN
    /\ Receives(c, "apply") /\ a.settlement = "open" /\ Awaited(a, command)
    /\ attempts' = [attempts EXCEPT
          ![c].channel = Tail(@),
          ![c].batch = Overlay(@, command.writes),
          ![c].slots[command.slot] = [@ EXCEPT !.state = "flushed"]]
    /\ UNCHANGED <<log, synced, queue, durability, crashes>>

(* Mutation: reads that do not name the snapshot see the latest commit. *)
GetLatest(c) ==
    LET a == attempts[c]
        command == Head(a.channel)
        view == Overlay(ContentsAfter(log, Len(log)), a.batch)
    IN
    /\ Receives(c, "get") /\ a.settlement = "open" /\ Awaited(a, command)
    /\ attempts' = [attempts EXCEPT
          ![c].channel = Tail(@),
          ![c].slots[command.slot] =
              [state |-> "read", key |-> command.key, value |-> view[command.key]]]
    /\ UNCHANGED <<log, synced, queue, durability, crashes>>

(* Reads see the snapshot under the transaction's own writes. *)
GetBatch(c) ==
    LET a == attempts[c]
        command == Head(a.channel)
        view == Overlay(ContentsAfter(log, a.snapshot), a.batch)
    IN
    /\ Receives(c, "get") /\ a.settlement = "open" /\ Awaited(a, command)
    /\ attempts' = [attempts EXCEPT
          ![c].channel = Tail(@),
          ![c].slots[command.slot] =
              [state |-> "read", key |-> command.key, value |-> view[command.key]]]
    /\ UNCHANGED <<log, synced, queue, durability, crashes>>

(* What is left of an attempt when its transaction and its handle are gone;   *)
(* staged is kept of those that committed.                                  *)
Ended(a, phase, result, staged) ==
    [FreshAttempt(phase, a.tries) EXCEPT !.result = result, !.staged = staged]

(* The transaction has ended; the writer goes to the next attempt. *)
Settle(c, result, staged) ==
    /\ attempts' = [attempts EXCEPT
          ![c] = Ended(@, IF @.phase = "finishing" THEN "settled" ELSE @.phase, result, staged)]
    /\ queue' = IF c \in Readers THEN queue ELSE Tail(queue)
    /\ UNCHANGED <<synced, durability, crashes>>

(* OptimisticTransactionDB: nobody wrote the batch's keys since the snapshot. *)
Unconflicted(a, writes) ==
    \A i \in a.snapshot + 1 .. Len(log) : DOMAIN log[i].writes \cap DOMAIN writes = {}

(* The commit that goes through may still be reported as an error. *)
CommitNative(c) ==
    LET a == attempts[c]
        writes == Overlay(a.batch, Head(a.channel).writes)
    IN
    /\ Receives(c, "finish") /\ Head(a.channel).commit
    /\ c \notin Readers /\ a.settlement = "open"
    /\ Unconflicted(a, writes)
    /\ log' = Append(log, [request |-> c, reads |-> a.seen, writes |-> writes,
                           db |-> Overlay(ContentsAfter(log, Len(log)), writes)])
    /\ \E result \in {"ok", "unknown"} : Settle(c, result, a.staged)

(* The commit does not go through: Busy is a conflict, another error of a     *)
(* write a failure, another error of the commit an unknown outcome.         *)
RefuseCommit(c) ==
    LET a == attempts[c] IN
    /\ Receives(c, "finish") /\ Head(a.channel).commit
    /\ c \notin Readers /\ a.settlement = "open"
    /\ \E result \in {"conflict", "failed", "unknown"} : Settle(c, result, NoWrites)
    /\ UNCHANGED log

(* A rollback, the end of a read-only attempt, or a commit of an attempt      *)
(* that is no longer open.                                                  *)
ReleaseNative(c) ==
    LET a == attempts[c]
        denied == Head(a.channel).commit /\ a.settlement # "open"
    IN
    /\ Receives(c, "finish") /\ (Head(a.channel).commit => c \in Readers \/ denied)
    /\ Settle(c, IF denied THEN SettlementError(a) ELSE a.result, NoWrites)
    /\ UNCHANGED log

(* The channel of a panicked operation is drained: dropping rolls back. *)
DropNative(c) ==
    /\ Receives(c, "closed")
    /\ Settle(c, attempts[c].result, NoWrites)
    /\ UNCHANGED log

-----------------------------------------------------------------------------
(* After the attempt: retry_native_conflicts, or the wait for durability     *)

(* Mutation: an unknown outcome is retried like a conflict. *)
RetryableOrUnknown(a) == a.result \in {"conflict", "unknown"} /\ a.tries < MaxTries

Retryable(a) == a.result = "conflict" /\ a.tries < MaxTries

Retry(c) ==
    LET a == attempts[c] IN
    /\ a.phase = "settled" /\ Retryable(a)
    /\ attempts' = [attempts EXCEPT ![c] = FreshAttempt("idle", a.tries)]
    /\ UNCHANGED <<log, synced, queue, durability, crashes>>

(* with_attempt returns without the durability barrier. *)
AnswersAtOnce(c) == attempts[c].result # "ok" \/ c \in Readers

AnswerRequest(c) ==
    LET a == attempts[c] IN
    /\ a.phase = "settled" /\ AnswersAtOnce(c) /\ ~ Retryable(a)
    /\ attempts' = [attempts EXCEPT ![c].phase = "answered"]
    /\ UNCHANGED <<log, synced, queue, durability, crashes>>

(* DurabilityBatch::wait: a bounded channel. *)
AwaitDurability(c) ==
    /\ attempts[c].phase = "settled" /\ attempts[c].result = "ok" /\ c \notin Readers
    /\ Len(durability.channel) < Capacity
    /\ attempts' = [attempts EXCEPT ![c].phase = "waiting"]
    /\ durability' = [durability EXCEPT !.channel = Append(@, c)]
    /\ UNCHANGED <<log, synced, queue, crashes>>

(* synchronize_groups receives the first of a group, then sleeps the window. *)
TakeFirst ==
    /\ durability.group = {} /\ durability.channel # <<>>
    /\ durability' = [channel |-> Tail(durability.channel),
                      group |-> {Head(durability.channel)}, target |-> NoBarrier]
    /\ UNCHANGED <<log, synced, queue, attempts, crashes>>

(* It gathers the others that arrived, up to the capacity, and invokes the    *)
(* barrier: flush_wal reaches every commit before it.                       *)
InvokeBarrier ==
    LET channel == durability.channel
        n == IF Len(channel) < Capacity THEN Len(channel) ELSE Capacity - 1
    IN
    /\ durability.group # {} /\ durability.target = NoBarrier
    /\ durability' = [channel |-> SubSeq(channel, n + 1, Len(channel)),
                      group |-> durability.group \cup {channel[i] : i \in 1 .. n},
                      target |-> Len(log)]
    /\ UNCHANGED <<log, synced, queue, attempts, crashes>>

Acknowledged(a, result) == [a EXCEPT !.phase = "answered", !.result = result]

(* Mutation: the group is gathered after the barrier. *)
GatherAfterBarrier ==
    LET group == durability.group
                 \cup {durability.channel[i] : i \in 1 .. Len(durability.channel)}
    IN
    /\ durability.target # NoBarrier
    /\ synced' = IF durability.target > synced THEN durability.target ELSE synced
    /\ attempts' = [c \in Requests |->
          IF c \in group THEN Acknowledged(attempts[c], "ok") ELSE attempts[c]]
    /\ durability' = [channel |-> <<>>, group |-> {}, target |-> NoBarrier]
    /\ UNCHANGED <<log, queue, crashes>>

(* A barrier that fails may have synced all the same. *)
FinishBarrier ==
    /\ durability.target # NoBarrier
    /\ \E result \in {"ok", "unknown"}, reach \in {synced, durability.target} :
          /\ result = "ok" => reach = durability.target
          /\ synced' = IF reach > synced THEN reach ELSE synced
          /\ attempts' = [c \in Requests |->
                IF c \in durability.group THEN Acknowledged(attempts[c], result)
                ELSE attempts[c]]
    /\ durability' = [durability EXCEPT !.group = {}, !.target = NoBarrier]
    /\ UNCHANGED <<log, queue, crashes>>

(* The process dies and restarts: the write-ahead log is recovered up to a    *)
(* prefix that holds all that was synced, the running requests are lost.    *)
Crash ==
    /\ crashes < MaxCrashes
    /\ \E n \in synced .. Len(log) : log' = SubSeq(log, 1, n) /\ synced' = n
    /\ attempts' = [c \in Requests |->
          LET a == attempts[c] IN
          IF a = FreshAttempt("idle", 0) THEN a
          ELSE IF a.phase = "answered" THEN Ended(a, a.phase, a.result, a.staged)
          ELSE Ended(a, "lost", "none", a.staged)]
    /\ queue' = <<>>
    /\ durability' = [channel |-> <<>>, group |-> {}, target |-> NoBarrier]
    /\ crashes' = crashes + 1

-----------------------------------------------------------------------------
Operation(c) ==
    \/ BeginAttempt(c)
    \/ \E k \in Keys, v \in Stored : Stage(c, k, v)
    \/ \E s \in Slots, k \in Keys : BeginGet(c, s, k)
    \/ ExhaustBudget(c)
    \/ \E s \in Slots : ResumeCall(c, s) \/ DropCall(c, s)
    \/ \E result \in {"ok", "conflict", "failed"} : Return(c, result)
    \/ Panic(c)

Native(c) ==
    \/ StartNative(c) \/ CommandFails(c) \/ ApplyBatch(c) \/ GetBatch(c)
    \/ CommitNative(c) \/ RefuseCommit(c) \/ ReleaseNative(c) \/ DropNative(c)

Supervisor(c) == Retry(c) \/ AnswerRequest(c) \/ AwaitDurability(c)

Durability == TakeFirst \/ InvokeBarrier \/ FinishBarrier

Next ==
    \/ \E c \in Requests : Operation(c) \/ Native(c) \/ Supervisor(c)
    \/ Durability
    \/ Crash

Spec == Init /\ [][Next]_vars

(* Tasks and threads that can go on do: the operation comes to its end, the   *)
(* writer thread, the supervisor and the durability task keep running.      *)
Fairness ==
    /\ \A c \in Requests :
          /\ \A s \in Slots : WF_vars(ResumeCall(c, s))
          /\ WF_vars(\E result \in {"ok", "conflict", "failed"} : Return(c, result))
          /\ WF_vars(BeginAttempt(c) /\ attempts[c].tries > 0)
          /\ WF_vars(Native(c))
          /\ WF_vars(Supervisor(c))
    /\ WF_vars(Durability)

FairSpec == Spec /\ Fairness

-----------------------------------------------------------------------------
HasCommitted(c) == \E i \in 1 .. Len(log) : log[i].request = c

(* A request that was answered ok is in the part of the log that no crash can *)
(* take away (DurabilityBatch::wait acknowledges only what its barrier        *)
(* synced), whichever group it was acknowledged with.                       *)
AcknowledgedDurable ==
    \A c \in Requests \ Readers :
        attempts[c].phase = "answered" /\ attempts[c].result = "ok"
        => \E i \in 1 .. synced : log[i].request = c

(* A commit holds all the writes of its operation: none is left in the        *)
(* buffer, in the channel, or lost with a failed or dropped call              *)
(* (NativeAttemptSettlement).                                               *)
WritesWhole ==
    \A i \in 1 .. Len(log) : log[i].writes = attempts[log[i].request].staged

(* A read sees the operation's preceding writes, also those another of its    *)
(* calls flushed (dispatch_pending).                                        *)
ReadsOwnWrites ==
    \A c \in Requests, s \in Slots :
        LET a == attempts[c]
            slot == a.slots[s]
        IN
        slot.state = "read" /\ slot.key \in DOMAIN a.staged => slot.value = a.staged[slot.key]

(* What an attempt read of others is the store at one point: a read-only      *)
(* attempt gets a coherent snapshot (AttemptMode::ReadOnly) though commits    *)
(* go on while it runs.                                                     *)
SnapshotCoherent ==
    \A c \in Requests :
        LET a == attempts[c] IN
        a.phase \in {"open", "finishing"} /\ a.snapshot # NotStarted
        => /\ a.snapshot \in 0 .. Len(log)
           /\ \A k \in DOMAIN a.seen : a.seen[k] = ContentsAfter(log, a.snapshot)[k]

(* Every request that began is answered, unless a crash took it: a failed,    *)
(* dropped or panicked operation never holds up the one writer thread, nor a  *)
(* full durability channel the supervisors.                                 *)
RequestsAnswered ==
    \A c \in Requests :
        attempts[c].phase = "open" ~> attempts[c].phase \in {"answered", "lost"}

(* The parts of the invariant that the proofs rest on.                       *)

(* The writer thread has one open transaction, and nothing committed since    *)
(* its snapshot.                                                            *)
WriterSerial ==
    /\ \A i, j \in 1 .. Len(queue) : queue[i] = queue[j] => i = j
    /\ \A i \in 1 .. Len(queue) :
          LET a == attempts[queue[i]] IN
          /\ queue[i] \notin Readers
          /\ a.phase \in {"open", "finishing", "answered"}
          /\ a.phase = "answered" => a.result = "failed"
          /\ a.snapshot = NotStarted \/ (i = 1 /\ a.snapshot = Len(log))

(* A request commits once; then it is past its attempts, and was not told     *)
(* otherwise.                                                               *)
OutcomesTrue ==
    /\ \A i, j \in 1 .. Len(log) : log[i].request = log[j].request => i = j
    /\ \A i \in 1 .. Len(log) :
          LET a == attempts[log[i].request] IN
          /\ log[i].request \notin Readers
          /\ \/ a.phase \in {"settled", "waiting", "answered"} /\ a.result \in {"ok", "unknown"}
             \/ a.phase = "lost"

(* Whoever waits for durability has committed; a barrier reaches its group. *)
WaitersCommitted ==
    LET channel == durability.channel IN
    /\ \A c \in Requests \ Readers :
          LET a == attempts[c] IN
          (a.phase = "settled" /\ a.result = "ok") \/ a.phase = "waiting" => HasCommitted(c)
    /\ \A i, j \in 1 .. Len(channel) : channel[i] = channel[j] => i = j
    /\ \A i \in 1 .. Len(channel) :
          /\ channel[i] \notin Readers \cup durability.group
          /\ attempts[channel[i]].phase = "waiting"
    /\ \A c \in durability.group : c \notin Readers /\ attempts[c].phase = "waiting"
    /\ durability.target # NoBarrier =>
          /\ durability.target \in 0 .. Len(log)
          /\ \A c \in durability.group :
                \E i \in 1 .. durability.target : log[i].request = c

(* An attempt read the snapshot, under writes that are all its own. *)
ReadsSound(commits, a) ==
    /\ a.snapshot \in {NotStarted} \cup 0 .. Len(commits)
    /\ \A k \in DOMAIN a.seen :
          a.snapshot # NotStarted /\ a.seen[k] = ContentsAfter(commits, a.snapshot)[k]
    /\ DOMAIN a.pending \subseteq DOMAIN a.staged /\ DOMAIN a.batch \subseteq DOMAIN a.staged
    /\ \A i \in 1 .. Len(a.channel) :
          /\ a.channel[i].kind = "apply" => DOMAIN a.channel[i].writes \subseteq DOMAIN a.staged
          /\ a.channel[i].kind = "finish" =>
                /\ a.phase = "finishing"
                /\ a.result = "ok" => a.channel[i].commit
          /\ a.channel[i].kind = "closed" => a.phase = "answered"
    /\ \A s \in Slots :
          a.slots[s].state = "read" /\ a.slots[s].key \notin DOMAIN a.staged
          => /\ a.snapshot # NotStarted
             /\ a.slots[s].value = ContentsAfter(commits, a.snapshot)[a.slots[s].key]

(* Inductive: what makes the store serial, durable and truthful. *)
StoreInvariant ==
    /\ TypeOK
    /\ WriterSerial
    /\ OutcomesTrue
    /\ WaitersCommitted
    /\ AcknowledgedDurable
    /\ \A c \in Requests : ReadsSound(log, attempts[c])

(* The writes on their way to the native transaction. *)
InFlight(a) ==
    IF a.channel # <<>> /\ a.channel[1].kind = "apply" THEN a.channel[1].writes ELSE NoWrites

(* While an operation runs and nothing was rejected, each command has a call   *)
(* of its own that waits for it, writes are buffered only between calls and   *)
(* go ahead of every read, and transaction, channel and buffer together hold  *)
(* what was staged.                                                        *)
CallsServed(a) ==
    /\ \A i \in 1 .. Len(a.channel) :
          /\ a.channel[i].kind \in {"apply", "get"} /\ Awaited(a, a.channel[i])
          /\ a.channel[i].kind = "apply" => i = 1
    /\ \A i, j \in 1 .. Len(a.channel) : a.channel[i].slot = a.channel[j].slot => i = j
    /\ a.pending # NoWrites => SlotsIdle(a)
    /\ a.staged = Overlay(Overlay(a.batch, InFlight(a)), a.pending)

(* A commit that is asked for brings the last of the staged writes. *)
FinishWhole(a) ==
    \A i \in 1 .. Len(a.channel) :
        /\ a.channel[i].kind = "finish"
        /\ a.channel[i].commit => a.staged = Overlay(a.batch, a.channel[i].writes)

WritesTracked(a) ==
    /\ a.settlement = "open" => /\ a.phase = "open" => CallsServed(a)
                                /\ a.phase = "finishing" => FinishWhole(a)
    /\ a.phase # "open" => SlotsIdle(a)

(* Inductive beside StoreInvariant: however the calls of an operation are      *)
(* interleaved, delayed or dropped, no staged write is lost on its way        *)
(* through buffer, channel and native transaction to the commit.             *)
WritesInvariant ==
    /\ WritesWhole /\ ReadsOwnWrites
    /\ \A c \in Requests : WritesTracked(attempts[c])

(* What the request of an attempt was told. *)
Answered(a) ==
    IF a.phase # "answered" THEN "none"
    ELSE IF a.result \in {"conflict", "failed"} THEN "refused"
    ELSE a.result

Answers == [c \in Requests |-> Answered(attempts[c])]

(* What the services above rely on: one serial order of commits, at most one  *)
(* for the retries of a request, none for a refused request, and no           *)
(* acknowledged one lost.                                                   *)
Store == INSTANCE NativeStore WITH commits <- log, answers <- Answers

ImplementsStore == Store!Spec
=============================================================================
