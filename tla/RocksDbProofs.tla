---------------------------- MODULE RocksDbProofs ----------------------------
(***************************************************************************)
(* Proofs about native attempts on RocksDB, for any number of requests,    *)
(* keys, values, concurrent calls, retries and crashes, and any capacity of *)
(* the durability batch.  StoreInvariant is inductive; the durability of   *)
(* acknowledged requests and the refinement of NativeStore follow.         *)
(***************************************************************************)
EXTENDS RocksDb, TLAPS

-----------------------------------------------------------------------------
(* Data                                                                    *)

(* Laying writes over writes or over a store gives the same kind of thing     *)
(* (apply_changes on the transaction's batch, and its commit).              *)
LEMMA OverlayTypes ==
    /\ \A u, w \in Partial : /\ Overlay(u, w) \in Partial
                             /\ DOMAIN Overlay(u, w) = DOMAIN u \cup DOMAIN w
    /\ \A db \in [Keys -> Stored], w \in Partial : Overlay(db, w) \in [Keys -> Stored]
    /\ NoWrites \in Partial /\ DOMAIN NoWrites = {}
    /\ \A k \in Keys, v \in Stored : [x \in {k} |-> v] \in Partial
<1>1. ASSUME NEW u \in Partial, NEW w \in Partial
      PROVE  Overlay(u, w) \in Partial /\ DOMAIN Overlay(u, w) = DOMAIN u \cup DOMAIN w
  <2>1. PICK ku \in SUBSET Keys : u \in [ku -> Stored] BY Zenon, <1>1 DEF Partial
  <2>2. PICK kw \in SUBSET Keys : w \in [kw -> Stored] BY Zenon, <1>1 DEF Partial
  <2>3. Overlay(u, w) \in [ku \cup kw -> Stored] BY Zenon, <2>1, <2>2 DEF Overlay
  <2>4. ku \cup kw \in SUBSET Keys BY Zenon, <2>1, <2>2
  <2> QED BY Zenon, <2>1, <2>2, <2>3, <2>4 DEF Partial
<1>2. ASSUME NEW db \in [Keys -> Stored], NEW w \in Partial
      PROVE  Overlay(db, w) \in [Keys -> Stored]
  <2>1. PICK kw \in SUBSET Keys : w \in [kw -> Stored] BY Zenon, <1>2 DEF Partial
  <2> QED BY Zenon, <2>1 DEF Overlay
<1>3. NoWrites \in [{} -> Stored] /\ {} \in SUBSET Keys BY Zenon DEF NoWrites
<1>4. NoWrites \in Partial /\ DOMAIN NoWrites = {} BY Zenon, <1>3 DEF Partial, NoWrites
<1>5. ASSUME NEW k \in Keys, NEW v \in Stored PROVE [x \in {k} |-> v] \in Partial
  <2>1. [x \in {k} |-> v] \in [{k} -> Stored] /\ {k} \in SUBSET Keys BY Zenon
  <2> QED BY Zenon, <2>1 DEF Partial
<1> QED BY Zenon, <1>1, <1>2, <1>4, <1>5

(* The values of partial writes are values of the store (KvMutation). *)
LEMMA PartialValues ==
    ASSUME NEW u \in Partial
    PROVE  DOMAIN u \subseteq Keys /\ \A k \in DOMAIN u : u[k] \in Stored
BY Zenon DEF Partial

(* The fields that each kind of command carries (Command). *)
LEMMA CommandFields ==
    ASSUME NEW x \in Command
    PROVE  /\ x.kind \in {"apply", "get", "finish", "closed"}
           /\ x.kind = "apply" => x.slot \in Slots /\ x.writes \in Partial
           /\ x.kind = "get" => x.slot \in Slots /\ x.key \in Keys
           /\ x.kind = "finish" => x.commit \in BOOLEAN /\ x.writes \in Partial
<1>1. CASE x \in [kind : {"apply"}, slot : Slots, writes : Partial] BY Zenon, <1>1
<1>2. CASE x \in [kind : {"get"}, slot : Slots, key : Keys] BY Zenon, <1>2
<1>3. CASE x \in [kind : {"finish"}, commit : BOOLEAN, writes : Partial] BY Zenon, <1>3
<1>4. CASE x \in [kind : {"closed"}] BY Zenon, <1>4
<1> QED BY Zenon, <1>1, <1>2, <1>3, <1>4 DEF Command

(* A call that is open names its key (native_get_batch). *)
LEMMA SlotFields ==
    ASSUME NEW x \in Slot
    PROVE  /\ x.state = "idle" \/ x.state \in {"flushing", "flushed", "reading", "read", "error"}
           /\ x.state # "idle" =>
                 /\ x.key \in Keys /\ x.value \in Stored
                 /\ \A state \in {"flushing", "flushed", "reading", "read", "error"} :
                       [x EXCEPT !.state = state] \in Slot
BY DEF Slot, IdleSlot

(* The store after any prefix of the log is a store (the recovered WAL). *)
LEMMA ContentsTypes ==
    ASSUME log \in Seq(Entry), NEW n \in 0 .. Len(log)
    PROVE  ContentsAfter(log, n) \in [Keys -> Stored]
<1>1. CASE n = 0 BY Zenon, <1>1 DEF ContentsAfter, Stored
<1>2. CASE n # 0
  <2>1. log[n] \in Entry BY <1>2
  <2>2. log[n].db \in [Keys -> Stored] BY Zenon, <2>1 DEF Entry
  <2> QED BY Zenon, <1>2, <2>2 DEF ContentsAfter
<1> QED BY Zenon, <1>1, <1>2

(* A fresh attempt is well formed, whatever the settings (run_attempt). *)
LEMMA FreshTypes ==
    ASSUME NEW phase \in Phase,
           NEW tries \in Nat, NEW result \in Result, NEW staged \in Partial
    PROVE  /\ FreshAttempt(phase, tries) \in Attempt
           /\ [FreshAttempt(phase, tries) EXCEPT !.result = result, !.staged = staged] \in Attempt
<1>1. NoValue \in Stored BY Zenon DEF Stored
<1>2. IdleSlot \in Slot BY Zenon, <1>1 DEF IdleSlot, Slot
<1>3. [s \in Slots |-> IdleSlot] \in [Slots -> Slot] BY Zenon, <1>2
<1>4. NoWrites \in Partial BY Zenon, OverlayTypes
<1>5. <<>> \in Seq(Command) OBVIOUS
<1>6. FreshAttempt(phase, tries) \in Attempt
  BY <1>3, <1>4, <1>5 DEF FreshAttempt, Attempt, Result, NotStarted
<1>7. [FreshAttempt(phase, tries) EXCEPT !.result = result, !.staged = staged] \in Attempt
  BY Zenon, <1>6 DEF Attempt
<1> QED BY Zenon, <1>6, <1>7

-----------------------------------------------------------------------------
(* Initial states                                                          *)

(* An attempt without a transaction has read nothing (run_attempt). *)
LEMMA FreshReads ==
    ASSUME NEW phase, NEW tries
    PROVE  \A commits : ReadsSound(commits, FreshAttempt(phase, tries))
BY OverlayTypes DEF ReadsSound, FreshAttempt, IdleSlot

(* The invariant holds of an empty store (RocksDbBackend::initialize). *)
LEMMA InitInvariant == Init => StoreInvariant
<1> SUFFICES ASSUME Init PROVE StoreInvariant BY Zenon
<1>1. FreshAttempt("idle", 0) \in Attempt BY Zenon, FreshTypes, OverlayTypes DEF Result, Phase
<1>2. TypeOK BY <1>1 DEF Init, TypeOK, NoBarrier
<1>3. WriterSerial BY DEF Init, WriterSerial
<1>4. OutcomesTrue BY DEF Init, OutcomesTrue
<1>5. \A c \in Requests : attempts[c].phase = "idle" BY Zenon DEF Init, FreshAttempt
<1>6. WaitersCommitted BY <1>5 DEF Init, WaitersCommitted
<1>7. AcknowledgedDurable BY Zenon, <1>5 DEF AcknowledgedDurable
<1>8. \A c \in Requests : ReadsSound(log, attempts[c]) BY Zenon, FreshReads DEF Init
<1> QED BY Zenon, <1>2, <1>3, <1>4, <1>6, <1>7, <1>8 DEF StoreInvariant

-----------------------------------------------------------------------------
(* Steps of one attempt                                                    *)

(* A step that only changes one attempt, before its transaction ends, keeps   *)
(* the invariant: calls and commands of the attempt, the start of its         *)
(* transaction, the return or the panic of its operation.                   *)
LEMMA AttemptStep ==
    ASSUME StoreInvariant, NEW c \in Requests, NEW b \in Attempt, ReadsSound(log, b),
           UNCHANGED <<log, synced, queue, durability, crashes>>,
           attempts' = [attempts EXCEPT ![c] = b],
           \/ b.phase = attempts[c].phase /\ b.result = attempts[c].result
           \/ attempts[c].phase = "open" /\ b.phase = "finishing"
           \/ attempts[c].phase = "open" /\ b.phase = "answered" /\ b.result = "failed",
           b.snapshot = attempts[c].snapshot \/ (b.snapshot = Len(log) /\ Driven(c))
    PROVE  StoreInvariant'
<1>0. /\ TypeOK /\ WriterSerial /\ OutcomesTrue /\ WaitersCommitted /\ AcknowledgedDurable
      /\ \A d \in Requests : ReadsSound(log, attempts[d])
  BY Zenon DEF StoreInvariant
<1>1. /\ attempts \in [Requests -> Attempt] /\ queue \in Seq(Requests) /\ log \in Seq(Entry)
      /\ durability.channel \in Seq(Requests) /\ durability.group \in SUBSET Requests
  BY Zenon, <1>0 DEF TypeOK
<1>2. attempts'[c] = b /\ \A d \in Requests : d # c => attempts'[d] = attempts[d] BY Zenon, <1>1
<1>3. TypeOK' BY Zenon, <1>0, <1>1 DEF TypeOK
<1>4. WriterSerial'
  <2> SUFFICES ASSUME NEW i \in 1 .. Len(queue)
               PROVE  LET a == attempts'[queue[i]] IN
                      /\ a.phase \in {"open", "finishing", "answered"}
                      /\ a.phase = "answered" => a.result = "failed"
                      /\ a.snapshot = NotStarted \/ (i = 1 /\ a.snapshot = Len(log))
    BY <1>0 DEF WriterSerial
  <2>1. queue[i] \in Requests /\ queue[i] \notin Readers BY <1>0, <1>1 DEF WriterSerial
  <2>2. CASE queue[i] # c BY ZenonT(60), <2>1, <2>2, <1>0, <1>2 DEF WriterSerial
  <2>3. CASE queue[i] = c
    <3>1. Driven(c) => i = 1
      <4>1. Driven(c) => queue[1] = c BY <1>1, <2>1, <2>3 DEF Driven
      <4> QED BY <4>1, <2>3, <1>0 DEF WriterSerial
    <3>2. /\ attempts[c].phase \in {"open", "finishing", "answered"}
          /\ attempts[c].phase = "answered" => attempts[c].result = "failed"
          /\ attempts[c].snapshot = NotStarted \/ (i = 1 /\ attempts[c].snapshot = Len(log))
      BY Zenon, <2>3, <1>0 DEF WriterSerial
    <3> QED BY Zenon, <3>1, <3>2, <2>3, <1>2
  <2> QED BY Zenon, <2>2, <2>3
<1>5. OutcomesTrue'
  <2> SUFFICES ASSUME NEW i \in 1 .. Len(log)
               PROVE  LET a == attempts'[log[i].request] IN
                      \/ /\ a.phase \in {"settled", "waiting", "answered"}
                         /\ a.result \in {"ok", "unknown"}
                      \/ a.phase = "lost"
    BY Zenon, <1>0 DEF OutcomesTrue
  <2>1. log[i] \in Entry BY <1>1
  <2>2. log[i].request \in Requests BY Zenon, <2>1 DEF Entry
  <2> QED BY ZenonT(60), <2>2, <1>0, <1>2 DEF OutcomesTrue
<1>6. WaitersCommitted'
  <2>1. \A d \in Requests : attempts[d].phase \in {"settled", "waiting"}
                            \/ attempts'[d].phase \in {"settled", "waiting"}
                            => /\ attempts'[d].phase = attempts[d].phase
                               /\ attempts'[d].result = attempts[d].result
    BY Zenon, <1>2
  <2>2. \A d \in Requests : HasCommitted(d)' = HasCommitted(d) BY Zenon DEF HasCommitted
  <2>3. \A i \in 1 .. Len(durability.channel) : durability.channel[i] \in Requests BY <1>1
  <2> QED BY <2>1, <2>2, <2>3, <1>0, <1>1 DEF WaitersCommitted
<1>7. AcknowledgedDurable'
  <2>1. \A d \in Requests : attempts'[d].phase = "answered" /\ attempts'[d].result = "ok"
                            => attempts[d].phase = "answered" /\ attempts[d].result = "ok"
    BY Zenon, <1>2
  <2> QED BY Zenon, <2>1, <1>0 DEF AcknowledgedDurable
<1>8. \A d \in Requests : ReadsSound(log, attempts'[d])
  BY Zenon, <1>0, <1>2
<1>9. (\A d \in Requests : ReadsSound(log, attempts[d]))'
  BY Zenon, <1>8
<1> QED BY Zenon, <1>3, <1>4, <1>5, <1>6, <1>7, <1>9 DEF StoreInvariant

(* What the typing says of one attempt and of its parts (RocksDbAttempt). *)
LEMMA AttemptTypes ==
    ASSUME NEW a \in Attempt
    PROVE  /\ a.phase \in Phase
           /\ a.tries \in Nat /\ a.work \in Nat /\ a.snapshot \in Int
           /\ a.settlement \in {"open", "rejected", "capacity"}
           /\ a.pending \in Partial /\ a.staged \in Partial
           /\ a.seen \in Partial /\ a.batch \in Partial
           /\ a.channel \in Seq(Command)
           /\ a.slots \in [Slots -> Slot] /\ a.result \in Result
           /\ \A kind \in {"rejected", "capacity"} :
                 Rejected(a, kind) \in {"rejected", "capacity"}
           /\ IdleSlot \in Slot
           /\ a.work + 1 \in Nat
BY DEF Attempt, Rejected, IdleSlot, Slot, Stored

(* An attempt that only writes more, or that is answered, reads what it read. *)
LEMMA ReadsKept ==
    ASSUME NEW commits, NEW a, NEW b, ReadsSound(commits, a),
           b.snapshot = a.snapshot, b.seen = a.seen, b.batch = a.batch,
           b.slots = a.slots, b.channel = a.channel, b.result = a.result,
           DOMAIN a.staged \subseteq DOMAIN b.staged, DOMAIN b.pending \subseteq DOMAIN b.staged,
           \/ b.phase = a.phase
           \/ b.phase = "answered" /\ \A i \in 1 .. Len(a.channel) : a.channel[i].kind # "finish"
    PROVE  ReadsSound(commits, b)
<1>1. /\ b.snapshot \in {NotStarted} \cup 0 .. Len(commits)
      /\ DOMAIN b.batch \subseteq DOMAIN b.staged
  BY Zenon DEF ReadsSound
<1>2. \A k \in DOMAIN b.seen :
         b.snapshot # NotStarted /\ b.seen[k] = ContentsAfter(commits, b.snapshot)[k]
  BY ZenonT(60) DEF ReadsSound
<1>3. ASSUME NEW i \in 1 .. Len(b.channel)
      PROVE  /\ b.channel[i].kind = "apply" => DOMAIN b.channel[i].writes \subseteq DOMAIN b.staged
             /\ b.channel[i].kind = "finish" =>
                   b.phase = "finishing" /\ (b.result = "ok" => b.channel[i].commit)
             /\ b.channel[i].kind = "closed" => b.phase = "answered"
  <2>1. /\ a.channel[i].kind = "apply" => DOMAIN a.channel[i].writes \subseteq DOMAIN a.staged
        /\ a.channel[i].kind = "finish" =>
              a.phase = "finishing" /\ (a.result = "ok" => a.channel[i].commit)
        /\ a.channel[i].kind = "closed" => a.phase = "answered"
    BY Zenon, <1>3 DEF ReadsSound
  <2> QED BY SMTT(60), <1>3, <2>1
<1>4. ASSUME NEW s \in Slots, b.slots[s].state = "read", b.slots[s].key \notin DOMAIN b.staged
      PROVE  /\ b.snapshot # NotStarted
             /\ b.slots[s].value = ContentsAfter(commits, b.snapshot)[b.slots[s].key]
  <2>1. a.slots[s].state = "read" /\ a.slots[s].key \notin DOMAIN a.staged BY Zenon, <1>4
  <2>2. a.snapshot # NotStarted
        /\ a.slots[s].value = ContentsAfter(commits, a.snapshot)[a.slots[s].key]
    BY Zenon, <2>1 DEF ReadsSound
  <2> QED BY Zenon, <2>2
<1> QED BY Zenon, <1>1, <1>2, <1>3, <1>4 DEF ReadsSound

(* A write joins the buffer (native_stage). *)
LEMMA StageStep ==
    ASSUME StoreInvariant, NEW c \in Requests, NEW k \in Keys, NEW v \in Stored, Stage(c, k, v)
    PROVE  StoreInvariant'
<1>1. attempts \in [Requests -> Attempt] /\ ReadsSound(log, attempts[c])
  BY Zenon DEF StoreInvariant, TypeOK
<1> DEFINE a == attempts[c]
           write == [x \in {k} |-> v]
<1>2. a \in Attempt BY Zenon, <1>1
<1>n. a.work + 1 \in Nat BY Zenon, <1>2, AttemptTypes
<1> DEFINE n == a.work + 1
<1> HIDE DEF n
<1>3. CASE c \notin Readers
  <2> DEFINE b == [a EXCEPT !.work = n, !.pending = Overlay(@, write),
                            !.staged = Overlay(@, write)]
  <2>1. attempts' = [attempts EXCEPT ![c] = b] BY Zenon, <1>3, <1>1 DEF Stage, n
  <2>2. /\ Overlay(a.pending, write) \in Partial /\ Overlay(a.staged, write) \in Partial
        /\ DOMAIN Overlay(a.pending, write) = DOMAIN a.pending \cup DOMAIN write
        /\ DOMAIN Overlay(a.staged, write) = DOMAIN a.staged \cup DOMAIN write
    BY Zenon, <1>2, OverlayTypes, AttemptTypes
  <2>n. n \in Nat BY Zenon, <1>n DEF n
  <2>3. b \in Attempt BY Zenon, <1>2, <2>2, <2>n DEF Attempt
  <2>4. /\ b.phase = a.phase /\ b.result = a.result /\ b.snapshot = a.snapshot
        /\ b.seen = a.seen /\ b.channel = a.channel /\ b.slots = a.slots /\ b.batch = a.batch
        /\ b.pending = Overlay(a.pending, write) /\ b.staged = Overlay(a.staged, write)
    BY SMTT(20), <1>2 DEF Attempt
  <2> HIDE DEF b
  <2>5. DOMAIN a.staged \subseteq DOMAIN b.staged /\ DOMAIN b.pending \subseteq DOMAIN b.staged
    BY Zenon, <1>1, <2>2, <2>4 DEF ReadsSound
  <2>6. ReadsSound(log, b) BY Zenon, <1>1, <2>4, <2>5, ReadsKept
  <2> QED BY Zenon, <2>1, <2>3, <2>4, <2>6, AttemptStep DEF Stage
<1>4. CASE c \in Readers
  <2> DEFINE b == [a EXCEPT !.work = n, !.settlement = Rejected(a, "rejected")]
  <2>1. attempts' = [attempts EXCEPT ![c] = b] BY Zenon, <1>4, <1>1 DEF Stage, n
  <2>2. Rejected(a, "rejected") \in {"rejected", "capacity"} BY Zenon, <1>2, AttemptTypes
  <2>n. n \in Nat BY Zenon, <1>n DEF n
  <2>3. b \in Attempt BY Zenon, <1>2, <2>2, <2>n DEF Attempt
  <2>4. /\ b.phase = a.phase /\ b.result = a.result /\ b.snapshot = a.snapshot
        /\ b.seen = a.seen /\ b.channel = a.channel /\ b.slots = a.slots /\ b.batch = a.batch
        /\ b.pending = a.pending /\ b.staged = a.staged
    BY Zenon, <1>2 DEF Attempt
  <2> HIDE DEF b
  <2>5. DOMAIN a.staged \subseteq DOMAIN b.staged /\ DOMAIN b.pending \subseteq DOMAIN b.staged
    BY Zenon, <1>1, <2>4 DEF ReadsSound
  <2>6. ReadsSound(log, b) BY Zenon, <1>1, <2>4, <2>5, ReadsKept
  <2> QED BY Zenon, <2>1, <2>3, <2>4, <2>6, AttemptStep DEF Stage
<1> QED BY Zenon, <1>3, <1>4

(* Sending a command (mpsc::UnboundedSender). *)
LEMMA SendCommand ==
    ASSUME NEW channel \in Seq(Command), NEW x \in Command
    PROVE  /\ Append(channel, x) \in Seq(Command)
           /\ \A i \in 1 .. Len(Append(channel, x)) :
                 \/ Append(channel, x)[i] = x
                 \/ i \in 1 .. Len(channel) /\ Append(channel, x)[i] = channel[i]
OBVIOUS

(* Receiving a command (mpsc::UnboundedReceiver). *)
LEMMA ReceiveCommand ==
    ASSUME NEW channel \in Seq(Command), channel # <<>>
    PROVE  /\ Tail(channel) \in Seq(Command) /\ Head(channel) \in Command
           /\ Head(channel) = channel[1] /\ 1 \in 1 .. Len(channel)
           /\ \A i \in 1 .. Len(Tail(channel)) :
                 i + 1 \in 1 .. Len(channel) /\ Tail(channel)[i] = channel[i + 1]
OBVIOUS

(* A call begins to wait for the worker (native_get_batch): the attempt is    *)
(* well formed after the buffered writes or the read are sent.              *)
LEMMA SendSound ==
    ASSUME NEW a \in Attempt, ReadsSound(log, a), NEW s \in Slots, NEW k \in Keys,
           NEW x \in Command, NEW state \in {"flushing", "reading"},
           x.kind = "apply" => x.writes = a.pending,
           x.kind \in {"apply", "get"}
    PROVE  LET b == Send(a, s, state, k, x) IN
           /\ b \in Attempt /\ ReadsSound(log, b)
           /\ b.phase = a.phase /\ b.result = a.result /\ b.snapshot = a.snapshot
           /\ b.work = a.work /\ b.staged = a.staged
<1> DEFINE slot == [state |-> state, key |-> k, value |-> NoValue]
           slots == [a.slots EXCEPT ![s] = slot]
           channel == Append(a.channel, x)
           b == [a EXCEPT !.slots = slots, !.channel = channel]
<1>1. Send(a, s, state, k, x) = b BY Zenon DEF Send, Attempt
<1>2. slot \in Slot BY Zenon DEF Slot, Stored
<1>3. slots \in [Slots -> Slot] BY Zenon, <1>2, AttemptTypes
<1>4. a.channel \in Seq(Command) /\ channel \in Seq(Command) BY Zenon, AttemptTypes, SendCommand
<1>5. \A t \in Slots : slots[t].state = "read" => slots[t] = a.slots[t]
  BY Zenon, AttemptTypes
<1>6. \A i \in 1 .. Len(channel) :
         channel[i] = x \/ (i \in 1 .. Len(a.channel) /\ channel[i] = a.channel[i])
  BY Zenon, <1>4, SendCommand
<1> HIDE DEF slots, channel
<1>7. b \in Attempt BY Zenon, <1>3, <1>4 DEF Attempt
<1>8. /\ b.phase = a.phase /\ b.result = a.result /\ b.snapshot = a.snapshot
      /\ b.seen = a.seen /\ b.channel = channel /\ b.slots = slots /\ b.batch = a.batch
      /\ b.pending = a.pending /\ b.staged = a.staged /\ b.work = a.work
  BY Zenon DEF Attempt
<1> HIDE DEF b
<1>9. DOMAIN a.pending \subseteq DOMAIN a.staged BY Zenon DEF ReadsSound
<1>10. ReadsSound(log, b)
  <2>1. \A i \in 1 .. Len(b.channel) :
          /\ b.channel[i].kind = "apply" => DOMAIN b.channel[i].writes \subseteq DOMAIN b.staged
          /\ b.channel[i].kind = "finish" =>
                b.phase = "finishing" /\ (b.result = "ok" => b.channel[i].commit)
          /\ b.channel[i].kind = "closed" => b.phase = "answered"
    BY SMTT(60), <1>6, <1>8, <1>9 DEF ReadsSound
  <2>2. \A t \in Slots :
          b.slots[t].state = "read" /\ b.slots[t].key \notin DOMAIN b.staged
          => /\ b.snapshot # NotStarted
             /\ b.slots[t].value = ContentsAfter(log, b.snapshot)[b.slots[t].key]
    BY <1>5, <1>8 DEF ReadsSound
  <2> QED BY <1>8, <2>1, <2>2 DEF ReadsSound
<1> QED BY Zenon, <1>1, <1>7, <1>8, <1>10

(* Clearing the buffer and counting the call keep an attempt well formed      *)
(* (dispatch_pending, begin_call).                                          *)
LEMMA BufferSound ==
    ASSUME NEW a \in Attempt, ReadsSound(log, a), NEW n \in Nat,
           NEW pending \in {a.pending, NoWrites}
    PROVE  LET b == [a EXCEPT !.pending = pending, !.work = n] IN
           /\ b \in Attempt /\ ReadsSound(log, b)
           /\ b.phase = a.phase /\ b.result = a.result /\ b.snapshot = a.snapshot
<1> DEFINE b == [a EXCEPT !.pending = pending, !.work = n]
<1>1. pending \in Partial BY Zenon, AttemptTypes, OverlayTypes
<1>2. b \in Attempt BY Zenon, <1>1 DEF Attempt
<1>3. /\ b.phase = a.phase /\ b.result = a.result /\ b.snapshot = a.snapshot
      /\ b.seen = a.seen /\ b.channel = a.channel /\ b.slots = a.slots /\ b.batch = a.batch
      /\ b.pending = pending /\ b.staged = a.staged
  BY Zenon DEF Attempt
<1> HIDE DEF b
<1>4. DOMAIN pending \subseteq DOMAIN a.staged BY Zenon, OverlayTypes DEF ReadsSound
<1>5. ReadsSound(log, b) BY SMTT(60), <1>3, <1>4 DEF ReadsSound
<1> QED BY Zenon, <1>2, <1>3, <1>5 DEF b

(* A read begins: the buffer is flushed first (native_get_batch). *)
LEMMA BeginGetStep ==
    ASSUME StoreInvariant, NEW c \in Requests, NEW s \in Slots, NEW k \in Keys, BeginGet(c, s, k)
    PROVE  StoreInvariant'
<1>1. attempts \in [Requests -> Attempt] /\ ReadsSound(log, attempts[c])
  BY Zenon DEF StoreInvariant, TypeOK
<1> DEFINE a == attempts[c]
<1>2. a \in Attempt /\ a.work + 1 \in Nat /\ a.pending \in Partial BY Zenon, <1>1, AttemptTypes
<1>3. CASE a.pending = NoWrites
  <2> DEFINE x == [kind |-> "get", slot |-> s, key |-> k]
             d == Send(a, s, "reading", k, x)
             b == [d EXCEPT !.pending = d.pending, !.work = a.work + 1]
  <2>1. x \in Command /\ x.kind = "get" BY Zenon DEF Command
  <2>2. /\ d \in Attempt /\ ReadsSound(log, d) /\ d.work = a.work
        /\ d.phase = a.phase /\ d.result = a.result /\ d.snapshot = a.snapshot
    BY ZenonT(60), <1>1, <1>2, <2>1, SendSound
  <2>3. /\ b \in Attempt /\ ReadsSound(log, b)
        /\ b.phase = a.phase /\ b.result = a.result /\ b.snapshot = a.snapshot
    BY ZenonT(60), <1>2, <2>2, BufferSound
  <2>4. FlushBeforeRead(a, s, k) = d BY Zenon, <1>3 DEF FlushBeforeRead, SendGet
  <2> HIDE DEF d
  <2>5. [d EXCEPT !.work = @ + 1] = b BY Zenon, <2>2 DEF Attempt
  <2>6. attempts' = [attempts EXCEPT ![c] = b] BY Zenon, <2>4, <2>5 DEF BeginGet
  <2> HIDE DEF b
  <2> QED BY Zenon, <2>3, <2>6, AttemptStep DEF BeginGet
<1>4. CASE a.pending # NoWrites
  <2> DEFINE x == [kind |-> "apply", slot |-> s, writes |-> a.pending]
             d == Send(a, s, "flushing", k, x)
             b == [d EXCEPT !.pending = NoWrites, !.work = a.work + 1]
  <2>1. x \in Command /\ x.kind = "apply" /\ x.writes = a.pending BY Zenon, <1>2 DEF Command
  <2>2. /\ d \in Attempt /\ ReadsSound(log, d) /\ d.work = a.work
        /\ d.phase = a.phase /\ d.result = a.result /\ d.snapshot = a.snapshot
    BY <1>1, <1>2, <2>1, SendSound
  <2>3. /\ b \in Attempt /\ ReadsSound(log, b)
        /\ b.phase = a.phase /\ b.result = a.result /\ b.snapshot = a.snapshot
    BY Zenon, <1>2, <2>2, BufferSound
  <2>4. FlushBeforeRead(a, s, k) = [d EXCEPT !.pending = NoWrites]
    BY Zenon, <1>4 DEF FlushBeforeRead
  <2> HIDE DEF d
  <2>5. [[d EXCEPT !.pending = NoWrites] EXCEPT !.work = @ + 1] = b BY Zenon, <2>2 DEF Attempt
  <2>6. attempts' = [attempts EXCEPT ![c] = b] BY Zenon, <2>4, <2>5 DEF BeginGet
  <2> HIDE DEF b
  <2> QED BY Zenon, <2>3, <2>6, AttemptStep DEF BeginGet
<1> QED BY Zenon, <1>3, <1>4

(* Every slot of attempt a that holds a value the attempt did not stage itself  *)
(* holds the one of its snapshot.                                            *)
SlotsSound(commits, a) ==
    \A s \in Slots :
        a.slots[s].state = "read" /\ a.slots[s].key \notin DOMAIN a.staged
        => /\ a.snapshot # NotStarted
           /\ a.slots[s].value = ContentsAfter(commits, a.snapshot)[a.slots[s].key]

(* A slot of b keeps what it had in a, or took a value of the snapshot. *)
SlotsTaken(commits, a, b) ==
    \A s \in Slots :
        b.slots[s].state = "read" =>
            \/ b.slots[s] = a.slots[s]
            \/ b.slots[s].key \notin DOMAIN b.staged =>
                   /\ b.snapshot # NotStarted
                   /\ b.slots[s].value = ContentsAfter(commits, b.snapshot)[b.slots[s].key]

(* Such a step keeps the slots right. *)
LEMMA SlotsKept ==
    ASSUME NEW commits, NEW a, NEW b, b.staged = a.staged, b.snapshot = a.snapshot,
           SlotsSound(commits, a), SlotsTaken(commits, a, b)
    PROVE  SlotsSound(commits, b)
<1> SUFFICES ASSUME NEW s \in Slots, b.slots[s].state = "read",
                    b.slots[s].key \notin DOMAIN b.staged, b.slots[s] = a.slots[s]
             PROVE  /\ b.snapshot # NotStarted
                    /\ b.slots[s].value = ContentsAfter(commits, b.snapshot)[b.slots[s].key]
  BY Zenon DEF SlotsSound, SlotsTaken
<1>1. a.slots[s].state = "read" /\ a.slots[s].key \notin DOMAIN a.staged BY Zenon
<1>2. /\ a.snapshot # NotStarted
      /\ a.slots[s].value = ContentsAfter(commits, a.snapshot)[a.slots[s].key]
  BY Zenon, <1>1 DEF SlotsSound
<1> QED BY Zenon, <1>2

(* What a call or a command may do to its attempt (execute_command, reply,    *)
(* NativeAttemptCall): take commands, move calls on, reject, and record       *)
(* values of the snapshot.                                                  *)
LEMMA CallStep ==
    ASSUME StoreInvariant, NEW c \in Requests, NEW b \in Attempt,
           UNCHANGED <<log, synced, queue, durability, crashes>>,
           attempts' = [attempts EXCEPT ![c] = b],
           b.phase = attempts[c].phase, b.result = attempts[c].result,
           b.snapshot = attempts[c].snapshot, b.pending = attempts[c].pending,
           b.staged = attempts[c].staged,
           \A i \in 1 .. Len(b.channel) :
               \E j \in 1 .. Len(attempts[c].channel) : b.channel[i] = attempts[c].channel[j],
           SlotsSound(log, b),
           \A k \in DOMAIN b.seen :
               b.snapshot # NotStarted /\ b.seen[k] = ContentsAfter(log, b.snapshot)[k],
           DOMAIN b.batch \subseteq DOMAIN b.staged
    PROVE  StoreInvariant'
<1>1. attempts \in [Requests -> Attempt] /\ ReadsSound(log, attempts[c])
  BY SMTT(20) DEF StoreInvariant, TypeOK
<1>2. ReadsSound(log, b)
  <2>1. \A i \in 1 .. Len(b.channel) :
          /\ b.channel[i].kind = "apply" => DOMAIN b.channel[i].writes \subseteq DOMAIN b.staged
          /\ b.channel[i].kind = "finish" =>
                b.phase = "finishing" /\ (b.result = "ok" => b.channel[i].commit)
          /\ b.channel[i].kind = "closed" => b.phase = "answered"
    <3> SUFFICES ASSUME NEW i \in 1 .. Len(b.channel)
                 PROVE  /\ b.channel[i].kind = "apply" =>
                              DOMAIN b.channel[i].writes \subseteq DOMAIN b.staged
                        /\ b.channel[i].kind = "finish" =>
                              b.phase = "finishing" /\ (b.result = "ok" => b.channel[i].commit)
                        /\ b.channel[i].kind = "closed" => b.phase = "answered"
      BY SMTT(60)
    <3>1. PICK j \in 1 .. Len(attempts[c].channel) : b.channel[i] = attempts[c].channel[j]
      BY Zenon
    <3>2. /\ attempts[c].channel[j].kind = "apply" =>
                DOMAIN attempts[c].channel[j].writes \subseteq DOMAIN attempts[c].staged
          /\ attempts[c].channel[j].kind = "finish" =>
                /\ attempts[c].phase = "finishing"
                /\ attempts[c].result = "ok" => attempts[c].channel[j].commit
          /\ attempts[c].channel[j].kind = "closed" => attempts[c].phase = "answered"
      BY Zenon, <1>1, <3>1 DEF ReadsSound
    <3> QED BY SMTT(60), <3>1, <3>2
  <2> QED BY SMTT(60), <1>1, <2>1 DEF ReadsSound, SlotsSound
<1> QED BY Zenon, <1>2, AttemptStep

(* The facts of an attempt that a call step keeps (NativeAttemptSettlement). *)
LEMMA CallFacts ==
    ASSUME StoreInvariant, NEW c \in Requests
    PROVE  LET a == attempts[c] IN
           /\ a \in Attempt
           /\ \A i \in 1 .. Len(a.channel) :
                 \E j \in 1 .. Len(a.channel) : a.channel[i] = a.channel[j]
           /\ SlotsSound(log, a)
           /\ \A k \in DOMAIN a.seen :
                 a.snapshot # NotStarted /\ a.seen[k] = ContentsAfter(log, a.snapshot)[k]
           /\ DOMAIN a.batch \subseteq DOMAIN a.staged
           /\ attempts \in [Requests -> Attempt]
BY Zenon DEF StoreInvariant, TypeOK, ReadsSound, SlotsSound

(* A call finds the work budget exhausted (charge_work). *)
LEMMA ExhaustBudgetStep ==
    ASSUME StoreInvariant, NEW c \in Requests, ExhaustBudget(c)
    PROVE  StoreInvariant'
<1> DEFINE a == attempts[c]
           b == [a EXCEPT !.settlement = Rejected(a, "capacity")]
<1>1. a \in Attempt BY Zenon, CallFacts
<1>2. Rejected(a, "capacity") \in {"open", "rejected", "capacity"} BY Zenon, <1>1, AttemptTypes
<1>3. b \in Attempt BY Zenon, <1>1, <1>2 DEF Attempt
<1>4. /\ b.phase = a.phase /\ b.result = a.result /\ b.snapshot = a.snapshot
      /\ b.pending = a.pending /\ b.staged = a.staged /\ b.channel = a.channel
      /\ b.slots = a.slots /\ b.seen = a.seen /\ b.batch = a.batch
  BY Zenon, <1>1 DEF Attempt
<1>5. attempts' = [attempts EXCEPT ![c] = b] BY Zenon DEF ExhaustBudget
<1>6. UNCHANGED <<log, synced, queue, durability, crashes>> BY Zenon DEF ExhaustBudget
<1> HIDE DEF b
<1>c. \A i \in 1 .. Len(b.channel) :
         \E j \in 1 .. Len(attempts[c].channel) : b.channel[i] = attempts[c].channel[j]
  BY Zenon, <1>4
<1>d. /\ \A k \in DOMAIN b.seen :
           b.snapshot # NotStarted /\ b.seen[k] = ContentsAfter(log, b.snapshot)[k]
      /\ DOMAIN b.batch \subseteq DOMAIN b.staged
  BY <1>4, CallFacts
<1>s. SlotsSound(log, b)
  <2>1. SlotsTaken(log, attempts[c], b) BY Zenon, <1>4 DEF SlotsTaken
  <2> QED BY Zenon, <1>4, <2>1, CallFacts, SlotsKept
<1> QED BY Zenon, <1>3, <1>4, <1>5, <1>6, <1>c, <1>d, <1>s, CallStep

(* A waiting call is dropped (Drop for NativeAttemptCall), or gets an error   *)
(* (NativeAttemptCall::complete).                                           *)
LEMMA EndCallStep ==
    ASSUME StoreInvariant, NEW c \in Requests, NEW s \in Slots,
           NEW kind \in {"rejected", "capacity"},
           attempts' = [attempts EXCEPT ![c].slots[s] = IdleSlot,
                                        ![c].settlement = Rejected(attempts[c], kind)],
           UNCHANGED <<log, synced, queue, durability, crashes>>
    PROVE  StoreInvariant'
<1> DEFINE a == attempts[c]
           slots == [a.slots EXCEPT ![s] = IdleSlot]
           b == [a EXCEPT !.slots = slots, !.settlement = Rejected(a, kind)]
<1>1. a \in Attempt BY Zenon, CallFacts
<1>2. Rejected(a, kind) \in {"open", "rejected", "capacity"} /\ slots \in [Slots -> Slot]
  BY Zenon, <1>1, AttemptTypes
<1>3. \A t \in Slots : slots[t].state = "read" => slots[t] = a.slots[t]
  BY Zenon, <1>1, AttemptTypes DEF IdleSlot
<1>5. attempts' = [attempts EXCEPT ![c] = b] BY Zenon, <1>1
<1> HIDE DEF slots
<1>6. b \in Attempt BY Zenon, <1>1, <1>2 DEF Attempt
<1>7. /\ b.phase = a.phase /\ b.result = a.result /\ b.snapshot = a.snapshot
      /\ b.pending = a.pending /\ b.staged = a.staged /\ b.channel = a.channel
      /\ b.slots = slots /\ b.seen = a.seen /\ b.batch = a.batch
  BY Zenon, <1>1 DEF Attempt
<1> HIDE DEF b
<1>8. SlotsSound(log, b)
  <2>1. SlotsTaken(log, attempts[c], b) BY Zenon, <1>3, <1>7 DEF SlotsTaken
  <2> QED BY Zenon, <1>7, <2>1, CallFacts, SlotsKept
<1>c. \A i \in 1 .. Len(b.channel) :
         \E j \in 1 .. Len(attempts[c].channel) : b.channel[i] = attempts[c].channel[j]
  BY Zenon, <1>7
<1>d. /\ \A k \in DOMAIN b.seen :
           b.snapshot # NotStarted /\ b.seen[k] = ContentsAfter(log, b.snapshot)[k]
      /\ DOMAIN b.batch \subseteq DOMAIN b.staged
  BY <1>7, CallFacts
<1> QED BY Zenon, <1>5, <1>6, <1>7, <1>8, <1>c, <1>d, CallStep

(* A call goes on after an answer (flush_pending, native_get_batch). *)
LEMMA ResumeCallStep ==
    ASSUME StoreInvariant, NEW c \in Requests, NEW s \in Slots, ResumeCall(c, s)
    PROVE  StoreInvariant'
<1> DEFINE a == attempts[c]
           slot == a.slots[s]
<1>1. a \in Attempt /\ ReadsSound(log, a) BY Zenon, CallFacts DEF StoreInvariant
<1>2. slot \in Slot BY Zenon, <1>1, AttemptTypes
<1>3. UNCHANGED <<log, synced, queue, durability, crashes>> BY Zenon DEF ResumeCall
<1>4. CASE slot.state = "flushed" /\ attempts' = [attempts EXCEPT ![c] = SendGet(a, s, slot.key)]
  <2>1. slot.key \in Keys BY Zenon, <1>2, <1>4, SlotFields
  <2> DEFINE k == slot.key
             x == [kind |-> "get", slot |-> s, key |-> k]
             b == Send(a, s, "reading", k, x)
  <2>2. x \in Command /\ x.kind = "get" BY SMTT(20), <2>1 DEF Command
  <2>3. /\ b \in Attempt /\ ReadsSound(log, b)
        /\ b.phase = a.phase /\ b.result = a.result /\ b.snapshot = a.snapshot
    BY ZenonT(60), <1>1, <2>1, <2>2, SendSound
  <2>4. attempts' = [attempts EXCEPT ![c] = b] BY Zenon, <1>4 DEF SendGet
  <2> HIDE DEF b
  <2> QED BY Zenon, <1>3, <2>3, <2>4, AttemptStep
<1>5. CASE /\ slot.state = "read"
           /\ attempts' = [attempts EXCEPT
                 ![c].slots[s] = IdleSlot,
                 ![c].seen = IF slot.key \in DOMAIN a.staged THEN @
                             ELSE Overlay(@, [x \in {slot.key} |-> slot.value])]
  <2> DEFINE slots == [a.slots EXCEPT ![s] = IdleSlot]
             value == [x \in {slot.key} |-> slot.value]
             seen == IF slot.key \in DOMAIN a.staged THEN a.seen ELSE Overlay(a.seen, value)
             b == [a EXCEPT !.slots = slots, !.seen = seen]
  <2>1. attempts' = [attempts EXCEPT ![c] = b] BY Zenon, <1>1, <1>5
  <2>2. slots \in [Slots -> Slot] BY Zenon, <1>1, AttemptTypes
  <2>3. slot.key \in Keys /\ slot.value \in Stored BY Zenon, <1>2, <1>5, SlotFields
  <2>4. a.seen \in Partial /\ value \in Partial BY Zenon, <1>1, <2>3, AttemptTypes, OverlayTypes
  <2>5. seen \in Partial BY Zenon, <2>4, OverlayTypes
  <2>6. \A k \in DOMAIN seen :
           a.snapshot # NotStarted /\ seen[k] = ContentsAfter(log, a.snapshot)[k]
    <3>1. CASE slot.key \in DOMAIN a.staged BY Zenon, <3>1, CallFacts
    <3>2. CASE slot.key \notin DOMAIN a.staged
      <4>1. a.snapshot # NotStarted /\ slot.value = ContentsAfter(log, a.snapshot)[slot.key]
        BY Zenon, <3>2, <1>5, CallFacts DEF SlotsSound
      <4>2. \A k \in DOMAIN a.seen : a.seen[k] = ContentsAfter(log, a.snapshot)[k]
        BY Zenon, CallFacts
      <4> QED BY Zenon, <3>2, <4>1, <4>2 DEF Overlay
    <3> QED BY Zenon, <3>1, <3>2
  <2>7. \A t \in Slots : slots[t].state = "read" => slots[t] = a.slots[t]
    BY Zenon, <1>1, AttemptTypes DEF IdleSlot
  <2> HIDE DEF slots, seen
  <2>8. b \in Attempt BY Zenon, <1>1, <2>2, <2>5 DEF Attempt
  <2>9. /\ b.phase = a.phase /\ b.result = a.result /\ b.snapshot = a.snapshot
        /\ b.pending = a.pending /\ b.staged = a.staged /\ b.channel = a.channel
        /\ b.slots = slots /\ b.seen = seen /\ b.batch = a.batch
    BY Zenon, <1>1 DEF Attempt
  <2> HIDE DEF b
  <2>10. \A i \in 1 .. Len(b.channel) :
            \E j \in 1 .. Len(attempts[c].channel) : b.channel[i] = attempts[c].channel[j]
    BY Zenon, <2>9
  <2>11. SlotsSound(log, b)
    <3>1. SlotsTaken(log, attempts[c], b) BY Zenon, <2>7, <2>9 DEF SlotsTaken
    <3> QED BY Zenon, <2>9, <3>1, CallFacts, SlotsKept
  <2>12. /\ \A k \in DOMAIN b.seen :
              b.snapshot # NotStarted /\ b.seen[k] = ContentsAfter(log, b.snapshot)[k]
         /\ DOMAIN b.batch \subseteq DOMAIN b.staged
    BY ZenonT(60), <2>6, <2>9, CallFacts
  <2> QED BY Zenon, <1>3, <2>1, <2>8, <2>9, <2>10, <2>11, <2>12, CallStep
<1>6. CASE \E kind \in {"rejected", "capacity"} :
             attempts' = [attempts EXCEPT ![c].slots[s] = IdleSlot,
                                          ![c].settlement = Rejected(a, kind)]
  BY Zenon, <1>3, <1>6, EndCallStep
<1> QED BY Zenon, <1>4, <1>5, <1>6 DEF ResumeCall

(* The worker takes a command and moves its call on (execute_command, reply). *)
LEMMA CommandStep ==
    ASSUME StoreInvariant, NEW c \in Requests, NEW b \in Attempt,
           attempts[c].channel # <<>>,
           UNCHANGED <<log, synced, queue, durability, crashes>>,
           attempts' = [attempts EXCEPT ![c] = b],
           b.phase = attempts[c].phase, b.result = attempts[c].result,
           b.snapshot = attempts[c].snapshot, b.pending = attempts[c].pending,
           b.staged = attempts[c].staged, b.seen = attempts[c].seen,
           b.channel = Tail(attempts[c].channel),
           DOMAIN b.batch \subseteq DOMAIN b.staged,
           SlotsTaken(log, attempts[c], b)
    PROVE  StoreInvariant'
<1> DEFINE a == attempts[c]
<1>1. a \in Attempt BY Zenon, CallFacts
<1>2. a.channel \in Seq(Command) BY Zenon, <1>1, AttemptTypes
<1>3. \A i \in 1 .. Len(Tail(a.channel)) :
         i + 1 \in 1 .. Len(a.channel) /\ Tail(a.channel)[i] = a.channel[i + 1]
  BY Zenon, <1>2, ReceiveCommand
<1>4. \A i \in 1 .. Len(b.channel) :
         \E j \in 1 .. Len(attempts[c].channel) : b.channel[i] = attempts[c].channel[j]
  BY SMTT(60), <1>3
<1>5. SlotsSound(log, b)
  BY Zenon, CallFacts, SlotsKept
<1>6. \A k \in DOMAIN b.seen :
         b.snapshot # NotStarted /\ b.seen[k] = ContentsAfter(log, b.snapshot)[k]
  BY ZenonT(60), CallFacts
<1> QED BY Zenon, <1>4, <1>5, <1>6, CallStep

(* A command fails (execute_command). *)
LEMMA CommandFailsStep ==
    ASSUME StoreInvariant, NEW c \in Requests, CommandFails(c)
    PROVE  StoreInvariant'
<1> DEFINE a == attempts[c]
           command == Head(a.channel)
<1>1. a \in Attempt /\ attempts \in [Requests -> Attempt] BY Zenon, CallFacts
<1>2. a.channel # <<>> /\ command.kind \in {"apply", "get"} BY Zenon DEF CommandFails, Receives
<1>3. a.channel \in Seq(Command) /\ a.slots \in [Slots -> Slot] BY Zenon, <1>1, AttemptTypes
<1>4. Tail(a.channel) \in Seq(Command) /\ command \in Command BY Zenon, <1>2, <1>3, ReceiveCommand
<1>5. command.slot \in Slots BY Zenon, <1>2, <1>4, CommandFields
<1>6. PICK kind \in {"rejected", "capacity"} :
         attempts' = [attempts EXCEPT
             ![c].channel = Tail(@),
             ![c].settlement = Rejected(a, kind),
             ![c].slots[command.slot] =
                 IF Awaited(a, command) THEN [@ EXCEPT !.state = "error"] ELSE @]
  BY ZenonT(40) DEF CommandFails
<1> DEFINE old == a.slots[command.slot]
           slot == IF Awaited(a, command) THEN [old EXCEPT !.state = "error"] ELSE old
           slots == [a.slots EXCEPT ![command.slot] = slot]
           b == [a EXCEPT !.channel = Tail(a.channel), !.settlement = Rejected(a, kind),
                          !.slots = slots]
<1>7. attempts' = [attempts EXCEPT ![c] = b] BY ZenonT(60), <1>1, <1>6
<1>8. old \in Slot BY Zenon, <1>3, <1>5
<1>9. slot \in Slot /\ (slot.state = "read" => slot = old)
  <2>1. CASE Awaited(a, command)
    <3>1. old.state \in {"flushing", "reading"} BY Zenon, <2>1 DEF Awaited
    <3>2. [old EXCEPT !.state = "error"] \in Slot BY Zenon, <3>1, <1>8, SlotFields
    <3>3. [old EXCEPT !.state = "error"].state = "error" BY Zenon, <3>1, <1>8 DEF Slot, IdleSlot
    <3> QED BY Zenon, <2>1, <3>2, <3>3
  <2>2. CASE ~ Awaited(a, command) BY Zenon, <2>2, <1>8
  <2> QED BY Zenon, <2>1, <2>2
<1> HIDE DEF slot
<1>10. /\ slots \in [Slots -> Slot]
       /\ \A s \in Slots : slots[s].state = "read" => slots[s] = a.slots[s]
  BY Zenon, <1>3, <1>9
<1> HIDE DEF slots
<1>11. Rejected(a, kind) \in {"open", "rejected", "capacity"} BY Zenon, <1>1, AttemptTypes
<1>12. b \in Attempt BY Zenon, <1>1, <1>4, <1>10, <1>11 DEF Attempt
<1>13. /\ b.phase = a.phase /\ b.result = a.result /\ b.snapshot = a.snapshot
       /\ b.pending = a.pending /\ b.staged = a.staged /\ b.channel = Tail(a.channel)
       /\ b.slots = slots /\ b.seen = a.seen /\ b.batch = a.batch
  BY Zenon, <1>1 DEF Attempt
<1> HIDE DEF b
<1>14. UNCHANGED <<log, synced, queue, durability, crashes>> BY Zenon DEF CommandFails
<1>15. DOMAIN b.batch \subseteq DOMAIN b.staged BY Zenon, <1>13, CallFacts
<1>16. SlotsTaken(log, attempts[c], b) BY Zenon, <1>10, <1>13 DEF SlotsTaken
<1> QED BY Zenon, <1>2, <1>7, <1>12, <1>13, <1>14, <1>15, <1>16, CommandStep

(* Buffered writes enter the transaction's batch (apply_changes). *)
LEMMA ApplyBatchStep ==
    ASSUME StoreInvariant, NEW c \in Requests, ApplyBatch(c)
    PROVE  StoreInvariant'
<1> DEFINE a == attempts[c]
           command == Head(a.channel)
<1>1. /\ a \in Attempt /\ attempts \in [Requests -> Attempt] /\ ReadsSound(log, a)
  BY Zenon, CallFacts DEF StoreInvariant
<1>2. a.channel # <<>> /\ command.kind = "apply" BY Zenon DEF ApplyBatch, Receives
<1>3. /\ a.channel \in Seq(Command) /\ a.slots \in [Slots -> Slot]
      /\ a.batch \in Partial /\ a.staged \in Partial
  BY Zenon, <1>1, AttemptTypes
<1>4. /\ Tail(a.channel) \in Seq(Command) /\ command \in Command
      /\ command = a.channel[1] /\ 1 \in 1 .. Len(a.channel)
  BY Zenon, <1>2, <1>3, ReceiveCommand
<1>5. command.slot \in Slots /\ command.writes \in Partial BY Zenon, <1>2, <1>4, CommandFields
<1>6. DOMAIN command.writes \subseteq DOMAIN a.staged /\ DOMAIN a.batch \subseteq DOMAIN a.staged
  BY ZenonT(60), <1>1, <1>2, <1>4 DEF ReadsSound
<1> DEFINE old == a.slots[command.slot]
           slot == [old EXCEPT !.state = "flushed"]
           slots == [a.slots EXCEPT ![command.slot] = slot]
           batch == Overlay(a.batch, command.writes)
           b == [a EXCEPT !.channel = Tail(a.channel), !.batch = batch, !.slots = slots]
<1>7. attempts' = [attempts EXCEPT ![c] = b]
  <2>1. attempts' = [attempts EXCEPT
            ![c].channel = Tail(@),
            ![c].batch = Overlay(@, command.writes),
            ![c].slots[command.slot] = [@ EXCEPT !.state = "flushed"]]
    BY Zenon DEF ApplyBatch
  <2> QED BY ZenonT(60), <1>1, <2>1
<1>8. old \in Slot /\ old.state = "flushing" BY Zenon, <1>2, <1>3, <1>5 DEF ApplyBatch, Awaited
<1>9. slot \in Slot /\ slot.state = "flushed"
  <2>1. slot \in Slot BY ZenonT(40), <1>8, SlotFields
  <2>2. slot.state = "flushed" BY Zenon, <1>8 DEF Slot, IdleSlot
  <2> QED BY Zenon, <2>1, <2>2
<1> HIDE DEF slot
<1>10. /\ slots \in [Slots -> Slot]
       /\ \A s \in Slots : slots[s].state = "read" => slots[s] = a.slots[s]
  BY Zenon, <1>3, <1>9
<1>11. batch \in Partial /\ DOMAIN batch = DOMAIN a.batch \cup DOMAIN command.writes
  BY Zenon, <1>3, <1>5, OverlayTypes
<1> HIDE DEF slots, batch
<1>12. b \in Attempt BY Zenon, <1>1, <1>4, <1>10, <1>11 DEF Attempt
<1>13. /\ b.phase = a.phase /\ b.result = a.result /\ b.snapshot = a.snapshot
       /\ b.pending = a.pending /\ b.staged = a.staged /\ b.channel = Tail(a.channel)
       /\ b.slots = slots /\ b.seen = a.seen /\ b.batch = batch
  BY Zenon, <1>1 DEF Attempt
<1> HIDE DEF b
<1>14. UNCHANGED <<log, synced, queue, durability, crashes>> BY Zenon DEF ApplyBatch
<1>15. DOMAIN b.batch \subseteq DOMAIN b.staged BY Zenon, <1>6, <1>11, <1>13
<1>16. SlotsTaken(log, attempts[c], b) BY Zenon, <1>10, <1>13 DEF SlotsTaken
<1> QED BY Zenon, <1>2, <1>7, <1>12, <1>13, <1>14, <1>15, <1>16, CommandStep

(* A read is served from the snapshot and the batch (load_native_values). *)
LEMMA GetBatchStep ==
    ASSUME StoreInvariant, NEW c \in Requests, GetBatch(c)
    PROVE  StoreInvariant'
<1> DEFINE a == attempts[c]
           command == Head(a.channel)
           db == ContentsAfter(log, a.snapshot)
           view == Overlay(db, a.batch)
<1>1. /\ a \in Attempt /\ attempts \in [Requests -> Attempt] /\ ReadsSound(log, a)
      /\ log \in Seq(Entry)
  BY Zenon, CallFacts DEF StoreInvariant, TypeOK
<1>2. a.channel # <<>> /\ command.kind = "get" /\ a.snapshot # NotStarted
  BY Zenon DEF GetBatch, Receives
<1>3. a.channel \in Seq(Command) /\ a.slots \in [Slots -> Slot] /\ a.batch \in Partial
  BY Zenon, <1>1, AttemptTypes
<1>4. Tail(a.channel) \in Seq(Command) /\ command \in Command BY Zenon, <1>2, <1>3, ReceiveCommand
<1>5. command.slot \in Slots /\ command.key \in Keys BY Zenon, <1>2, <1>4, CommandFields
<1>6. a.snapshot \in 0 .. Len(log) /\ DOMAIN a.batch \subseteq DOMAIN a.staged
  BY Zenon, <1>1, <1>2 DEF ReadsSound
<1>7. db \in [Keys -> Stored] BY Zenon, <1>1, <1>6, ContentsTypes
<1> HIDE DEF db
<1>8. view[command.key] \in Stored BY <1>3, <1>5, <1>7, OverlayTypes
<1>9. command.key \notin DOMAIN a.staged => view[command.key] = db[command.key]
  BY Zenon, <1>5, <1>6, <1>7 DEF Overlay
<1> HIDE DEF view
<1> DEFINE slot == [state |-> "read", key |-> command.key, value |-> view[command.key]]
           slots == [a.slots EXCEPT ![command.slot] = slot]
           b == [a EXCEPT !.channel = Tail(a.channel), !.slots = slots]
<1>10. attempts' = [attempts EXCEPT ![c] = b] BY Zenon, <1>1 DEF GetBatch, view, db
<1>11. slot \in Slot BY Zenon, <1>5, <1>8 DEF Slot
<1>12. /\ slots \in [Slots -> Slot]
       /\ \A s \in Slots : slots[s] = a.slots[s] \/ slots[s] = slot
  BY Zenon, <1>3, <1>5, <1>11
<1> HIDE DEF slots
<1>13. b \in Attempt BY Zenon, <1>1, <1>4, <1>12 DEF Attempt
<1>14. /\ b.phase = a.phase /\ b.result = a.result /\ b.snapshot = a.snapshot
       /\ b.pending = a.pending /\ b.staged = a.staged /\ b.channel = Tail(a.channel)
       /\ b.slots = slots /\ b.seen = a.seen /\ b.batch = a.batch
  BY Zenon, <1>1 DEF Attempt
<1> HIDE DEF b
<1>15. UNCHANGED <<log, synced, queue, durability, crashes>> BY Zenon DEF GetBatch
<1>16. DOMAIN b.batch \subseteq DOMAIN b.staged BY SMTT(20), <1>6, <1>14
<1>17. SlotsTaken(log, attempts[c], b)
  BY SMTT(60), <1>2, <1>9, <1>12, <1>14 DEF db, SlotsTaken
<1> QED BY Zenon, <1>2, <1>10, <1>13, <1>14, <1>15, <1>16, <1>17, CommandStep

(* The writer, or a reader's thread, opens the transaction (drive_attempt). *)
LEMMA StartNativeStep ==
    ASSUME StoreInvariant, NEW c \in Requests, StartNative(c)
    PROVE  StoreInvariant'
<1> DEFINE a == attempts[c]
           b == [a EXCEPT !.snapshot = Len(log)]
<1>1. /\ a \in Attempt /\ attempts \in [Requests -> Attempt] /\ ReadsSound(log, a)
      /\ log \in Seq(Entry)
  BY Zenon, CallFacts DEF StoreInvariant, TypeOK
<1>2. Len(log) \in Nat /\ Len(log) \in Int /\ Len(log) \in 0 .. Len(log) BY <1>1
<1>3. b \in Attempt BY Zenon, <1>1, <1>2 DEF Attempt
<1>4. /\ b.phase = a.phase /\ b.result = a.result /\ b.snapshot = Len(log)
      /\ b.pending = a.pending /\ b.staged = a.staged /\ b.channel = a.channel
      /\ b.slots = a.slots /\ b.seen = a.seen /\ b.batch = a.batch
  BY Zenon, <1>1 DEF Attempt
<1>5. attempts' = [attempts EXCEPT ![c] = b] BY Zenon DEF StartNative
<1>6. /\ UNCHANGED <<log, synced, queue, durability, crashes>>
      /\ Driven(c) /\ a.snapshot = NotStarted
  BY SMTT(20) DEF StartNative
<1> HIDE DEF b
<1>7. /\ \A k \in DOMAIN a.seen : FALSE
      /\ \A s \in Slots : ~ (a.slots[s].state = "read" /\ a.slots[s].key \notin DOMAIN a.staged)
  BY SMTT(20), <1>1, <1>6 DEF ReadsSound
<1>8. ReadsSound(log, b)
  <2>1. b.snapshot \in {NotStarted} \cup 0 .. Len(log) BY Zenon, <1>2, <1>4
  <2>2. \A k \in DOMAIN b.seen :
           b.snapshot # NotStarted /\ b.seen[k] = ContentsAfter(log, b.snapshot)[k]
    BY Zenon, <1>4, <1>7
  <2>3. /\ DOMAIN b.pending \subseteq DOMAIN b.staged
        /\ DOMAIN b.batch \subseteq DOMAIN b.staged
    BY Zenon, <1>1, <1>4 DEF ReadsSound
  <2>4. \A i \in 1 .. Len(b.channel) :
           /\ b.channel[i].kind = "apply" =>
                 DOMAIN b.channel[i].writes \subseteq DOMAIN b.staged
           /\ b.channel[i].kind = "finish" =>
                 /\ b.phase = "finishing"
                 /\ b.result = "ok" => b.channel[i].commit
           /\ b.channel[i].kind = "closed" => b.phase = "answered"
    <3>1. \A i \in 1 .. Len(a.channel) :
             /\ a.channel[i].kind = "apply" =>
                   DOMAIN a.channel[i].writes \subseteq DOMAIN a.staged
             /\ a.channel[i].kind = "finish" =>
                   /\ a.phase = "finishing"
                   /\ a.result = "ok" => a.channel[i].commit
             /\ a.channel[i].kind = "closed" => a.phase = "answered"
      BY Zenon, <1>1 DEF ReadsSound
    <3>2. /\ b.channel = a.channel /\ b.staged = a.staged
          /\ b.phase = a.phase /\ b.result = a.result
      BY Zenon, <1>4
    <3> HIDE DEF a
    <3> QED BY Zenon, <3>1, <3>2
  <2>5. \A s \in Slots :
           b.slots[s].state = "read" /\ b.slots[s].key \notin DOMAIN b.staged
           => /\ b.snapshot # NotStarted
              /\ b.slots[s].value = ContentsAfter(log, b.snapshot)[b.slots[s].key]
    BY Zenon, <1>4, <1>7
  <2> QED BY Zenon, <2>1, <2>2, <2>3, <2>4, <2>5 DEF ReadsSound
<1> QED BY Zenon, <1>3, <1>4, <1>5, <1>6, <1>8, AttemptStep

(* The operation returns (run_attempt, finish). *)
LEMMA ReturnStep ==
    ASSUME StoreInvariant, NEW c \in Requests, NEW result \in {"ok", "conflict", "failed"},
           Return(c, result)
    PROVE  StoreInvariant'
<1> DEFINE a == attempts[c]
           commit == result = "ok" /\ a.settlement = "open"
           final == IF commit THEN "ok"
                    ELSE IF result = "ok" \/ a.settlement = "capacity" THEN SettlementError(a)
                    ELSE result
           x == [kind |-> "finish", commit |-> commit,
                 writes |-> IF commit THEN a.pending ELSE NoWrites]
           channel == Append(a.channel, x)
           b == [a EXCEPT !.phase = "finishing", !.result = final, !.pending = NoWrites,
                          !.channel = channel]
<1>1. /\ a \in Attempt /\ attempts \in [Requests -> Attempt] /\ ReadsSound(log, a)
  BY Zenon, CallFacts DEF StoreInvariant
<1>2. a.phase = "open" BY Zenon DEF Return
<1>3. a.channel \in Seq(Command) /\ a.pending \in Partial BY Zenon, <1>1, AttemptTypes
<1>4. x \in Command /\ x.kind = "finish" /\ (x.commit <=> commit)
  BY Zenon, <1>3, OverlayTypes DEF Command
<1>5. final \in Result /\ (final = "ok" => commit) BY Zenon DEF Result, SettlementError
<1>6. attempts' = [attempts EXCEPT ![c] = b] BY Zenon, <1>1 DEF Return
<1> HIDE DEF commit, x, final
<1>7. /\ channel \in Seq(Command)
      /\ \A i \in 1 .. Len(channel) :
            channel[i] = x \/ (i \in 1 .. Len(a.channel) /\ channel[i] = a.channel[i])
  BY Zenon, <1>3, <1>4, SendCommand
<1> HIDE DEF channel
<1>8. NoWrites \in Partial /\ DOMAIN NoWrites = {} BY Zenon, OverlayTypes
<1>9. b \in Attempt BY Zenon, <1>1, <1>5, <1>7, <1>8 DEF Attempt, Phase
<1>10. /\ b.phase = "finishing" /\ b.result = final /\ b.snapshot = a.snapshot
       /\ b.pending = NoWrites /\ b.staged = a.staged /\ b.channel = channel
       /\ b.slots = a.slots /\ b.seen = a.seen /\ b.batch = a.batch
  BY Zenon, <1>1 DEF Attempt
<1> HIDE DEF b
<1>11. \A i \in 1 .. Len(b.channel) :
          /\ b.channel[i].kind = "apply" => DOMAIN b.channel[i].writes \subseteq DOMAIN b.staged
          /\ b.channel[i].kind = "finish" =>
                b.phase = "finishing" /\ (b.result = "ok" => b.channel[i].commit)
          /\ b.channel[i].kind = "closed" => b.phase = "answered"
  BY SMTT(60), <1>1, <1>2, <1>4, <1>5, <1>7, <1>10 DEF ReadsSound
<1>12. ReadsSound(log, b) BY ZenonT(60), <1>1, <1>8, <1>10, <1>11 DEF ReadsSound
<1>13. UNCHANGED <<log, synced, queue, durability, crashes>> BY Zenon DEF Return
<1> QED BY Zenon, <1>2, <1>6, <1>9, <1>10, <1>12, <1>13, AttemptStep

(* The operation panics (with_attempt). *)
LEMMA PanicStep ==
    ASSUME StoreInvariant, NEW c \in Requests, Panic(c)
    PROVE  StoreInvariant'
<1> DEFINE a == attempts[c]
           x == [kind |-> "closed"]
           channel == Append(a.channel, x)
           slots == [s \in Slots |-> IdleSlot]
           b == [a EXCEPT !.phase = "answered", !.result = "failed", !.slots = slots,
                          !.channel = channel]
<1>1. /\ a \in Attempt /\ attempts \in [Requests -> Attempt] /\ ReadsSound(log, a)
  BY Zenon, CallFacts DEF StoreInvariant
<1>2. a.phase = "open" BY Zenon DEF Panic
<1>3. a.channel \in Seq(Command) /\ IdleSlot \in Slot BY Zenon, <1>1, AttemptTypes
<1>4. x \in Command /\ x.kind = "closed" BY Zenon DEF Command
<1>5. slots \in [Slots -> Slot] /\ \A s \in Slots : slots[s].state = "idle"
  BY Zenon, <1>3 DEF IdleSlot
<1>6. attempts' = [attempts EXCEPT ![c] = b] BY Zenon, <1>1 DEF Panic
<1> HIDE DEF x, slots
<1>7. /\ channel \in Seq(Command)
      /\ \A i \in 1 .. Len(channel) :
            channel[i] = x \/ (i \in 1 .. Len(a.channel) /\ channel[i] = a.channel[i])
  BY Zenon, <1>3, <1>4, SendCommand
<1> HIDE DEF channel
<1>9. b \in Attempt BY Zenon, <1>1, <1>5, <1>7 DEF Attempt, Result, Phase
<1>10. /\ b.phase = "answered" /\ b.result = "failed" /\ b.snapshot = a.snapshot
       /\ b.pending = a.pending /\ b.staged = a.staged /\ b.channel = channel
       /\ b.slots = slots /\ b.seen = a.seen /\ b.batch = a.batch
  BY Zenon, <1>1 DEF Attempt
<1> HIDE DEF b
<1>11. \A i \in 1 .. Len(b.channel) :
          /\ b.channel[i].kind = "apply" => DOMAIN b.channel[i].writes \subseteq DOMAIN b.staged
          /\ b.channel[i].kind = "finish" =>
                b.phase = "finishing" /\ (b.result = "ok" => b.channel[i].commit)
          /\ b.channel[i].kind = "closed" => b.phase = "answered"
  BY SMTT(60), <1>1, <1>2, <1>4, <1>7, <1>10 DEF ReadsSound
<1>12. ReadsSound(log, b) BY SMTT(60), <1>1, <1>5, <1>10, <1>11 DEF ReadsSound
<1>13. UNCHANGED <<log, synced, queue, durability, crashes>> BY Zenon DEF Panic
<1> QED BY Zenon, <1>2, <1>6, <1>9, <1>10, <1>12, <1>13, AttemptStep

-----------------------------------------------------------------------------
(* Steps that begin or end attempts                                        *)

(* A new attempt is submitted (run_attempt, submit_attempt). *)
LEMMA BeginAttemptStep ==
    ASSUME StoreInvariant, NEW c \in Requests, BeginAttempt(c)
    PROVE  StoreInvariant'
<1>0. /\ TypeOK /\ WriterSerial /\ OutcomesTrue /\ WaitersCommitted /\ AcknowledgedDurable
      /\ \A d \in Requests : ReadsSound(log, attempts[d])
  BY Zenon DEF StoreInvariant
<1>1. /\ attempts \in [Requests -> Attempt] /\ queue \in Seq(Requests) /\ log \in Seq(Entry)
      /\ durability.channel \in Seq(Requests) /\ durability.group \in SUBSET Requests
      /\ attempts[c].phase = "idle" /\ UNCHANGED <<log, synced, durability, crashes>>
  BY Zenon, <1>0 DEF TypeOK, BeginAttempt
<1> DEFINE n == attempts[c].tries + 1
           b == FreshAttempt("open", n)
<1>2. n \in Nat BY <1>1, AttemptTypes
<1> HIDE DEF n
<1>3. b \in Attempt BY Zenon, <1>2, FreshTypes, OverlayTypes DEF Result, Phase
<1>4. \A commits : ReadsSound(commits, b) BY Zenon, FreshReads
<1>5. b.phase = "open" /\ b.snapshot = NotStarted BY Zenon DEF FreshAttempt
<1>6. attempts' = [attempts EXCEPT ![c] = b] BY Zenon DEF BeginAttempt, n
<1> HIDE DEF b
<1>7. attempts'[c] = b /\ \A d \in Requests : d # c => attempts'[d] = attempts[d]
  BY Zenon, <1>1, <1>6
<1>8. queue' \in Seq(Requests) BY <1>1 DEF BeginAttempt
<1>9. TypeOK' BY Zenon, <1>0, <1>1, <1>3, <1>6, <1>8 DEF TypeOK
<1>10. \A i \in 1 .. Len(queue) : queue[i] # c /\ queue[i] \in Requests
  BY SMTT(60), <1>0, <1>1 DEF WriterSerial
<1>11. WriterSerial'
  <2>1. CASE c \in Readers
    <3>1. queue' = queue BY Zenon, <2>1 DEF BeginAttempt
    <3> QED BY SMTT(60), <3>1, <1>0, <1>1, <1>7, <1>10 DEF WriterSerial
  <2>2. CASE c \notin Readers
    <3>1. queue' = Append(queue, c) BY Zenon, <2>2 DEF BeginAttempt
    <3>2. \A i \in 1 .. Len(queue') :
             \/ i \in 1 .. Len(queue) /\ queue'[i] = queue[i]
             \/ i = Len(queue) + 1 /\ queue'[i] = c
      BY <3>1, <1>1
    <3>3. \A i, j \in 1 .. Len(queue') : queue'[i] = queue'[j] => i = j
      BY <3>2, <1>0, <1>10 DEF WriterSerial
    <3> QED BY SMTT(60), <3>2, <3>3, <2>2, <1>0, <1>1, <1>5, <1>7, <1>10 DEF WriterSerial
  <2> QED BY Zenon, <2>1, <2>2
<1>12. OutcomesTrue'
  <2>1. \A i \in 1 .. Len(log) : log[i] \in Entry BY <1>1
  <2>2. \A i \in 1 .. Len(log) : log[i].request \in Requests BY Zenon, <2>1 DEF Entry
  <2>3. \A i \in 1 .. Len(log) : log[i].request # c BY Zenon, <1>0, <1>1, <2>2 DEF OutcomesTrue
  <2> QED BY ZenonT(60), <2>2, <2>3, <1>0, <1>1, <1>7 DEF OutcomesTrue
<1>13. WaitersCommitted'
  <2>1. \A d \in Requests : HasCommitted(d)' = HasCommitted(d) BY Zenon, <1>1 DEF HasCommitted
  <2>2. \A i \in 1 .. Len(durability.channel) :
           durability.channel[i] \in Requests /\ durability.channel[i] # c
    BY <1>0, <1>1 DEF WaitersCommitted
  <2>3. c \notin durability.group BY Zenon, <1>0, <1>1 DEF WaitersCommitted
  <2> QED BY SMTT(60), <2>1, <2>2, <2>3, <1>0, <1>1, <1>5, <1>7 DEF WaitersCommitted
<1>14. AcknowledgedDurable' BY Zenon, <1>0, <1>1, <1>5, <1>7 DEF AcknowledgedDurable
<1>15. (\A d \in Requests : ReadsSound(log, attempts[d]))' BY Zenon, <1>0, <1>1, <1>4, <1>7
<1> QED BY Zenon, <1>9, <1>11, <1>12, <1>13, <1>14, <1>15 DEF StoreInvariant

(* A settled attempt moves on without touching the store or the durability    *)
(* batch: to a retry, or to its answer (retry_native_conflicts).            *)
LEMMA SettledStep ==
    ASSUME StoreInvariant, NEW c \in Requests, NEW b \in Attempt,
           attempts[c].phase = "settled", ReadsSound(log, b),
           UNCHANGED <<log, synced, queue, durability, crashes>>,
           attempts' = [attempts EXCEPT ![c] = b],
           \/ b.phase = "idle" /\ attempts[c].result = "conflict"
           \/ /\ b.phase = "answered" /\ b.result = attempts[c].result
              /\ b.result # "ok" \/ c \in Readers
    PROVE  StoreInvariant'
<1>0. /\ TypeOK /\ WriterSerial /\ OutcomesTrue /\ WaitersCommitted /\ AcknowledgedDurable
      /\ \A d \in Requests : ReadsSound(log, attempts[d])
  BY Zenon DEF StoreInvariant
<1>1. /\ attempts \in [Requests -> Attempt] /\ queue \in Seq(Requests) /\ log \in Seq(Entry)
      /\ durability.channel \in Seq(Requests) /\ durability.group \in SUBSET Requests
  BY Zenon, <1>0 DEF TypeOK
<1>2. attempts'[c] = b /\ \A d \in Requests : d # c => attempts'[d] = attempts[d] BY Zenon, <1>1
<1>3. TypeOK' BY Zenon, <1>0, <1>1 DEF TypeOK
<1>4. WriterSerial'
  <2>1. \A i \in 1 .. Len(queue) : queue[i] # c /\ queue[i] \in Requests
    BY SMTT(60), <1>0, <1>1 DEF WriterSerial
  <2> QED BY SMTT(60), <2>1, <1>0, <1>2 DEF WriterSerial
<1>5. OutcomesTrue'
  <2>1. \A i \in 1 .. Len(log) : log[i] \in Entry BY <1>1
  <2>2. \A i \in 1 .. Len(log) : log[i].request \in Requests BY Zenon, <2>1 DEF Entry
  <2>3. \A i \in 1 .. Len(log) :
           log[i].request = c => b.phase = "answered" /\ b.result \in {"ok", "unknown"}
    BY Zenon, <1>0 DEF OutcomesTrue
  <2> QED BY SMTT(60), <2>2, <2>3, <1>0, <1>2 DEF OutcomesTrue
<1>6. WaitersCommitted'
  <2>1. \A d \in Requests : HasCommitted(d)' = HasCommitted(d) BY Zenon DEF HasCommitted
  <2>2. \A i \in 1 .. Len(durability.channel) :
           durability.channel[i] \in Requests /\ durability.channel[i] # c
    BY SMTT(60), <1>0, <1>1 DEF WaitersCommitted
  <2>3. c \notin durability.group BY Zenon, <1>0, <1>1 DEF WaitersCommitted
  <2> QED BY SMTT(120), <2>1, <2>2, <2>3, <1>0, <1>1, <1>2 DEF WaitersCommitted
<1>7. AcknowledgedDurable' BY ZenonT(60), <1>0, <1>2 DEF AcknowledgedDurable
<1>8. (\A d \in Requests : ReadsSound(log, attempts[d]))' BY Zenon, <1>0, <1>2
<1> QED BY Zenon, <1>3, <1>4, <1>5, <1>6, <1>7, <1>8 DEF StoreInvariant

(* A conflict is retried (retry_native_conflicts). *)
LEMMA RetryStep ==
    ASSUME StoreInvariant, NEW c \in Requests, Retry(c)
    PROVE  StoreInvariant'
<1> DEFINE a == attempts[c]
           b == FreshAttempt("idle", a.tries)
<1>1. a \in Attempt /\ a.tries \in Nat BY Zenon, CallFacts, AttemptTypes
<1>2. b \in Attempt BY Zenon, <1>1, FreshTypes, OverlayTypes DEF Result, Phase
<1>3. ReadsSound(log, b) BY Zenon, FreshReads
<1>4. b.phase = "idle" BY Zenon DEF FreshAttempt
<1>5. /\ a.phase = "settled" /\ a.result = "conflict"
      /\ attempts' = [attempts EXCEPT ![c] = b]
      /\ UNCHANGED <<log, synced, queue, durability, crashes>>
  BY Zenon DEF Retry, Retryable
<1> HIDE DEF b
<1> QED BY Zenon, <1>2, <1>3, <1>4, <1>5, SettledStep

(* A request is answered without a barrier (with_attempt). *)
LEMMA AnswerRequestStep ==
    ASSUME StoreInvariant, NEW c \in Requests, AnswerRequest(c)
    PROVE  StoreInvariant'
<1> DEFINE a == attempts[c]
           b == [a EXCEPT !.phase = "answered"]
<1>1. a \in Attempt /\ ReadsSound(log, a) BY Zenon, CallFacts DEF StoreInvariant
<1>2. b \in Attempt BY SMTT(20), <1>1 DEF Attempt, Phase
<1>3. /\ b.phase = "answered" /\ b.result = a.result /\ b.snapshot = a.snapshot
      /\ b.pending = a.pending /\ b.staged = a.staged /\ b.channel = a.channel
      /\ b.slots = a.slots /\ b.seen = a.seen /\ b.batch = a.batch
  BY Zenon, <1>1 DEF Attempt
<1>4. /\ a.phase = "settled" /\ (a.result # "ok" \/ c \in Readers)
      /\ attempts' = [attempts EXCEPT ![c] = b]
      /\ UNCHANGED <<log, synced, queue, durability, crashes>>
  BY Zenon DEF AnswerRequest, AnswersAtOnce
<1> HIDE DEF b
<1>5. \A i \in 1 .. Len(b.channel) : b.channel[i].kind # "finish"
  BY ZenonT(60), <1>1, <1>3, <1>4 DEF ReadsSound
<1>6. DOMAIN a.staged \subseteq DOMAIN b.staged /\ DOMAIN b.pending \subseteq DOMAIN b.staged
  BY Zenon, <1>1, <1>3 DEF ReadsSound
<1>7. ReadsSound(log, b) BY Zenon, <1>1, <1>3, <1>5, <1>6, ReadsKept
<1> QED BY Zenon, <1>2, <1>3, <1>4, <1>7, SettledStep

(* An ended attempt has no transaction and no calls (drive_attempt). *)
LEMMA EndedFacts ==
    ASSUME NEW a \in Attempt, NEW result \in Result, NEW staged \in Partial,
           NEW phase \in Phase
    PROVE  /\ Ended(a, phase, result, staged) \in Attempt
           /\ \A commits : ReadsSound(commits, Ended(a, phase, result, staged))
           /\ Ended(a, phase, result, staged).phase = phase
           /\ Ended(a, phase, result, staged).result = result
           /\ Ended(a, phase, result, staged).snapshot = NotStarted
<1>1. a.tries \in Nat BY Zenon, AttemptTypes
<1> DEFINE b == Ended(a, phase, result, staged)
<1>2. b \in Attempt BY Zenon, <1>1, FreshTypes DEF Ended
<1>3. /\ b.phase = phase /\ b.result = result /\ b.snapshot = NotStarted
      /\ b.seen = NoWrites /\ b.pending = NoWrites /\ b.batch = NoWrites
      /\ b.channel = <<>> /\ b.slots = [s \in Slots |-> IdleSlot]
  BY Zenon DEF Ended, FreshAttempt
<1> HIDE DEF b
<1>4. DOMAIN NoWrites = {} BY Zenon, OverlayTypes
<1>5. ASSUME NEW commits PROVE ReadsSound(commits, b)
  <2>1. /\ b.snapshot \in {NotStarted} \cup 0 .. Len(commits)
        /\ DOMAIN b.seen = {} /\ DOMAIN b.pending = {} /\ DOMAIN b.batch = {}
    BY Zenon, <1>3, <1>4
  <2>2. 1 .. Len(b.channel) = {}
    <3>1. Len(b.channel) = 0 BY <1>3
    <3> QED BY <3>1
  <2>3. \A s \in Slots : b.slots[s].state # "read" BY <1>3 DEF IdleSlot
  <2> QED BY Zenon, <2>1, <2>2, <2>3 DEF ReadsSound
<1> QED BY Zenon, <1>2, <1>3, <1>5 DEF b

(* The queue after the writer has finished with its head (try_new). *)
LEMMA QueueTail ==
    ASSUME queue \in Seq(Requests), queue # <<>>
    PROVE  /\ Tail(queue) \in Seq(Requests) /\ Head(queue) = queue[1]
           /\ 1 \in 1 .. Len(queue)
           /\ \A i \in 1 .. Len(Tail(queue)) :
                 /\ i + 1 \in 1 .. Len(queue) /\ Tail(queue)[i] = queue[i + 1]
                 /\ i \in Nat /\ i >= 1
OBVIOUS

(* The writer or a reader's thread lets go of an attempt (drive_attempt): the *)
(* remaining attempts of the queue have no transaction.                     *)
LEMMA SettleQueue ==
    ASSUME StoreInvariant, NEW c \in Requests, NEW b \in Attempt, Driven(c),
           attempts' = [attempts EXCEPT ![c] = b], b.snapshot = NotStarted,
           queue' = IF c \in Readers THEN queue ELSE Tail(queue),
           c \in Readers => log' = log
    PROVE  queue' \in Seq(Requests) /\ WriterSerial'
<1>1. /\ attempts \in [Requests -> Attempt] /\ queue \in Seq(Requests) /\ WriterSerial
  BY Zenon DEF StoreInvariant, TypeOK
<1>2. \A d \in Requests : d # c => attempts'[d] = attempts[d] BY Zenon, <1>1
<1>3. CASE c \in Readers
  <2>1. \A i \in 1 .. Len(queue) : queue[i] # c /\ queue[i] \in Requests
    BY SMTT(60), <1>1, <1>3 DEF WriterSerial
  <2>2. queue' = queue /\ log' = log BY Zenon, <1>3
  <2>3. \A i \in 1 .. Len(queue) : attempts'[queue[i]] = attempts[queue[i]] BY Zenon, <2>1, <1>2
  <2>4. /\ \A i, j \in 1 .. Len(queue') : queue'[i] = queue'[j] => i = j
        /\ \A i \in 1 .. Len(queue') :
              /\ queue'[i] \notin Readers
              /\ attempts'[queue'[i]].phase \in {"open", "finishing", "answered"}
              /\ attempts'[queue'[i]].phase = "answered" => attempts'[queue'[i]].result = "failed"
              /\ \/ attempts'[queue'[i]].snapshot = NotStarted
                 \/ i = 1 /\ attempts'[queue'[i]].snapshot = Len(log')
    BY SMTT(60), <2>2, <2>3, <1>1 DEF WriterSerial
  <2>5. WriterSerial' BY Zenon, <2>4 DEF WriterSerial
  <2> QED BY Zenon, <2>2, <2>5, <1>1
<1>4. CASE c \notin Readers
  <2>1. queue # <<>> /\ Head(queue) = c BY Zenon, <1>4 DEF Driven
  <2>2. /\ queue' \in Seq(Requests) /\ queue[1] = c /\ 1 \in 1 .. Len(queue)
        /\ \A i \in 1 .. Len(queue') :
              /\ i + 1 \in 1 .. Len(queue) /\ queue'[i] = queue[i + 1]
              /\ i \in Nat /\ i >= 1
    BY Zenon, <2>1, <1>1, <1>4, QueueTail
  <2>3. \A i, j \in 1 .. Len(queue') : queue'[i] = queue'[j] => i = j
    BY <2>2, <1>1 DEF WriterSerial
  <2>4. \A i \in 1 .. Len(queue') : queue'[i] \in Requests /\ queue'[i] # c
    <3> SUFFICES ASSUME NEW i \in 1 .. Len(queue') PROVE queue'[i] \in Requests /\ queue'[i] # c
      BY Zenon
    <3>1. i + 1 \in 1 .. Len(queue) /\ queue'[i] = queue[i + 1] /\ i + 1 # 1 BY <2>2
    <3> QED BY <3>1, <2>2, <1>1 DEF WriterSerial
  <2>5. \A i \in 1 .. Len(queue') :
           /\ queue'[i] \notin Readers
           /\ attempts'[queue'[i]].phase \in {"open", "finishing", "answered"}
           /\ attempts'[queue'[i]].phase = "answered" => attempts'[queue'[i]].result = "failed"
           /\ attempts'[queue'[i]].snapshot = NotStarted
    <3> SUFFICES ASSUME NEW i \in 1 .. Len(queue')
                 PROVE  /\ queue'[i] \notin Readers
                        /\ attempts'[queue'[i]].phase \in {"open", "finishing", "answered"}
                        /\ attempts'[queue'[i]].phase = "answered"
                           => attempts'[queue'[i]].result = "failed"
                        /\ attempts'[queue'[i]].snapshot = NotStarted
      BY Zenon
    <3>1. i + 1 \in 1 .. Len(queue) /\ queue'[i] = queue[i + 1] /\ i + 1 # 1 BY <2>2
    <3>2. attempts'[queue'[i]] = attempts[queue[i + 1]] BY Zenon, <3>1, <2>4, <1>2
    <3> QED BY Zenon, <3>1, <3>2, <1>1 DEF WriterSerial
  <2>6. WriterSerial' BY Zenon, <2>3, <2>5 DEF WriterSerial
  <2> QED BY Zenon, <2>2, <2>6
<1> QED BY Zenon, <1>3, <1>4

(* An attempt ends without a commit (NativeSettlementCommand::settle, or the  *)
(* drop of the transaction).                                                *)
LEMMA ReleaseStep ==
    ASSUME StoreInvariant, NEW c \in Requests, NEW result \in Result,
           Driven(c), Settle(c, result, NoWrites), UNCHANGED log,
           \/ attempts[c].phase = "finishing" /\ (result = "ok" => c \in Readers)
           \/ attempts[c].phase = "answered" /\ result = attempts[c].result
    PROVE  StoreInvariant'
<1>0. /\ TypeOK /\ WriterSerial /\ OutcomesTrue /\ WaitersCommitted /\ AcknowledgedDurable
      /\ \A d \in Requests : ReadsSound(log, attempts[d])
  BY Zenon DEF StoreInvariant
<1>1. /\ attempts \in [Requests -> Attempt] /\ queue \in Seq(Requests) /\ log \in Seq(Entry)
      /\ durability.channel \in Seq(Requests) /\ durability.group \in SUBSET Requests
      /\ UNCHANGED <<log, synced, durability, crashes>>
  BY Zenon, <1>0 DEF TypeOK, Settle
<1> DEFINE a == attempts[c]
           phase == IF a.phase = "finishing" THEN "settled" ELSE a.phase
           b == Ended(a, phase, result, NoWrites)
<1>2. a \in Attempt /\ phase \in {"settled", "answered"} BY Zenon, <1>1
<1>3. NoWrites \in Partial BY Zenon, OverlayTypes
<1>4. attempts' = [attempts EXCEPT ![c] = b] BY Zenon DEF Settle
<1> HIDE DEF phase
<1>5. /\ b \in Attempt /\ \A commits : ReadsSound(commits, b)
      /\ b.phase = phase /\ b.result = result /\ b.snapshot = NotStarted
  <2>1. phase \in Phase BY Zenon, <1>2 DEF Phase
  <2>2. a \in Attempt BY Zenon, <1>2
  <2> HIDE DEF a
  <2> QED BY SMTT(60), <2>1, <2>2, <1>3, EndedFacts
<1> HIDE DEF b
<1>6. attempts'[c] = b /\ \A d \in Requests : d # c => attempts'[d] = attempts[d]
  BY Zenon, <1>1, <1>4
<1>7. queue' \in Seq(Requests) /\ WriterSerial'
  <2>1. queue' = IF c \in Readers THEN queue ELSE Tail(queue) BY Zenon DEF Settle
  <2>2. log' = log BY Zenon
  <2> QED BY Zenon, <2>1, <2>2, <1>4, <1>5, SettleQueue
<1>8. TypeOK' BY Zenon, <1>0, <1>1, <1>4, <1>5, <1>7 DEF TypeOK
<1>9. OutcomesTrue'
  <2>1. \A i \in 1 .. Len(log) : log[i] \in Entry BY <1>1
  <2>2. \A i \in 1 .. Len(log) : log[i].request \in Requests BY Zenon, <2>1 DEF Entry
  <2>3. \A i \in 1 .. Len(log) :
           log[i].request = c => b.phase = "answered" /\ b.result \in {"ok", "unknown"}
    BY Zenon, <1>0, <1>5 DEF OutcomesTrue, phase
  <2> QED BY SMTT(120), <2>2, <2>3, <1>0, <1>1, <1>6 DEF OutcomesTrue
<1>10. WaitersCommitted'
  <2>1. \A d \in Requests : HasCommitted(d)' = HasCommitted(d) BY Zenon, <1>1 DEF HasCommitted
  <2>2. \A i \in 1 .. Len(durability.channel) :
           durability.channel[i] \in Requests /\ durability.channel[i] # c
    BY SMTT(60), <1>0, <1>1 DEF WaitersCommitted
  <2>3. c \notin durability.group BY Zenon, <1>0, <1>1 DEF WaitersCommitted
  <2>4. c \notin Readers => ~ (b.phase = "settled" /\ b.result = "ok") /\ b.phase # "waiting"
    BY Zenon, <1>5 DEF phase
  <2>5. /\ \A i \in 1 .. Len(durability.channel) :
              attempts'[durability.channel[i]] = attempts[durability.channel[i]]
        /\ \A d \in durability.group : attempts'[d] = attempts[d]
    BY Zenon, <2>2, <2>3, <1>1, <1>6
  <2>6. \A d \in Requests \ Readers :
           (attempts'[d].phase = "settled" /\ attempts'[d].result = "ok")
              \/ attempts'[d].phase = "waiting"
           => HasCommitted(d)'
    BY SMTT(60), <2>1, <2>4, <1>0, <1>6 DEF WaitersCommitted
  <2> QED BY SMTT(60), <2>5, <2>6, <1>0, <1>1 DEF WaitersCommitted
<1>11. AcknowledgedDurable'
  <2>1. c \notin Readers /\ b.phase = "answered" /\ b.result = "ok"
        => a.phase = "answered" /\ a.result = "ok"
    BY Zenon, <1>5 DEF phase
  <2> QED BY ZenonT(60), <2>1, <1>0, <1>1, <1>6 DEF AcknowledgedDurable
<1>12. (\A d \in Requests : ReadsSound(log, attempts[d]))' BY Zenon, <1>0, <1>1, <1>5, <1>6
<1> QED BY Zenon, <1>7, <1>8, <1>9, <1>10, <1>11, <1>12 DEF StoreInvariant

(* A refused commit (map_commit_error, map_operation_error). *)
LEMMA RefuseCommitStep ==
    ASSUME StoreInvariant, NEW c \in Requests, RefuseCommit(c)
    PROVE  StoreInvariant'
<1>1. PICK result \in {"conflict", "failed", "unknown"} : Settle(c, result, NoWrites)
  BY Zenon DEF RefuseCommit
<1>2. result \in Result /\ result # "ok" BY Zenon DEF Result
<1>3. Driven(c) /\ attempts[c].phase = "finishing" /\ UNCHANGED log
  <2>1. /\ attempts[c].channel # <<>> /\ Head(attempts[c].channel).kind = "finish"
        /\ Driven(c) /\ UNCHANGED log
    BY Zenon DEF RefuseCommit, Receives
  <2>2. attempts[c].channel \in Seq(Command) /\ ReadsSound(log, attempts[c])
    BY Zenon, CallFacts, AttemptTypes DEF StoreInvariant
  <2>3. /\ Head(attempts[c].channel) = attempts[c].channel[1]
        /\ 1 \in 1 .. Len(attempts[c].channel)
    BY Zenon, <2>1, <2>2, ReceiveCommand
  <2> QED BY Zenon, <2>1, <2>2, <2>3 DEF ReadsSound
<1> QED BY Zenon, <1>1, <1>2, <1>3, ReleaseStep

(* A rollback or a read-only end (NativeSettlementCommand::settle). *)
LEMMA ReleaseNativeStep ==
    ASSUME StoreInvariant, NEW c \in Requests, ReleaseNative(c)
    PROVE  StoreInvariant'
<1> DEFINE a == attempts[c]
           command == Head(a.channel)
           denied == command.commit /\ a.settlement # "open"
           result == IF denied THEN SettlementError(a) ELSE a.result
<1>1. /\ a.channel # <<>> /\ command.kind = "finish" /\ Driven(c) /\ UNCHANGED log
      /\ Settle(c, result, NoWrites) /\ (command.commit => c \in Readers \/ denied)
  BY Zenon DEF ReleaseNative, Receives
<1>2. a.channel \in Seq(Command) /\ ReadsSound(log, a) /\ a.result \in Result
  BY Zenon, CallFacts, AttemptTypes DEF StoreInvariant
<1>3. command = a.channel[1] /\ 1 \in 1 .. Len(a.channel) BY SMTT(60), <1>1, <1>2, ReceiveCommand
<1>4. a.phase = "finishing" /\ (a.result = "ok" => command.commit)
  BY Zenon, <1>1, <1>2, <1>3 DEF ReadsSound
<1>5. SettlementError(a) \in {"failed", "conflict"} BY Zenon DEF SettlementError
<1>6. result \in Result /\ (result = "ok" => c \in Readers)
  BY Zenon, <1>1, <1>2, <1>4, <1>5 DEF Result
<1> HIDE DEF result
<1> QED BY Zenon, <1>1, <1>4, <1>6, ReleaseStep

(* The transaction of a panicked operation is dropped (drive_attempt). *)
LEMMA DropNativeStep ==
    ASSUME StoreInvariant, NEW c \in Requests, DropNative(c)
    PROVE  StoreInvariant'
<1> DEFINE a == attempts[c]
<1>1. /\ a.channel # <<>> /\ Head(a.channel).kind = "closed" /\ Driven(c) /\ UNCHANGED log
      /\ Settle(c, a.result, NoWrites)
  BY Zenon DEF DropNative, Receives
<1>2. a.channel \in Seq(Command) /\ ReadsSound(log, a) /\ a.result \in Result
  BY Zenon, CallFacts, AttemptTypes DEF StoreInvariant
<1>3. Head(a.channel) = a.channel[1] /\ 1 \in 1 .. Len(a.channel)
  BY SMTT(20), <1>1, <1>2, ReceiveCommand
<1>4. a.phase = "answered" BY Zenon, <1>1, <1>2, <1>3 DEF ReadsSound
<1> QED BY Zenon, <1>1, <1>2, <1>4, ReleaseStep

(* A commit leaves what older snapshots show (RocksDB's snapshots). *)
LEMMA SnapshotsStay ==
    ASSUME log \in Seq(Entry), NEW e \in Entry, NEW a \in Attempt, ReadsSound(log, a)
    PROVE  ReadsSound(Append(log, e), a)
<1> DEFINE next == Append(log, e)
<1>1. /\ Len(next) = Len(log) + 1 /\ Len(log) \in Nat
      /\ \A i \in 1 .. Len(log) : next[i] = log[i]
  OBVIOUS
<1> HIDE DEF next
<1>2. a.snapshot \in {NotStarted} \cup 0 .. Len(log) BY Zenon DEF ReadsSound
<1>3. a.snapshot # NotStarted =>
         ContentsAfter(next, a.snapshot) = ContentsAfter(log, a.snapshot)
  BY <1>1, <1>2 DEF ContentsAfter
<1>4. a.snapshot \in {NotStarted} \cup 0 .. Len(next) BY <1>1, <1>2
<1>5. ReadsSound(next, a) BY Zenon, <1>3, <1>4 DEF ReadsSound
<1> QED BY Zenon, <1>5 DEF next

(* What a commit starts from: the writer's transaction has seen every commit, *)
(* and this request has none (NativeSettlementCommand::settle).             *)
LEMMA CommitFacts ==
    ASSUME StoreInvariant, NEW c \in Requests, CommitNative(c)
    PROVE  LET a == attempts[c]
               writes == Overlay(a.batch, Head(a.channel).writes)
               db == ContentsAfter(log, Len(log))
               e == [request |-> c, reads |-> a.seen, writes |-> writes,
                     db |-> Overlay(db, writes)]
           IN
           /\ a.phase = "finishing" /\ c \notin Readers /\ Driven(c)
           /\ ~ HasCommitted(c) /\ a.snapshot = Len(log)
           /\ e \in Entry /\ log' = Append(log, e)
           /\ \A k \in DOMAIN a.seen : a.seen[k] = db[k]
<1> DEFINE a == attempts[c]
           command == Head(a.channel)
           writes == Overlay(a.batch, command.writes)
           db == ContentsAfter(log, Len(log))
           e == [request |-> c, reads |-> a.seen, writes |-> writes, db |-> Overlay(db, writes)]
<1>1. /\ a.channel # <<>> /\ command.kind = "finish" /\ Driven(c) /\ c \notin Readers
      /\ a.snapshot # NotStarted /\ log' = Append(log, e)
  BY SMTT(60) DEF CommitNative, Receives
<1>2. /\ a.channel \in Seq(Command) /\ ReadsSound(log, a) /\ a.batch \in Partial
      /\ a.seen \in Partial /\ log \in Seq(Entry) /\ queue \in Seq(Requests)
  BY ZenonT(60), CallFacts, AttemptTypes DEF StoreInvariant, TypeOK
<1>3. command = a.channel[1] /\ 1 \in 1 .. Len(a.channel) /\ command \in Command
  BY ZenonT(60), <1>1, <1>2, ReceiveCommand
<1>4. a.phase = "finishing" BY ZenonT(60), <1>1, <1>2, <1>3 DEF ReadsSound
<1>5. command.writes \in Partial BY Zenon, <1>1, <1>3, CommandFields
<1>6. writes \in Partial BY Zenon, <1>2, <1>5, OverlayTypes
<1>7. db \in [Keys -> Stored] BY SMTT(60), <1>2, ContentsTypes
<1>8. Overlay(db, writes) \in [Keys -> Stored] BY Zenon, <1>6, <1>7, OverlayTypes
<1>9. e \in Entry BY Zenon, <1>2, <1>6, <1>8 DEF Entry
<1>10. ~ HasCommitted(c) BY SMTT(60), <1>4 DEF StoreInvariant, OutcomesTrue, HasCommitted
<1>11. a.snapshot = Len(log)
  <2>1. queue # <<>> /\ Head(queue) = c BY ZenonT(60), <1>1 DEF Driven
  <2>2. queue[1] = c /\ 1 \in 1 .. Len(queue) BY Zenon, <2>1, <1>2, QueueTail
  <2> QED BY Zenon, <2>2, <1>1 DEF StoreInvariant, WriterSerial
<1>12. \A k \in DOMAIN a.seen : a.seen[k] = db[k] BY Zenon, <1>2, <1>11 DEF ReadsSound
<1> QED BY SMTT(60), <1>1, <1>4, <1>9, <1>10, <1>11, <1>12

(* A commit goes through (NativeSettlementCommand::settle). *)
LEMMA CommitNativeStep ==
    ASSUME StoreInvariant, NEW c \in Requests, CommitNative(c)
    PROVE  StoreInvariant'
<1>0. /\ TypeOK /\ WriterSerial /\ OutcomesTrue /\ WaitersCommitted /\ AcknowledgedDurable
      /\ \A d \in Requests : ReadsSound(log, attempts[d])
  BY ZenonT(60) DEF StoreInvariant
<1> DEFINE a == attempts[c]
<1>1. PICK result \in {"ok", "unknown"} : Settle(c, result, a.staged) BY Zenon DEF CommitNative
<1>2. /\ attempts \in [Requests -> Attempt] /\ queue \in Seq(Requests) /\ log \in Seq(Entry)
      /\ durability.channel \in Seq(Requests) /\ durability.group \in SUBSET Requests
      /\ synced \in 0 .. Len(log) /\ durability.target \in Int
      /\ UNCHANGED <<synced, durability, crashes>>
  BY Zenon, <1>0, <1>1 DEF TypeOK, Settle
<1>3. PICK e \in Entry : e.request = c /\ log' = Append(log, e) BY Zenon, CommitFacts
<1>4. a.phase = "finishing" /\ c \notin Readers /\ Driven(c) /\ ~ HasCommitted(c)
  BY Zenon, CommitFacts
<1> DEFINE b == Ended(a, "settled", result, a.staged)
<1>5. attempts' = [attempts EXCEPT ![c] = b] BY Zenon, <1>1, <1>4 DEF Settle
<1>6. /\ b \in Attempt /\ \A commits : ReadsSound(commits, b)
      /\ b.phase = "settled" /\ b.result = result /\ b.snapshot = NotStarted
  <2>1. "settled" \in Phase /\ result \in Result BY Zenon DEF Phase, Result
  <2>2. a \in Attempt BY Zenon, <1>2
  <2>3. a.staged \in Partial BY Zenon, <2>2, AttemptTypes
  <2> HIDE DEF a
  <2> QED BY <2>1, <2>2, <2>3, EndedFacts
<1> HIDE DEF b
<1>7. attempts'[c] = b /\ \A d \in Requests : d # c => attempts'[d] = attempts[d]
  BY Zenon, <1>2, <1>5
<1>8. queue' \in Seq(Requests) /\ WriterSerial'
  <2>1. queue' = IF c \in Readers THEN queue ELSE Tail(queue) BY Zenon, <1>1 DEF Settle
  <2> QED BY Zenon, <2>1, <1>4, <1>5, <1>6, SettleQueue
<1>9. /\ log' \in Seq(Entry) /\ Len(log') = Len(log) + 1 /\ Len(log) \in Nat
      /\ log'[Len(log) + 1] = e /\ \A i \in 1 .. Len(log) : log'[i] = log[i]
  BY <1>2, <1>3
<1>10. TypeOK' BY SMTT(60), <1>0, <1>2, <1>5, <1>6, <1>8, <1>9 DEF TypeOK
<1>11. \A i \in 1 .. Len(log) : log[i].request \in Requests /\ log[i].request # c
  <2>1. \A i \in 1 .. Len(log) : log[i] \in Entry BY <1>2
  <2> QED BY Zenon, <2>1, <1>4 DEF Entry, HasCommitted
<1>12. \A i \in 1 .. Len(log') :
          \/ i \in 1 .. Len(log) /\ log'[i] = log[i]
          \/ i = Len(log) + 1 /\ log'[i] = e
  BY <1>9
<1>13. OutcomesTrue'
  <2>1. \A i, j \in 1 .. Len(log') : log'[i].request = log'[j].request => i = j
    BY SMTT(60), <1>0, <1>3, <1>11, <1>12 DEF OutcomesTrue
  <2>2. \A i \in 1 .. Len(log') :
           /\ log'[i].request \notin Readers
           /\ \/ /\ attempts'[log'[i].request].phase \in {"settled", "waiting", "answered"}
                 /\ attempts'[log'[i].request].result \in {"ok", "unknown"}
              \/ attempts'[log'[i].request].phase = "lost"
    <3> SUFFICES ASSUME NEW i \in 1 .. Len(log')
                 PROVE  /\ log'[i].request \notin Readers
                        /\ \/ /\ attempts'[log'[i].request].phase
                                    \in {"settled", "waiting", "answered"}
                              /\ attempts'[log'[i].request].result \in {"ok", "unknown"}
                           \/ attempts'[log'[i].request].phase = "lost"
      BY Zenon
    <3>1. CASE i \in 1 .. Len(log) /\ log'[i] = log[i]
      <4>1. attempts'[log'[i].request] = attempts[log[i].request] BY Zenon, <3>1, <1>7, <1>11
      <4> QED BY Zenon, <3>1, <4>1, <1>0 DEF OutcomesTrue
    <3>2. CASE log'[i] = e BY Zenon, <3>2, <1>3, <1>4, <1>6, <1>7
    <3> QED BY Zenon, <3>1, <3>2, <1>12
  <2> QED BY Zenon, <2>1, <2>2 DEF OutcomesTrue
<1>14. \A d \in Requests : HasCommitted(d) => HasCommitted(d)' BY SMTT(60), <1>9 DEF HasCommitted
<1>15. HasCommitted(c)' BY SMTT(20), <1>3, <1>9 DEF HasCommitted
<1>16. WaitersCommitted'
  <2>1. \A i \in 1 .. Len(durability.channel) :
           durability.channel[i] \in Requests /\ durability.channel[i] # c
    BY SMTT(60), <1>0, <1>2, <1>4 DEF WaitersCommitted
  <2>2. c \notin durability.group BY Zenon, <1>0, <1>4 DEF WaitersCommitted
  <2>3. /\ \A i \in 1 .. Len(durability.channel) :
              attempts'[durability.channel[i]] = attempts[durability.channel[i]]
        /\ \A d \in durability.group : attempts'[d] = attempts[d]
    BY Zenon, <2>1, <2>2, <1>2, <1>7
  <2>4. \A d \in Requests \ Readers :
           (attempts'[d].phase = "settled" /\ attempts'[d].result = "ok")
              \/ attempts'[d].phase = "waiting"
           => HasCommitted(d)'
    BY ZenonT(60), <1>0, <1>7, <1>14, <1>15 DEF WaitersCommitted
  <2>5. durability.target # NoBarrier =>
           /\ durability.target \in 0 .. Len(log')
           /\ \A d \in durability.group :
                 \E i \in 1 .. durability.target : log'[i].request = d
    <3> SUFFICES ASSUME durability.target # NoBarrier
                 PROVE  /\ durability.target \in 0 .. Len(log')
                        /\ \A d \in durability.group :
                              \E i \in 1 .. durability.target : log'[i].request = d
      BY Zenon
    <3>1. /\ durability.target \in 0 .. Len(log)
          /\ \A d \in durability.group :
                \E i \in 1 .. durability.target : log[i].request = d
      BY Zenon, <1>0 DEF WaitersCommitted
    <3>2. \A i \in 1 .. durability.target : i \in 1 .. Len(log) /\ log'[i] = log[i]
      BY SMTT(60), <3>1, <1>9
    <3>3. durability.target \in 0 .. Len(log') BY <3>1, <1>9
    <3> QED BY ZenonT(60), <3>1, <3>2, <3>3
  <2> QED BY SMTT(60), <2>3, <2>4, <2>5, <1>0, <1>2 DEF WaitersCommitted
<1>17. AcknowledgedDurable'
  <2>1. \A i \in 1 .. synced : log'[i] = log[i] BY SMTT(60), <1>2, <1>9
  <2> QED BY ZenonT(120), <2>1, <1>0, <1>2, <1>6, <1>7 DEF AcknowledgedDurable
<1>18. (\A d \in Requests : ReadsSound(log, attempts[d]))'
  <2>1. \A d \in Requests : attempts[d] \in Attempt BY Zenon, <1>2
  <2>2. \A d \in Requests : ReadsSound(log', attempts[d])
    BY Zenon, <2>1, <1>0, <1>2, <1>3, SnapshotsStay
  <2> QED BY Zenon, <2>2, <1>6, <1>7
<1> QED BY Zenon, <1>8, <1>10, <1>13, <1>16, <1>17, <1>18 DEF StoreInvariant

(* A committed request joins the durability batch (DurabilityBatch::wait). *)
LEMMA AwaitDurabilityStep ==
    ASSUME StoreInvariant, NEW c \in Requests, AwaitDurability(c)
    PROVE  StoreInvariant'
<1>0. /\ TypeOK /\ WriterSerial /\ OutcomesTrue /\ WaitersCommitted /\ AcknowledgedDurable
      /\ \A d \in Requests : ReadsSound(log, attempts[d])
  BY Zenon DEF StoreInvariant
<1> DEFINE a == attempts[c]
           b == [a EXCEPT !.phase = "waiting"]
           channel == durability.channel
<1>1. /\ attempts \in [Requests -> Attempt] /\ queue \in Seq(Requests) /\ log \in Seq(Entry)
      /\ channel \in Seq(Requests) /\ durability.group \in SUBSET Requests
      /\ durability \in [channel : Seq(Requests), group : SUBSET Requests, target : Int]
      /\ UNCHANGED <<log, synced, queue, crashes>>
      /\ attempts' = [attempts EXCEPT ![c] = b]
      /\ durability' = [durability EXCEPT !.channel = Append(@, c)]
      /\ a.phase = "settled" /\ a.result = "ok" /\ c \notin Readers
  BY Zenon, <1>0 DEF TypeOK, AwaitDurability
<1>2. a \in Attempt /\ ReadsSound(log, a) BY Zenon, <1>0, <1>1
<1>3. b \in Attempt BY Zenon, <1>2 DEF Attempt, Phase
<1>4. /\ b.phase = "waiting" /\ b.result = a.result /\ b.snapshot = a.snapshot
      /\ b.pending = a.pending /\ b.staged = a.staged /\ b.channel = a.channel
      /\ b.slots = a.slots /\ b.seen = a.seen /\ b.batch = a.batch
  BY Zenon, <1>2 DEF Attempt
<1> HIDE DEF b
<1>5. \A i \in 1 .. Len(b.channel) : b.channel[i].kind \notin {"finish", "closed"}
  BY SMTT(60), <1>1, <1>2, <1>4 DEF ReadsSound
<1>6. ReadsSound(log, b) BY SMTT(60), <1>2, <1>4, <1>5 DEF ReadsSound
<1>7. attempts'[c] = b /\ \A d \in Requests : d # c => attempts'[d] = attempts[d] BY Zenon, <1>1
<1>8. /\ durability'.channel = Append(channel, c) /\ durability'.group = durability.group
      /\ durability'.target = durability.target /\ durability'.channel \in Seq(Requests)
      /\ durability' \in [channel : Seq(Requests), group : SUBSET Requests, target : Int]
  <2>1. Append(channel, c) \in Seq(Requests) BY <1>1
  <2> DEFINE more == Append(channel, c)
  <2>2. durability' = [durability EXCEPT !.channel = more] BY Zenon, <1>1
  <2>3. durability \in [channel : Seq(Requests), group : SUBSET Requests, target : Int] BY Zenon, <1>1
  <2> HIDE DEF more, channel
  <2> QED BY Zenon, <2>1, <2>2, <2>3 DEF more
<1>9. TypeOK' BY Zenon, <1>0, <1>1, <1>3, <1>8 DEF TypeOK
<1>10. WriterSerial'
  <2>0. a.phase = "settled" /\ queue \in Seq(Requests) BY SMTT(20), <1>1
  <2>1. \A i \in 1 .. Len(queue) : queue[i] # c /\ queue[i] \in Requests
    BY SMTT(60), <2>0, <1>0 DEF WriterSerial
  <2> QED BY <2>1, <1>0, <1>1, <1>7 DEF WriterSerial
<1>11. OutcomesTrue'
  <2>1. \A i \in 1 .. Len(log) : log[i] \in Entry BY SMTT(60), <1>1
  <2>2. \A i \in 1 .. Len(log) : log[i].request \in Requests BY Zenon, <2>1 DEF Entry
  <2> QED BY ZenonT(60), <2>2, <1>0, <1>1, <1>4, <1>7 DEF OutcomesTrue
<1>12. WaitersCommitted'
  <2>1. \A d \in Requests : HasCommitted(d)' = HasCommitted(d) BY Zenon, <1>1 DEF HasCommitted
  <2>2. \A i \in 1 .. Len(channel) : channel[i] \in Requests /\ channel[i] # c
    BY <1>0, <1>1 DEF WaitersCommitted
  <2>3. c \notin durability.group BY Zenon, <1>0, <1>1 DEF WaitersCommitted
  <2>4. \A i \in 1 .. Len(durability'.channel) :
           \/ i \in 1 .. Len(channel) /\ durability'.channel[i] = channel[i]
           \/ i = Len(channel) + 1 /\ durability'.channel[i] = c
    BY SMTT(60), <1>1, <1>8
  <2>5. \A i, j \in 1 .. Len(durability'.channel) :
           durability'.channel[i] = durability'.channel[j] => i = j
    BY ZenonT(60), <2>2, <2>4, <1>0 DEF WaitersCommitted
  <2>6. \A i \in 1 .. Len(durability'.channel) :
           /\ durability'.channel[i] \notin Readers \cup durability'.group
           /\ attempts'[durability'.channel[i]].phase = "waiting"
    <3>1. \A i \in 1 .. Len(channel) : attempts'[channel[i]] = attempts[channel[i]]
      BY ZenonT(60), <2>2, <1>7
    <3> QED BY SMTT(60), <3>1, <2>3, <2>4, <1>0, <1>1, <1>4, <1>7, <1>8 DEF WaitersCommitted
  <2>7. \A d \in Requests \ Readers :
           (attempts'[d].phase = "settled" /\ attempts'[d].result = "ok")
              \/ attempts'[d].phase = "waiting"
           => HasCommitted(d)'
    BY <2>1, <1>0, <1>1, <1>4, <1>7 DEF WaitersCommitted
  <2>8. \A d \in durability'.group : d \notin Readers /\ attempts'[d].phase = "waiting"
    BY ZenonT(60), <2>3, <1>0, <1>1, <1>7, <1>8 DEF WaitersCommitted
  <2> QED BY SMTT(60), <2>5, <2>6, <2>7, <2>8, <1>0, <1>1, <1>8 DEF WaitersCommitted
<1>13. AcknowledgedDurable' BY ZenonT(60), <1>0, <1>1, <1>4, <1>7 DEF AcknowledgedDurable
<1>14. (\A d \in Requests : ReadsSound(log, attempts[d]))' BY Zenon, <1>0, <1>1, <1>6, <1>7
<1> QED BY Zenon, <1>9, <1>10, <1>11, <1>12, <1>13, <1>14 DEF StoreInvariant

(* The durability task takes the first of a group (synchronize_groups). *)
LEMMA TakeFirstStep ==
    ASSUME StoreInvariant, TakeFirst
    PROVE  StoreInvariant'
<1>0. /\ TypeOK /\ WriterSerial /\ OutcomesTrue /\ WaitersCommitted /\ AcknowledgedDurable
      /\ \A d \in Requests : ReadsSound(log, attempts[d])
  BY Zenon DEF StoreInvariant
<1> DEFINE channel == durability.channel
<1>1. /\ channel \in Seq(Requests) /\ channel # <<>>
      /\ UNCHANGED <<log, synced, queue, attempts, crashes>>
      /\ durability' = [channel |-> Tail(channel), group |-> {Head(channel)},
                        target |-> NoBarrier]
  BY Zenon, <1>0 DEF TypeOK, TakeFirst
<1>2. /\ Tail(channel) \in Seq(Requests) /\ Head(channel) = channel[1]
      /\ 1 \in 1 .. Len(channel) /\ channel[1] \in Requests
      /\ \A i \in 1 .. Len(Tail(channel)) :
            /\ i + 1 \in 1 .. Len(channel) /\ Tail(channel)[i] = channel[i + 1]
            /\ i + 1 # 1 /\ i \in Int
  BY <1>1
<1>3. /\ durability'.channel = Tail(channel) /\ durability'.group = {channel[1]}
      /\ durability'.target = NoBarrier
      /\ durability' \in [channel : Seq(Requests), group : SUBSET Requests, target : Int]
  BY <1>1, <1>2 DEF NoBarrier
<1>4. TypeOK' BY Zenon, <1>0, <1>1, <1>3 DEF TypeOK
<1>5. WriterSerial' BY ZenonT(60), <1>0, <1>1 DEF WriterSerial
<1>6. OutcomesTrue' BY SMTT(60), <1>0, <1>1 DEF OutcomesTrue
<1>7. WaitersCommitted'
  <2>1. \A d \in Requests : HasCommitted(d)' = HasCommitted(d) BY ZenonT(60), <1>1 DEF HasCommitted
  <2>2. \A i, j \in 1 .. Len(channel) : channel[i] = channel[j] => i = j
    BY Zenon, <1>0 DEF WaitersCommitted
  <2>3. \A i \in 1 .. Len(channel) :
           channel[i] \notin Readers /\ attempts[channel[i]].phase = "waiting"
    BY Zenon, <1>0 DEF WaitersCommitted
  <2>4. \A i, j \in 1 .. Len(durability'.channel) :
           durability'.channel[i] = durability'.channel[j] => i = j
    <3> SUFFICES ASSUME NEW i \in 1 .. Len(Tail(channel)), NEW j \in 1 .. Len(Tail(channel)),
                        Tail(channel)[i] = Tail(channel)[j]
                 PROVE  i = j
      BY ZenonT(40), <1>3
    <3>1. /\ i + 1 \in 1 .. Len(channel) /\ Tail(channel)[i] = channel[i + 1] /\ i \in Int
          /\ j + 1 \in 1 .. Len(channel) /\ Tail(channel)[j] = channel[j + 1] /\ j \in Int
      BY Zenon, <1>2
    <3>2. i + 1 = j + 1 BY Zenon, <3>1, <2>2
    <3> QED BY <3>1, <3>2
  <2>5. \A i \in 1 .. Len(durability'.channel) :
           /\ durability'.channel[i] \notin Readers \cup durability'.group
           /\ attempts'[durability'.channel[i]].phase = "waiting"
    <3> SUFFICES ASSUME NEW i \in 1 .. Len(Tail(channel))
                 PROVE  /\ Tail(channel)[i] \notin Readers \cup {channel[1]}
                        /\ attempts[Tail(channel)[i]].phase = "waiting"
      BY Zenon, <1>1, <1>3
    <3>1. i + 1 \in 1 .. Len(channel) /\ Tail(channel)[i] = channel[i + 1] /\ i + 1 # 1
      BY Zenon, <1>2
    <3> QED BY Zenon, <3>1, <2>2, <2>3, <1>2
  <2>6. \A d \in durability'.group : d \notin Readers /\ attempts'[d].phase = "waiting"
    BY Zenon, <2>3, <1>1, <1>2, <1>3
  <2> QED BY ZenonT(60), <2>1, <2>4, <2>5, <2>6, <1>0, <1>1, <1>3 DEF WaitersCommitted
<1>8. AcknowledgedDurable' BY Zenon, <1>0, <1>1 DEF AcknowledgedDurable
<1>9. (\A d \in Requests : ReadsSound(log, attempts[d]))' BY Zenon, <1>0, <1>1
<1> QED BY Zenon, <1>4, <1>5, <1>6, <1>7, <1>8, <1>9 DEF StoreInvariant

-----------------------------------------------------------------------------
(* The durability barrier and recovery                                     *)

(* The barrier is invoked for a group that has committed                      *)
(* (synchronize_groups).                                                    *)
LEMMA InvokeBarrierStep ==
    ASSUME StoreInvariant, InvokeBarrier
    PROVE  StoreInvariant'
<1>0. /\ TypeOK /\ WriterSerial /\ OutcomesTrue /\ WaitersCommitted /\ AcknowledgedDurable
      /\ \A d \in Requests : ReadsSound(log, attempts[d])
  BY Zenon DEF StoreInvariant
<1> DEFINE channel == durability.channel
           n == IF Len(channel) < Capacity THEN Len(channel) ELSE Capacity - 1
           rest == SubSeq(channel, n + 1, Len(channel))
           taken == {channel[i] : i \in 1 .. n}
           group == durability.group \cup taken
<1>1. /\ channel \in Seq(Requests) /\ durability.group \in SUBSET Requests /\ log \in Seq(Entry)
      /\ UNCHANGED <<log, synced, queue, attempts, crashes>>
      /\ durability' = [channel |-> rest, group |-> group, target |-> Len(log)]
  BY Zenon, <1>0 DEF TypeOK, InvokeBarrier
<1>2. n \in 0 .. Len(channel) BY <1>1, RocksDbAssumption
<1> HIDE DEF n
<1>3. /\ rest \in Seq(Requests)
      /\ \A i \in 1 .. Len(rest) :
            n + i \in n + 1 .. Len(channel) /\ rest[i] = channel[n + i] /\ i \in Int
  BY SMTT(60), <1>1, <1>2
<1>4. \A i \in 1 .. Len(channel) : channel[i] \in Requests BY SMTT(60), <1>1
<1>5. taken \subseteq Requests BY <1>2, <1>4
<1> HIDE DEF rest
<1>6. /\ durability'.channel = rest /\ durability'.group = group
      /\ durability'.target = Len(log)
      /\ durability' \in [channel : Seq(Requests), group : SUBSET Requests, target : Int]
  BY <1>1, <1>3, <1>5
<1>7. TypeOK' BY Zenon, <1>0, <1>1, <1>6 DEF TypeOK
<1>8. WriterSerial' BY ZenonT(60), <1>0, <1>1 DEF WriterSerial
<1>9. OutcomesTrue' BY Zenon, <1>0, <1>1 DEF OutcomesTrue
<1>10. WaitersCommitted'
  <2>1. \A d \in Requests : HasCommitted(d)' = HasCommitted(d) BY ZenonT(60), <1>1 DEF HasCommitted
  <2>2. /\ \A i, j \in 1 .. Len(channel) : channel[i] = channel[j] => i = j
        /\ \A i \in 1 .. Len(channel) :
              /\ channel[i] \notin Readers \cup durability.group
              /\ attempts[channel[i]].phase = "waiting"
        /\ \A d \in durability.group : d \notin Readers /\ attempts[d].phase = "waiting"
        /\ \A d \in Requests \ Readers : attempts[d].phase = "waiting" => HasCommitted(d)
    BY Zenon, <1>0 DEF WaitersCommitted
  <2>3. \A i, j \in 1 .. Len(rest) : rest[i] = rest[j] => i = j
    <3> SUFFICES ASSUME NEW i \in 1 .. Len(rest), NEW j \in 1 .. Len(rest), rest[i] = rest[j]
                 PROVE  i = j
      BY Zenon
    <3>1. n + i \in 1 .. Len(channel) /\ n + j \in 1 .. Len(channel) BY <1>2, <1>3
    <3>2. n + i = n + j BY Zenon, <3>1, <2>2, <1>3
    <3> QED BY <3>2, <1>2, <1>3
  <2>4. \A i \in 1 .. Len(rest) :
           rest[i] \notin Readers \cup group /\ attempts[rest[i]].phase = "waiting"
    <3> SUFFICES ASSUME NEW i \in 1 .. Len(rest)
                 PROVE  rest[i] \notin Readers \cup group /\ attempts[rest[i]].phase = "waiting"
      BY Zenon
    <3>1. n + i \in 1 .. Len(channel) /\ n + i > n /\ rest[i] = channel[n + i] BY <1>2, <1>3
    <3>2. rest[i] \notin taken
      <4> SUFFICES ASSUME NEW j \in 1 .. n, channel[n + i] = channel[j] PROVE FALSE
        BY Zenon, <3>1
      <4>1. j \in 1 .. Len(channel) /\ n + i # j BY <3>1, <1>2
      <4> QED BY Zenon, <4>1, <3>1, <2>2
    <3> QED BY Zenon, <3>1, <3>2, <2>2
  <2>5. \A d \in group : d \in Requests /\ d \notin Readers /\ attempts[d].phase = "waiting"
    BY SMTT(60), <2>2, <1>1, <1>2, <1>4
  <2>6. \A d \in group : \E i \in 1 .. Len(log) : log[i].request = d
    BY Zenon, <2>2, <2>5 DEF HasCommitted
  <2>7. Len(log) \in 0 .. Len(log) BY SMTT(60), <1>1
  <2> HIDE DEF group
  <2> QED BY SMTT(60), <2>1, <2>3, <2>4, <2>5, <2>6, <2>7, <1>0, <1>1, <1>6 DEF WaitersCommitted
<1>11. AcknowledgedDurable' BY Zenon, <1>0, <1>1 DEF AcknowledgedDurable
<1>12. (\A d \in Requests : ReadsSound(log, attempts[d]))' BY Zenon, <1>0, <1>1
<1> QED BY Zenon, <1>7, <1>8, <1>9, <1>10, <1>11, <1>12 DEF StoreInvariant

(* The barrier returns and its group is answered (synchronize_groups). *)
LEMMA FinishBarrierStep ==
    ASSUME StoreInvariant, FinishBarrier
    PROVE  StoreInvariant'
<1>0. /\ TypeOK /\ WriterSerial /\ OutcomesTrue /\ WaitersCommitted /\ AcknowledgedDurable
      /\ \A d \in Requests : ReadsSound(log, attempts[d])
  BY ZenonT(60) DEF StoreInvariant
<1> DEFINE group == durability.group
           target == durability.target
<1>1. PICK result \in {"ok", "unknown"}, reach \in {synced, target} :
         /\ result = "ok" => reach = target
         /\ synced' = IF reach > synced THEN reach ELSE synced
         /\ attempts' = [c \in Requests |->
               IF c \in group THEN Acknowledged(attempts[c], result) ELSE attempts[c]]
  BY Zenon DEF FinishBarrier
<1>2. /\ attempts \in [Requests -> Attempt] /\ queue \in Seq(Requests) /\ log \in Seq(Entry)
      /\ durability.channel \in Seq(Requests) /\ group \in SUBSET Requests
      /\ synced \in 0 .. Len(log) /\ target # NoBarrier /\ Len(log) \in Nat
      /\ durability \in [channel : Seq(Requests), group : SUBSET Requests, target : Int]
      /\ UNCHANGED <<log, queue, crashes>>
      /\ durability' = [durability EXCEPT !.group = {}, !.target = NoBarrier]
  BY <1>0 DEF TypeOK, FinishBarrier
<1>3. target \in 0 .. Len(log) /\ \A d \in group : \E i \in 1 .. target : log[i].request = d
  BY Zenon, <1>0, <1>2 DEF WaitersCommitted
<1>4. \A d \in group : d \in Requests /\ d \notin Readers /\ attempts[d].phase = "waiting"
  BY Zenon, <1>0, <1>2 DEF WaitersCommitted
<1>5. /\ synced' \in 0 .. Len(log) /\ synced' >= synced
      /\ result = "ok" => synced' >= target
  BY <1>1, <1>2, <1>3
<1>6. \A d \in group :
         /\ attempts'[d] \in Attempt /\ ReadsSound(log, attempts'[d])
         /\ attempts'[d].phase = "answered" /\ attempts'[d].result = result
  <2> SUFFICES ASSUME NEW d \in group
               PROVE  /\ attempts'[d] \in Attempt /\ ReadsSound(log, attempts'[d])
                      /\ attempts'[d].phase = "answered" /\ attempts'[d].result = result
    BY Zenon
  <2> DEFINE a == attempts[d]
             b == Acknowledged(a, result)
  <2>1. a \in Attempt /\ ReadsSound(log, a) /\ a.phase = "waiting" BY Zenon, <1>0, <1>2, <1>4
  <2>2. attempts'[d] = b BY Zenon, <1>1, <1>4
  <2>3. b \in Attempt BY Zenon, <2>1 DEF Acknowledged, Attempt, Phase, Result
  <2>4. /\ b.phase = "answered" /\ b.result = result /\ b.snapshot = a.snapshot
        /\ b.pending = a.pending /\ b.staged = a.staged /\ b.channel = a.channel
        /\ b.slots = a.slots /\ b.seen = a.seen /\ b.batch = a.batch
    BY Zenon, <2>1 DEF Acknowledged, Attempt
  <2> HIDE DEF b
  <2>5. \A i \in 1 .. Len(b.channel) : b.channel[i].kind \notin {"finish", "closed"}
    BY ZenonT(60), <2>1, <2>4 DEF ReadsSound
  <2>6. ReadsSound(log, b) BY ZenonT(60), <2>1, <2>4, <2>5 DEF ReadsSound
  <2> QED BY Zenon, <2>2, <2>3, <2>4, <2>6
<1>7. \A d \in Requests : d \notin group => attempts'[d] = attempts[d] BY Zenon, <1>1
<1>8. attempts' \in [Requests -> Attempt]
  <2>1. \A d \in Requests : attempts'[d] \in Attempt BY Zenon, <1>2, <1>6, <1>7
  <2>2. attempts' = [d \in Requests |-> attempts'[d]] BY Zenon, <1>1
  <2> QED BY Zenon, <2>1, <2>2
<1>9. /\ durability'.channel = durability.channel /\ durability'.group = {}
      /\ durability'.target = NoBarrier
      /\ durability' \in [channel : Seq(Requests), group : SUBSET Requests, target : Int]
  <2>1. /\ durability \in [channel : Seq(Requests), group : SUBSET Requests, target : Int]
        /\ durability' = [durability EXCEPT !.group = {}, !.target = NoBarrier]
    BY Zenon, <1>2
  <2>2. NoBarrier \in Int BY DEF NoBarrier
  <2> DEFINE none == {}
  <2>3. none \in SUBSET Requests BY Zenon
  <2>4. durability' = [durability EXCEPT !.group = none, !.target = NoBarrier] BY Zenon, <2>1
  <2> HIDE DEF none
  <2> QED BY Zenon, <2>1, <2>2, <2>3, <2>4 DEF none
<1>10. TypeOK' BY Zenon, <1>0, <1>2, <1>5, <1>8, <1>9 DEF TypeOK
<1>11. WriterSerial'
  <2>0. queue \in Seq(Requests) BY Zenon, <1>2
  <2>1. \A i \in 1 .. Len(queue) : queue[i] \in Requests /\ queue[i] \notin group
    BY SMTT(60), <2>0, <1>0, <1>4 DEF WriterSerial
  <2>2. \A i \in 1 .. Len(queue) : attempts'[queue[i]] = attempts[queue[i]] BY Zenon, <2>1, <1>7
  <2> QED BY SMTT(60), <2>2, <1>0, <1>2 DEF WriterSerial
<1>12. OutcomesTrue'
  <2>1. \A i \in 1 .. Len(log) : log[i] \in Entry BY <1>2
  <2>2. \A i \in 1 .. Len(log) : log[i].request \in Requests BY Zenon, <2>1 DEF Entry
  <2> QED BY SMTT(60), <2>2, <1>0, <1>2, <1>6, <1>7 DEF OutcomesTrue
<1>13. WaitersCommitted'
  <2>1. \A d \in Requests : HasCommitted(d)' = HasCommitted(d) BY Zenon, <1>2 DEF HasCommitted
  <2>2. \A i \in 1 .. Len(durability.channel) :
           durability.channel[i] \in Requests /\ durability.channel[i] \notin group
    BY <1>0, <1>2 DEF WaitersCommitted
  <2>3. \A i \in 1 .. Len(durability.channel) :
           attempts'[durability.channel[i]] = attempts[durability.channel[i]]
    BY Zenon, <2>2, <1>7
  <2>4. \A d \in Requests \ Readers :
           (attempts'[d].phase = "settled" /\ attempts'[d].result = "ok")
              \/ attempts'[d].phase = "waiting"
           => HasCommitted(d)'
    BY SMTT(60), <2>1, <1>0, <1>6, <1>7 DEF WaitersCommitted
  <2> QED BY SMTT(60), <2>3, <2>4, <1>0, <1>2, <1>9 DEF WaitersCommitted
<1>14. AcknowledgedDurable'
  <2> SUFFICES ASSUME NEW d \in Requests \ Readers,
                      attempts'[d].phase = "answered", attempts'[d].result = "ok"
               PROVE  \E i \in 1 .. synced' : log[i].request = d
    BY Zenon, <1>2 DEF AcknowledgedDurable
  <2>1. CASE d \in group
    <3>1. synced' >= target BY Zenon, <2>1, <1>5, <1>6
    <3>2. PICK i \in 1 .. target : log[i].request = d BY Zenon, <2>1, <1>3
    <3> QED BY SMTT(60), <3>1, <3>2, <1>3, <1>5
  <2>2. CASE d \notin group
    <3>1. PICK i \in 1 .. synced : log[i].request = d
      BY Zenon, <2>2, <1>0, <1>7 DEF AcknowledgedDurable
    <3> QED BY <3>1, <1>2, <1>5
  <2> QED BY Zenon, <2>1, <2>2
<1>15. (\A d \in Requests : ReadsSound(log, attempts[d]))' BY Zenon, <1>0, <1>2, <1>6, <1>7
<1> QED BY Zenon, <1>10, <1>11, <1>12, <1>13, <1>14, <1>15 DEF StoreInvariant

(* What is left of a request after a crash: nothing, or its answer. *)
LEMMA CrashedAttempts ==
    ASSUME attempts \in [Requests -> Attempt], Crash
    PROVE  /\ attempts' \in [Requests -> Attempt]
           /\ \A c \in Requests :
                 /\ \A commits : ReadsSound(commits, attempts'[c])
                 /\ \/ attempts[c].phase = "idle" /\ attempts'[c].phase = "idle"
                    \/ /\ attempts[c].phase = "answered" /\ attempts'[c].phase = "answered"
                       /\ attempts'[c].result = attempts[c].result
                    \/ attempts[c].phase # "answered" /\ attempts'[c].phase = "lost"
<1>1. \A c \in Requests :
         /\ attempts'[c] \in Attempt
         /\ \A commits : ReadsSound(commits, attempts'[c])
         /\ \/ attempts[c].phase = "idle" /\ attempts'[c].phase = "idle"
            \/ /\ attempts[c].phase = "answered" /\ attempts'[c].phase = "answered"
               /\ attempts'[c].result = attempts[c].result
            \/ attempts[c].phase # "answered" /\ attempts'[c].phase = "lost"
  <2> SUFFICES ASSUME NEW c \in Requests
               PROVE  /\ attempts'[c] \in Attempt
                      /\ \A commits : ReadsSound(commits, attempts'[c])
                      /\ \/ attempts[c].phase = "idle" /\ attempts'[c].phase = "idle"
                         \/ /\ attempts[c].phase = "answered"
                            /\ attempts'[c].phase = "answered"
                            /\ attempts'[c].result = attempts[c].result
                         \/ attempts[c].phase # "answered" /\ attempts'[c].phase = "lost"
    BY Zenon
  <2> DEFINE a == attempts[c]
  <2>1. attempts'[c] = IF a = FreshAttempt("idle", 0) THEN a
                       ELSE IF a.phase = "answered" THEN Ended(a, a.phase, a.result, a.staged)
                       ELSE Ended(a, "lost", "none", a.staged)
    BY Zenon DEF Crash
  <2>2. a \in Attempt BY Zenon
  <2>3. a.phase \in Phase /\ a.result \in Result /\ a.staged \in Partial
    BY Zenon, <2>2 DEF Attempt
  <2>4. "lost" \in Phase /\ "none" \in Result BY Zenon DEF Phase, Result
  <2>5. CASE a = FreshAttempt("idle", 0)
    <3>1. \A commits : ReadsSound(commits, FreshAttempt("idle", 0)) BY Zenon, FreshReads
    <3>2. FreshAttempt("idle", 0).phase = "idle" BY Zenon DEF FreshAttempt
    <3>3. attempts'[c] = a BY Zenon, <2>1, <2>5
    <3> QED BY Zenon, <3>1, <3>2, <3>3, <2>2, <2>5
  <2>6. CASE a # FreshAttempt("idle", 0) /\ a.phase = "answered"
    <3>1. attempts'[c] = Ended(a, a.phase, a.result, a.staged) BY Zenon, <2>1, <2>6
    <3> DEFINE phase == a.phase
               result == a.result
               staged == a.staged
    <3>2. phase \in Phase /\ result \in Result /\ staged \in Partial BY Zenon, <2>3
    <3>3. attempts'[c] = Ended(a, phase, result, staged) BY Zenon, <3>1
    <3>4. phase = "answered" /\ result = attempts[c].result BY Zenon, <2>6
    <3> HIDE DEF a, phase, result, staged
    <3> QED BY SMTT(60), <3>2, <3>3, <3>4, <2>2, EndedFacts DEF a, phase
  <2>7. CASE a # FreshAttempt("idle", 0) /\ a.phase # "answered"
    <3>1. attempts'[c] = Ended(a, "lost", "none", a.staged) BY Zenon, <2>1, <2>7
    <3> DEFINE staged == a.staged
    <3>2. staged \in Partial BY Zenon, <2>3
    <3>3. attempts'[c] = Ended(a, "lost", "none", staged) BY Zenon, <3>1
    <3>4. attempts[c].phase # "answered" BY Zenon, <2>7
    <3> HIDE DEF a, staged
    <3>5. /\ attempts'[c] \in Attempt /\ attempts'[c].phase = "lost"
          /\ \A commits : ReadsSound(commits, attempts'[c])
      BY <3>2, <3>3, <2>2, <2>4, EndedFacts
    <3> QED BY Zenon, <3>4, <3>5
  <2> QED BY Zenon, <2>5, <2>6, <2>7
<1>2. attempts' = [c \in Requests |-> attempts'[c]] BY Zenon DEF Crash
<1> QED BY Zenon, <1>1, <1>2

(* A crash and the recovery of the write-ahead log. *)
LEMMA CrashStep ==
    ASSUME StoreInvariant, Crash
    PROVE  StoreInvariant'
<1>0. /\ TypeOK /\ OutcomesTrue /\ AcknowledgedDurable BY ZenonT(60) DEF StoreInvariant
<1>1. /\ attempts \in [Requests -> Attempt] /\ log \in Seq(Entry) /\ Len(log) \in Nat
      /\ synced \in 0 .. Len(log) /\ crashes \in Nat
  BY <1>0 DEF TypeOK
<1>2. PICK n \in synced .. Len(log) : log' = SubSeq(log, 1, n) /\ synced' = n BY Zenon DEF Crash
<1>3. n \in 0 .. Len(log) /\ n >= synced BY <1>1, <1>2
<1>4. /\ log' \in Seq(Entry) /\ Len(log') = n /\ \A i \in 1 .. n : log'[i] = log[i]
  BY <1>1, <1>2, <1>3
<1>5. /\ queue' = <<>> /\ crashes' \in Nat
      /\ durability' = [channel |-> <<>>, group |-> {}, target |-> NoBarrier]
  BY SMTT(60), <1>1 DEF Crash
<1>6. /\ attempts' \in [Requests -> Attempt]
      /\ \A c \in Requests :
            /\ \A commits : ReadsSound(commits, attempts'[c])
            /\ \/ attempts[c].phase = "idle" /\ attempts'[c].phase = "idle"
               \/ /\ attempts[c].phase = "answered" /\ attempts'[c].phase = "answered"
                  /\ attempts'[c].result = attempts[c].result
               \/ attempts[c].phase # "answered" /\ attempts'[c].phase = "lost"
  BY Zenon, <1>1, CrashedAttempts
<1>7. durability' \in [channel : Seq(Requests), group : SUBSET Requests, target : Int]
  BY <1>5 DEF NoBarrier
<1>8. TypeOK'
  <2>1. queue' \in Seq(Requests) BY SMTT(60), <1>5
  <2>2. synced' \in 0 .. Len(log') BY <1>2, <1>3, <1>4
  <2> QED BY Zenon, <2>1, <2>2, <1>4, <1>5, <1>6, <1>7 DEF TypeOK
<1>9. WriterSerial' BY SMTT(60), <1>5 DEF WriterSerial
<1>10. OutcomesTrue'
  <2>1. \A i \in 1 .. Len(log') :
           i \in 1 .. Len(log) /\ log'[i] = log[i] /\ log[i] \in Entry
    BY SMTT(60), <1>1, <1>3, <1>4
  <2>2. \A i \in 1 .. Len(log') : log[i].request \in Requests BY Zenon, <2>1 DEF Entry
  <2> QED BY ZenonT(60), <2>1, <2>2, <1>0, <1>6 DEF OutcomesTrue
<1>11. WaitersCommitted'
  <2>1. \A c \in Requests : attempts'[c].phase \notin {"settled", "waiting"} BY Zenon, <1>6
  <2> QED BY SMTT(60), <2>1, <1>5 DEF WaitersCommitted
<1>12. AcknowledgedDurable'
  <2> SUFFICES ASSUME NEW c \in Requests \ Readers,
                      attempts'[c].phase = "answered", attempts'[c].result = "ok"
               PROVE  \E i \in 1 .. synced' : log'[i].request = c
    BY ZenonT(60) DEF AcknowledgedDurable
  <2>1. attempts[c].phase = "answered" /\ attempts[c].result = "ok" BY Zenon, <1>6
  <2>2. PICK i \in 1 .. synced : log[i].request = c BY Zenon, <2>1, <1>0 DEF AcknowledgedDurable
  <2>3. i \in 1 .. n BY <1>1, <1>3, <2>2
  <2> QED BY Zenon, <2>2, <2>3, <1>2, <1>4
<1>13. (\A c \in Requests : ReadsSound(log, attempts[c]))' BY Zenon, <1>6
<1> QED BY Zenon, <1>8, <1>9, <1>10, <1>11, <1>12, <1>13 DEF StoreInvariant

(* A call is dropped (NativeAttemptCall's Drop). *)
LEMMA DropCallStep ==
    ASSUME StoreInvariant, NEW c \in Requests, NEW s \in Slots, DropCall(c, s)
    PROVE  StoreInvariant'
<1> DEFINE kind == "rejected"
<1>1. kind \in {"rejected", "capacity"} BY Zenon
<1>2. /\ attempts' = [attempts EXCEPT ![c].slots[s] = IdleSlot,
                                      ![c].settlement = Rejected(attempts[c], kind)]
      /\ UNCHANGED <<log, synced, queue, durability, crashes>>
  BY Zenon DEF DropCall
<1> QED BY Zenon, <1>1, <1>2, EndCallStep

(* No step of an attempt, of the durability task or of recovery breaks the    *)
(* invariant.                                                               *)
LEMMA NextStep ==
    ASSUME StoreInvariant, [Next]_vars
    PROVE  StoreInvariant'
<1>1. CASE UNCHANGED vars
  <2>1. TypeOK' BY ZenonT(60), <1>1 DEF StoreInvariant, TypeOK, vars
  <2>2. WriterSerial' BY ZenonT(60), <1>1 DEF StoreInvariant, WriterSerial, vars
  <2>3. OutcomesTrue' BY ZenonT(60), <1>1 DEF StoreInvariant, OutcomesTrue, vars
  <2>4. WaitersCommitted' BY ZenonT(60), <1>1 DEF StoreInvariant, WaitersCommitted, HasCommitted, vars
  <2>5. AcknowledgedDurable' BY ZenonT(60), <1>1 DEF StoreInvariant, AcknowledgedDurable, vars
  <2>6. (\A c \in Requests : ReadsSound(log, attempts[c]))' BY Zenon, <1>1 DEF StoreInvariant, vars
  <2> QED BY Zenon, <2>1, <2>2, <2>3, <2>4, <2>5, <2>6 DEF StoreInvariant
<1>2. ASSUME NEW c \in Requests, Operation(c) PROVE StoreInvariant'
  <2>1. CASE BeginAttempt(c) BY Zenon, <2>1, BeginAttemptStep
  <2>2. CASE \E k \in Keys, v \in Stored : Stage(c, k, v) BY Zenon, <2>2, StageStep
  <2>3. CASE \E s \in Slots, k \in Keys : BeginGet(c, s, k) BY Zenon, <2>3, BeginGetStep
  <2>4. CASE ExhaustBudget(c) BY Zenon, <2>4, ExhaustBudgetStep
  <2>5. CASE \E s \in Slots : ResumeCall(c, s) BY Zenon, <2>5, ResumeCallStep
  <2>6. CASE \E s \in Slots : DropCall(c, s) BY Zenon, <2>6, DropCallStep
  <2>7. CASE \E result \in {"ok", "conflict", "failed"} : Return(c, result)
    BY Zenon, <2>7, ReturnStep
  <2>8. CASE Panic(c) BY Zenon, <2>8, PanicStep
  <2> QED BY Zenon, <1>2, <2>1, <2>2, <2>3, <2>4, <2>5, <2>6, <2>7, <2>8 DEF Operation
<1>3. ASSUME NEW c \in Requests, Native(c) PROVE StoreInvariant'
  BY Zenon, <1>3, StartNativeStep, CommandFailsStep, ApplyBatchStep, GetBatchStep,
     CommitNativeStep, RefuseCommitStep, ReleaseNativeStep, DropNativeStep
  DEF Native
<1>4. ASSUME NEW c \in Requests, Supervisor(c) PROVE StoreInvariant'
  BY ZenonT(60), <1>4, RetryStep, AnswerRequestStep, AwaitDurabilityStep DEF Supervisor
<1>5. CASE Durability
  BY Zenon, <1>5, TakeFirstStep, InvokeBarrierStep, FinishBarrierStep DEF Durability
<1>6. CASE Crash BY Zenon, <1>6, CrashStep
<1> QED BY Zenon, <1>1, <1>2, <1>3, <1>4, <1>5, <1>6 DEF Next

(* Along every run the attempts are serial, truthful and durable.            *)
THEOREM StoreInvariantHolds == Spec => []StoreInvariant
<1>1. Init => StoreInvariant BY Zenon, InitInvariant
<1>2. StoreInvariant /\ [Next]_vars => StoreInvariant' BY Zenon, NextStep
<1> QED BY <1>1, <1>2, PTL DEF Spec

(* No crash takes away what DurabilityBatch::wait acknowledged, for any       *)
(* number of requests, group capacity and crashes.                          *)
THEOREM AcknowledgedStaysDurable == Spec => []AcknowledgedDurable
<1>1. StoreInvariant => AcknowledgedDurable BY Zenon DEF StoreInvariant
<1> QED BY <1>1, StoreInvariantHolds, PTL

(* Every attempt, and a read-only one beside the writer in particular, reads  *)
(* the store as it was after one commit (AttemptMode::ReadOnly).            *)
THEOREM SnapshotsCoherent == Spec => []SnapshotCoherent
<1>1. StoreInvariant => SnapshotCoherent
  BY ZenonT(60) DEF StoreInvariant, ReadsSound, SnapshotCoherent
<1> QED BY <1>1, StoreInvariantHolds, PTL
-----------------------------------------------------------------------------
(* Refinement: every step of the writer thread, the supervisors, the       *)
(* durability task and recovery is a step of NativeStore, or one that       *)
(* changes neither the commits nor an answer.                               *)

(* The store has the same commits, whichever module names them. *)
LEMMA SameStore ==
    /\ Store!Commit = Entry
    /\ \A db, writes : Store!Overlay(db, writes) = Overlay(db, writes)
    /\ \A n : Store!ContentsAfter(n) = ContentsAfter(log, n)
    /\ \A c : Store!HasCommitted(c) <=> HasCommitted(c)
BY Zenon DEF Store!Commit, Store!Contents, Store!Partial, Store!Stored, Store!NoValue,
       Store!Overlay, Store!ContentsAfter, Store!HasCommitted,
       Entry, Partial, Stored, NoValue, Overlay, ContentsAfter, HasCommitted

(* A step of one attempt that answers nobody. *)
LEMMA QuietStep ==
    ASSUME NEW c \in Requests, log' = log,
           \A d \in Requests : d # c => attempts'[d] = attempts[d],
           \/ /\ attempts'[c].phase = attempts[c].phase
              /\ attempts'[c].result = attempts[c].result
           \/ attempts'[c].phase # "answered" /\ attempts[c].phase # "answered"
    PROVE  UNCHANGED <<log, Answers>>
<1>1. \A d \in Requests : Answered(attempts'[d]) = Answered(attempts[d]) BY Zenon DEF Answered
<1> QED BY Zenon, <1>1 DEF Answers

(* The operation answers nobody, unless it panics (run_attempt). *)
LEMMA OperationQuiet ==
    ASSUME StoreInvariant, NEW c \in Requests, Operation(c), ~ Panic(c)
    PROVE  UNCHANGED <<log, Answers>>
<1> DEFINE a == attempts[c]
<1>1. attempts \in [Requests -> Attempt] /\ a \in Attempt BY Zenon, CallFacts
<1>2. CASE BeginAttempt(c)
  BY Zenon, <1>1, <1>2, QuietStep DEF BeginAttempt, FreshAttempt
<1>3. ASSUME NEW k \in Keys, NEW v \in Stored, Stage(c, k, v)
      PROVE  UNCHANGED <<log, Answers>>
  <2>1. /\ log' = log /\ \A d \in Requests : d # c => attempts'[d] = attempts[d]
        /\ attempts'[c].phase = a.phase /\ attempts'[c].result = a.result
    BY <1>1, <1>3 DEF Stage, Attempt
  <2> QED BY Zenon, <2>1, QuietStep
<1>4. ASSUME NEW s \in Slots, NEW k \in Keys, BeginGet(c, s, k)
      PROVE  UNCHANGED <<log, Answers>>
  <2> DEFINE b == [FlushBeforeRead(a, s, k) EXCEPT !.work = @ + 1]
  <2>1. log' = log /\ attempts' = [attempts EXCEPT ![c] = b] BY ZenonT(60), <1>4 DEF BeginGet
  <2>2. b.phase = a.phase /\ b.result = a.result
    BY Zenon, <1>1 DEF FlushBeforeRead, SendGet, Send, Attempt
  <2> HIDE DEF b
  <2>3. attempts'[c] = b /\ \A d \in Requests : d # c => attempts'[d] = attempts[d]
    BY Zenon, <1>1, <2>1
  <2> QED BY Zenon, <2>1, <2>2, <2>3, QuietStep
<1>5. CASE ExhaustBudget(c)
  <2>1. /\ log' = log /\ \A d \in Requests : d # c => attempts'[d] = attempts[d]
        /\ attempts'[c].phase = a.phase /\ attempts'[c].result = a.result
    BY Zenon, <1>1, <1>5 DEF ExhaustBudget, Attempt
  <2> QED BY Zenon, <2>1, QuietStep
<1>6. ASSUME NEW s \in Slots, ResumeCall(c, s) PROVE UNCHANGED <<log, Answers>>
  <2>0. log' = log BY Zenon, <1>6 DEF ResumeCall
  <2>1. CASE attempts' = [attempts EXCEPT ![c] = SendGet(a, s, a.slots[s].key)]
    <3> DEFINE b == SendGet(a, s, a.slots[s].key)
    <3>1. b.phase = a.phase /\ b.result = a.result BY Zenon, <1>1 DEF SendGet, Send, Attempt
    <3> HIDE DEF b
    <3>2. attempts'[c] = b /\ \A d \in Requests : d # c => attempts'[d] = attempts[d]
      BY Zenon, <1>1, <2>1 DEF b
    <3> QED BY Zenon, <3>1, <3>2, <2>0, QuietStep
  <2>2. ASSUME NEW seen,
               attempts' = [attempts EXCEPT ![c].slots[s] = IdleSlot, ![c].seen = seen]
        PROVE  UNCHANGED <<log, Answers>>
    <3>1. /\ \A d \in Requests : d # c => attempts'[d] = attempts[d]
          /\ attempts'[c].phase = a.phase /\ attempts'[c].result = a.result
      BY Zenon, <1>1, <2>2 DEF Attempt
    <3> QED BY Zenon, <3>1, <2>0, QuietStep
  <2>3. ASSUME NEW settlement,
               attempts' = [attempts EXCEPT ![c].slots[s] = IdleSlot,
                                            ![c].settlement = settlement]
        PROVE  UNCHANGED <<log, Answers>>
    <3>1. /\ \A d \in Requests : d # c => attempts'[d] = attempts[d]
          /\ attempts'[c].phase = a.phase /\ attempts'[c].result = a.result
      BY Zenon, <1>1, <2>3 DEF Attempt
    <3> QED BY Zenon, <3>1, <2>0, QuietStep
  <2> QED BY Zenon, <1>6, <2>1, <2>2, <2>3 DEF ResumeCall
<1>7. ASSUME NEW s \in Slots, DropCall(c, s) PROVE UNCHANGED <<log, Answers>>
  <2>1. /\ log' = log /\ \A d \in Requests : d # c => attempts'[d] = attempts[d]
        /\ attempts'[c].phase = a.phase /\ attempts'[c].result = a.result
    BY Zenon, <1>1, <1>7 DEF DropCall, Attempt
  <2> QED BY Zenon, <2>1, QuietStep
<1>8. ASSUME NEW result, Return(c, result) PROVE UNCHANGED <<log, Answers>>
  <2>1. /\ log' = log /\ \A d \in Requests : d # c => attempts'[d] = attempts[d]
        /\ attempts'[c].phase = "finishing" /\ a.phase = "open"
    BY Zenon, <1>1, <1>8 DEF Return, Attempt
  <2> QED BY Zenon, <2>1, QuietStep
<1> QED BY Zenon, <1>2, <1>3, <1>4, <1>5, <1>6, <1>7, <1>8 DEF Operation

(* The native side answers nobody and, short of a commit, changes nothing     *)
(* that others see (drive_attempt).                                         *)
LEMMA NativeQuiet ==
    ASSUME StoreInvariant, NEW c \in Requests, Native(c), ~ CommitNative(c)
    PROVE  UNCHANGED <<log, Answers>>
<1> DEFINE a == attempts[c]
<1>1. attempts \in [Requests -> Attempt] /\ a \in Attempt BY Zenon, CallFacts
<1>2. CASE StartNative(c)
  <2>1. /\ log' = log /\ \A d \in Requests : d # c => attempts'[d] = attempts[d]
        /\ attempts'[c].phase = a.phase /\ attempts'[c].result = a.result
    BY Zenon, <1>1, <1>2 DEF StartNative, Attempt
  <2> QED BY Zenon, <2>1, QuietStep
<1>3. CASE CommandFails(c)
  <2>1. /\ log' = log /\ \A d \in Requests : d # c => attempts'[d] = attempts[d]
        /\ attempts'[c].phase = a.phase /\ attempts'[c].result = a.result
    BY SMTT(60), <1>1, <1>3 DEF CommandFails, Attempt
  <2> QED BY Zenon, <2>1, QuietStep
<1>4. CASE ApplyBatch(c)
  <2>1. /\ log' = log /\ \A d \in Requests : d # c => attempts'[d] = attempts[d]
        /\ attempts'[c].phase = a.phase /\ attempts'[c].result = a.result
    BY Zenon, <1>1, <1>4 DEF ApplyBatch, Attempt
  <2> QED BY Zenon, <2>1, QuietStep
<1>5. CASE GetBatch(c)
  <2>1. /\ log' = log /\ \A d \in Requests : d # c => attempts'[d] = attempts[d]
        /\ attempts'[c].phase = a.phase /\ attempts'[c].result = a.result
    BY Zenon, <1>1, <1>5 DEF GetBatch, Attempt
  <2> QED BY Zenon, <2>1, QuietStep
<1>6. ASSUME NEW result, NEW staged, Settle(c, result, staged), log' = log,
             a.phase # "answered" \/ result = a.result
      PROVE  UNCHANGED <<log, Answers>>
  <2> DEFINE phase == IF a.phase = "finishing" THEN "settled" ELSE a.phase
             b == Ended(a, phase, result, staged)
  <2>1. attempts' = [attempts EXCEPT ![c] = b] BY Zenon, <1>6 DEF Settle
  <2>2. b.phase = phase /\ b.result = result BY Zenon DEF Ended, FreshAttempt
  <2> HIDE DEF b
  <2>3. attempts'[c] = b /\ \A d \in Requests : d # c => attempts'[d] = attempts[d]
    BY Zenon, <1>1, <2>1
  <2> QED BY Zenon, <1>6, <2>2, <2>3, QuietStep
<1>7. /\ ReadsSound(log, a) /\ a.channel \in Seq(Command)
  BY Zenon, CallFacts, AttemptTypes DEF StoreInvariant
<1>8. a.channel # <<>> /\ Head(a.channel).kind = "finish" => a.phase # "answered"
  <2>1. SUFFICES ASSUME a.channel # <<>>, Head(a.channel).kind = "finish"
                 PROVE  a.phase # "answered"
    BY Zenon
  <2>2. Head(a.channel) = a.channel[1] /\ 1 \in 1 .. Len(a.channel)
    BY Zenon, <2>1, <1>7, ReceiveCommand
  <2> QED BY Zenon, <2>1, <2>2, <1>7 DEF ReadsSound
<1>9. CASE RefuseCommit(c) BY Zenon, <1>6, <1>8, <1>9 DEF RefuseCommit, Receives
<1>10. CASE ReleaseNative(c) BY Zenon, <1>6, <1>8, <1>10 DEF ReleaseNative, Receives
<1>11. CASE DropNative(c) BY Zenon, <1>6, <1>11 DEF DropNative
<1> QED BY Zenon, <1>2, <1>3, <1>4, <1>5, <1>9, <1>10, <1>11 DEF Native

(* The supervisor answers a request without the barrier only if it failed or  *)
(* only reads (with_attempt).                                               *)
LEMMA SupervisorAnswers ==
    ASSUME StoreInvariant, NEW c \in Requests, Supervisor(c)
    PROVE  Store!Next \/ UNCHANGED <<log, Answers>>
<1> DEFINE a == attempts[c]
<1>1. attempts \in [Requests -> Attempt] /\ a \in Attempt /\ OutcomesTrue
  BY Zenon, CallFacts DEF StoreInvariant
<1>2. CASE Retry(c)
  <2>1. /\ log' = log /\ \A d \in Requests : d # c => attempts'[d] = attempts[d]
        /\ attempts'[c].phase = "idle" /\ a.phase = "settled"
    BY Zenon, <1>1, <1>2 DEF Retry, FreshAttempt
  <2> QED BY Zenon, <2>1, QuietStep
<1>3. CASE AwaitDurability(c)
  <2>1. /\ log' = log /\ \A d \in Requests : d # c => attempts'[d] = attempts[d]
        /\ attempts'[c].phase = "waiting" /\ a.phase = "settled"
    BY Zenon, <1>1, <1>3 DEF AwaitDurability, Attempt
  <2> QED BY Zenon, <2>1, QuietStep
<1>4. CASE AnswerRequest(c)
  <2>1. /\ log' = log /\ \A d \in Requests : d # c => attempts'[d] = attempts[d]
        /\ attempts'[c].phase = "answered" /\ attempts'[c].result = a.result
        /\ a.phase = "settled" /\ (a.result # "ok" \/ c \in Readers)
    BY Zenon, <1>1, <1>4 DEF AnswerRequest, AnswersAtOnce, Attempt
  <2>2. a.result \in {"none", "ok", "conflict", "failed", "unknown"}
    BY Zenon, <1>1 DEF Attempt, Result
  <2> DEFINE answer == Answered(attempts'[c])
  <2>3. /\ answer \in {"none", "ok", "refused", "unknown"}
        /\ answer = "ok" => a.result = "ok"
        /\ answer = "refused" => a.result \in {"conflict", "failed"}
    BY Zenon, <2>1, <2>2 DEF Answered
  <2>4. Answered(a) = "none" BY Zenon, <2>1 DEF Answered
  <2>5. \A d \in Requests :
           Answered(attempts'[d]) = IF d = c THEN answer ELSE Answered(attempts[d])
    BY Zenon, <2>1
  <2> HIDE DEF answer
  <2>6. CASE answer = "none" BY Zenon, <2>1, <2>4, <2>5, <2>6 DEF Answers
  <2>7. CASE answer # "none"
    <3>1. HasCommitted(c) => a.result \in {"ok", "unknown"}
      BY Zenon, <1>1, <2>1 DEF OutcomesTrue, HasCommitted
    <3>2. Answers[c] = "none" BY Zenon, <2>4 DEF Answers
    <3>3. Answers' = [d \in Requests |-> IF d \in {c} THEN answer ELSE Answers[d]]
      BY Zenon, <2>5 DEF Answers
    <3>4. Store!Answer({c}, answer)
      BY Zenon, <3>1, <3>2, <3>3, <2>1, <2>3, SameStore DEF Store!Answer, Store!NoAnswer
    <3> QED BY Zenon, <3>4, <2>3, <2>7 DEF Store!Next
  <2> QED BY Zenon, <2>6, <2>7
<1> QED BY Zenon, <1>2, <1>3, <1>4 DEF Supervisor

(* A panicked operation did not commit: it is refused (run_attempt). *)
LEMMA PanicAnswers ==
    ASSUME StoreInvariant, NEW c \in Requests, Panic(c)
    PROVE  Store!Next
<1> DEFINE a == attempts[c]
<1>1. attempts \in [Requests -> Attempt] /\ a \in Attempt /\ OutcomesTrue
  BY Zenon, CallFacts DEF StoreInvariant
<1>2. /\ log' = log /\ \A d \in Requests : d # c => attempts'[d] = attempts[d]
      /\ attempts'[c].phase = "answered" /\ attempts'[c].result = "failed" /\ a.phase = "open"
  BY Zenon, <1>1 DEF Panic, Attempt
<1>3. Answered(a) = "none" /\ Answered(attempts'[c]) = "refused" BY Zenon, <1>2 DEF Answered
<1>4. \A d \in Requests :
         Answered(attempts'[d]) = IF d = c THEN "refused" ELSE Answered(attempts[d])
  BY Zenon, <1>2, <1>3
<1>5. Answers[c] = "none" BY Zenon, <1>3 DEF Answers
<1>6. Answers' = [d \in Requests |-> IF d \in {c} THEN "refused" ELSE Answers[d]]
  BY Zenon, <1>4 DEF Answers
<1>7. ~ HasCommitted(c) BY Zenon, <1>1, <1>2 DEF OutcomesTrue, HasCommitted
<1>8. Store!Answer({c}, "refused")
  BY Zenon, <1>2, <1>5, <1>6, <1>7, SameStore DEF Store!Answer, Store!NoAnswer
<1> QED BY ZenonT(60), <1>8 DEF Store!Next

(* A native commit is the commit of its request (settle). *)
LEMMA CommitCommits ==
    ASSUME StoreInvariant, NEW c \in Requests, CommitNative(c)
    PROVE  Store!Next
<1> DEFINE a == attempts[c]
           writes == Overlay(a.batch, Head(a.channel).writes)
           db == ContentsAfter(log, Len(log))
           e == [request |-> c, reads |-> a.seen, writes |-> writes, db |-> Overlay(db, writes)]
<1>1. attempts \in [Requests -> Attempt] /\ a \in Attempt /\ log \in Seq(Entry)
  BY Zenon, CallFacts DEF StoreInvariant, TypeOK
<1>2. /\ a.phase = "finishing" /\ ~ HasCommitted(c) /\ e \in Entry /\ log' = Append(log, e)
      /\ \A k \in DOMAIN a.seen : a.seen[k] = db[k]
  BY Zenon, CommitFacts
<1>3. /\ e.request = c /\ e.reads = a.seen /\ e.writes = writes
      /\ e.db = Overlay(db, writes)
  BY Zenon
<1> HIDE DEF e
<1>4. Len(log') = Len(log) + 1 /\ log'[Len(log')] = e BY <1>1, <1>2
<1>5. PICK result : Settle(c, result, a.staged) BY Zenon DEF CommitNative
<1>6. UNCHANGED Answers
  <2> DEFINE b == Ended(a, "settled", result, a.staged)
  <2>1. attempts' = [attempts EXCEPT ![c] = b] BY Zenon, <1>2, <1>5 DEF Settle
  <2>2. b.phase = "settled" BY Zenon DEF Ended, FreshAttempt
  <2> HIDE DEF b
  <2>3. attempts'[c] = b /\ \A d \in Requests : d # c => attempts'[d] = attempts[d]
    BY Zenon, <1>1, <2>1
  <2>4. \A d \in Requests : Answered(attempts'[d]) = Answered(attempts[d])
    BY Zenon, <1>2, <2>2, <2>3 DEF Answered
  <2> QED BY Zenon, <2>4 DEF Answers
<1>7. Answers[c] = "none" BY Zenon, <1>2 DEF Answers, Answered
<1> HIDE DEF db, writes
<1>8. Store!CommitRequest(c)
  BY SMTT(60), <1>2, <1>3, <1>4, <1>6, <1>7, SameStore
  DEF Store!CommitRequest, Store!NoAnswer, db
<1> QED BY Zenon, <1>8 DEF Store!Next

(* A barrier that returns answers its whole group, ok only for commits        *)
(* (synchronize_groups).                                                    *)
LEMMA DurabilityAnswers ==
    ASSUME StoreInvariant, Durability
    PROVE  Store!Next \/ UNCHANGED <<log, Answers>>
<1>1. CASE TakeFirst \/ InvokeBarrier BY Zenon, <1>1 DEF TakeFirst, InvokeBarrier, Answers
<1>2. CASE FinishBarrier
  <2> DEFINE group == durability.group
  <2>1. /\ log' = log
        /\ \E result \in {"ok", "unknown"} :
              attempts' = [c \in Requests |->
                 IF c \in group THEN Acknowledged(attempts[c], result) ELSE attempts[c]]
    BY Zenon, <1>2 DEF FinishBarrier
  <2>2. PICK result \in {"ok", "unknown"} :
           attempts' = [c \in Requests |->
              IF c \in group THEN Acknowledged(attempts[c], result) ELSE attempts[c]]
    BY Zenon, <2>1
  <2>3. /\ attempts \in [Requests -> Attempt] /\ group \subseteq Requests
        /\ \A c \in group : attempts[c].phase = "waiting" /\ HasCommitted(c)
    BY Zenon DEF StoreInvariant, TypeOK, WaitersCommitted
  <2>4. \A c \in group :
           Answered(attempts[c]) = "none" /\ Answered(Acknowledged(attempts[c], result)) = result
    <3> SUFFICES ASSUME NEW c \in group
                 PROVE  /\ Answered(attempts[c]) = "none"
                        /\ Answered(Acknowledged(attempts[c], result)) = result
      BY Zenon
    <3>1. attempts[c] \in Attempt /\ attempts[c].phase = "waiting" BY Zenon, <2>3
    <3>2. /\ Acknowledged(attempts[c], result).phase = "answered"
          /\ Acknowledged(attempts[c], result).result = result
      BY Zenon, <3>1 DEF Acknowledged, Attempt
    <3> QED BY Zenon, <3>1, <3>2 DEF Answered
  <2>5. \A c \in Requests :
           Answered(attempts'[c]) = IF c \in group THEN result ELSE Answered(attempts[c])
    BY Zenon, <2>2, <2>4
  <2>6. \A c \in group : Answers[c] = "none" BY Zenon, <2>3, <2>4 DEF Answers
  <2>7. Answers' = [c \in Requests |-> IF c \in group THEN result ELSE Answers[c]]
    BY Zenon, <2>5 DEF Answers
  <2>8. Store!Answer(group, result)
    BY Zenon, <2>1, <2>3, <2>6, <2>7, SameStore DEF Store!Answer, Store!NoAnswer
  <2> QED BY Zenon, <2>3, <2>8 DEF Store!Next
<1> QED BY ZenonT(60), <1>1, <1>2 DEF Durability

(* A crash loses only commits that nobody was told of. *)
LEMMA CrashLosesUnanswered ==
    ASSUME StoreInvariant, Crash
    PROVE  Store!Next
<1>1. /\ attempts \in [Requests -> Attempt] /\ log \in Seq(Entry) /\ Len(log) \in Nat
      /\ synced \in 0 .. Len(log) /\ OutcomesTrue /\ AcknowledgedDurable
  BY DEF StoreInvariant, TypeOK
<1>2. PICK n \in synced .. Len(log) : log' = SubSeq(log, 1, n) BY Zenon DEF Crash
<1>3. n \in 0 .. Len(log) /\ n >= synced BY <1>1, <1>2
<1>4. \A c \in Requests : Answered(attempts'[c]) = Answered(attempts[c])
  BY Zenon, <1>1, CrashedAttempts DEF Answered
<1>5. UNCHANGED Answers BY Zenon, <1>4 DEF Answers
<1>6. \A i \in n + 1 .. Len(log) : Answers[log[i].request] # "ok"
  <2> SUFFICES ASSUME NEW i \in n + 1 .. Len(log), Answers[log[i].request] = "ok" PROVE FALSE
    BY Zenon
  <2>1. i \in 1 .. Len(log) /\ i > synced BY <1>1, <1>3
  <2>2. log[i] \in Entry BY <2>1, <1>1
  <2>3. log[i].request \in Requests \ Readers BY Zenon, <2>1, <2>2, <1>1 DEF Entry, OutcomesTrue
  <2>4. attempts[log[i].request].phase = "answered" /\ attempts[log[i].request].result = "ok"
    BY Zenon, <2>3 DEF Answers, Answered
  <2>5. PICK j \in 1 .. synced : log[j].request = log[i].request
    BY Zenon, <2>3, <2>4, <1>1 DEF AcknowledgedDurable
  <2>6. j \in 1 .. Len(log) /\ j # i BY <2>1, <2>5, <1>1
  <2> QED BY Zenon, <2>1, <2>5, <2>6, <1>1 DEF OutcomesTrue
<1>7. Store!Crash BY Zenon, <1>2, <1>3, <1>5, <1>6 DEF Store!Crash
<1> QED BY ZenonT(60), <1>7 DEF Store!Next

(* Every step of RocksDB's attempts is one of the native store, or hidden. *)
LEMMA StepImplements ==
    ASSUME StoreInvariant, [Next]_vars
    PROVE  [Store!Next]_<<log, Answers>>
<1>1. CASE UNCHANGED vars BY Zenon, <1>1 DEF vars, Answers
<1>2. ASSUME NEW c \in Requests, Operation(c) PROVE Store!Next \/ UNCHANGED <<log, Answers>>
  BY Zenon, <1>2, OperationQuiet, PanicAnswers
<1>3. ASSUME NEW c \in Requests, Native(c) PROVE Store!Next \/ UNCHANGED <<log, Answers>>
  BY Zenon, <1>3, NativeQuiet, CommitCommits
<1>4. ASSUME NEW c \in Requests, Supervisor(c) PROVE Store!Next \/ UNCHANGED <<log, Answers>>
  BY Zenon, <1>4, SupervisorAnswers
<1>5. CASE Durability BY Zenon, <1>5, DurabilityAnswers
<1>6. CASE Crash BY Zenon, <1>6, CrashLosesUnanswered
<1> QED BY Zenon, <1>1, <1>2, <1>3, <1>4, <1>5, <1>6 DEF Next

(* RocksDB's attempts, with their buffers, channels, one writer, retries,     *)
(* durability groups and crashes, implement the native store the services    *)
(* are written against (run_attempt, with_attempt).                         *)
THEOREM RocksDbImplementsStore == Spec => ImplementsStore
<1>1. Init => Store!Init
  <2> SUFFICES ASSUME Init PROVE Store!Init BY Zenon
  <2>1. \A c \in Requests : Answered(attempts[c]) = "none"
    BY Zenon DEF Init, FreshAttempt, Answered
  <2> QED BY Zenon, <2>1 DEF Init, Answers, Store!Init, Store!NoAnswer
<1>2. StoreInvariant /\ [Next]_vars => [Store!Next]_<<log, Answers>> BY Zenon, StepImplements
<1> QED BY <1>1, <1>2, StoreInvariantHolds, PTL DEF Spec, ImplementsStore, Store!Spec
=============================================================================
