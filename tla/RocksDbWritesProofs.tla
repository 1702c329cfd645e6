------------------------ MODULE RocksDbWritesProofs ------------------------
(***************************************************************************)
(* The writes of an operation on RocksDB, from its buffer through the       *)
(* command channel to the native transaction and the log, for any number of *)
(* keys and concurrent calls: WritesInvariant is inductive beside           *)
(* StoreInvariant, and no commit lacks a write, no read an earlier one.     *)
(***************************************************************************)
EXTENDS RocksDbProofs

-----------------------------------------------------------------------------
(* Writes laid over writes                                                 *)

(* Writes laid over writes: the empty ones change nothing, and the order of    *)
(* laying is all that counts (apply_changes).                               *)
LEMMA OverlayLaws ==
    /\ \A u \in Partial : Overlay(u, NoWrites) = u
    /\ \A u, v, w \in Partial : Overlay(Overlay(u, v), w) = Overlay(u, Overlay(v, w))
<1>1. ASSUME NEW u \in Partial PROVE Overlay(u, NoWrites) = u
  <2>1. PICK ku \in SUBSET Keys : u \in [ku -> Stored]
    BY Zenon DEF Partial
  <2>2. DOMAIN u = ku /\ u = [k \in ku |-> u[k]] /\ DOMAIN NoWrites = {}
    BY Zenon, <2>1, OverlayTypes
  <2> QED
    BY Zenon, <2>2 DEF Overlay
<1>2. ASSUME NEW u \in Partial, NEW v \in Partial, NEW w \in Partial
      PROVE  Overlay(Overlay(u, v), w) = Overlay(u, Overlay(v, w))
  <2> DEFINE all == DOMAIN u \cup DOMAIN v \cup DOMAIN w
             left == Overlay(Overlay(u, v), w)
             right == Overlay(u, Overlay(v, w))
  <2>1. /\ DOMAIN Overlay(u, v) = DOMAIN u \cup DOMAIN v
        /\ DOMAIN Overlay(v, w) = DOMAIN v \cup DOMAIN w
    BY Zenon, OverlayTypes
  <2>2. left = [k \in all |-> IF k \in DOMAIN w THEN w[k]
                              ELSE IF k \in DOMAIN v THEN v[k] ELSE u[k]]
    BY Zenon, <2>1 DEF Overlay
  <2>3. right = [k \in all |-> IF k \in DOMAIN w THEN w[k]
                               ELSE IF k \in DOMAIN v THEN v[k] ELSE u[k]]
    BY Zenon, <2>1 DEF Overlay
  <2> HIDE DEF left, right
  <2>4. left = right
    BY Zenon, <2>2, <2>3
  <2> QED
    BY Zenon, <2>4 DEF left, right
<1> QED
  BY Zenon, <1>1, <1>2

-----------------------------------------------------------------------------
(* Writes and reads of one attempt                                         *)

(* What ReadsOwnWrites says of one attempt, and all that WritesInvariant does. *)
OwnReads(a) ==
    \A s \in Slots : a.slots[s].state = "read" /\ a.slots[s].key \in DOMAIN a.staged
                     => a.slots[s].value = a.staged[a.slots[s].key]

Whole(a) == WritesTracked(a) /\ OwnReads(a)

(* A call that is not open is in no state of a call. *)
LEMMA IdleState ==
    /\ IdleSlot.state = "idle"
    /\ \A a : SlotsIdle(a) => \A s \in Slots : a.slots[s].state = "idle"
<1>1. IdleSlot.state = "idle"
  BY Zenon DEF IdleSlot
<1> QED
  BY Zenon, <1>1 DEF SlotsIdle

(* An operation with no call open has no command on its way. *)
LEMMA ChannelDrained ==
    ASSUME NEW a \in Attempt, CallsServed(a), SlotsIdle(a)
    PROVE  a.channel = <<>> /\ InFlight(a) = NoWrites /\ a.staged = Overlay(a.batch, a.pending)
<1>1. a.channel \in Seq(Command) /\ a.batch \in Partial
  BY Zenon, AttemptTypes
<1>2. a.channel = <<>>
  <2> SUFFICES ASSUME a.channel # <<>> PROVE FALSE
    BY Zenon
  <2> DEFINE x == a.channel[1]
  <2>1. 1 \in 1 .. Len(a.channel) /\ x \in Command
    BY Zenon, <1>1, ReceiveCommand
  <2>2. x.kind \in {"apply", "get"} /\ Awaited(a, x)
    BY Zenon, <2>1 DEF CallsServed
  <2>3. x.slot \in Slots
    BY Zenon, <2>1, <2>2, CommandFields
  <2>4. a.slots[x.slot].state = "idle"
    BY Zenon, <2>3, IdleState
  <2> QED
    BY Zenon, <2>2, <2>4 DEF Awaited
<1>3. InFlight(a) = NoWrites
  BY Zenon, <1>2 DEF InFlight
<1>4. a.staged = Overlay(Overlay(a.batch, NoWrites), a.pending)
  BY Zenon, <1>3 DEF CallsServed
<1> QED
  BY Zenon, <1>1, <1>2, <1>3, <1>4, OverlayLaws

(* The calls of a running operation that are not waiting have no command.     *)
LEMMA CommandsAwaited ==
    ASSUME NEW a \in Attempt, CallsServed(a), NEW i \in 1 .. Len(a.channel)
    PROVE  /\ a.channel[i] \in Command /\ a.channel[i].slot \in Slots
           /\ a.slots[a.channel[i].slot].state \in {"flushing", "reading"}
<1>1. a.channel[i] \in Command
  BY AttemptTypes
<1>2. a.channel[i].kind \in {"apply", "get"} /\ Awaited(a, a.channel[i])
  BY Zenon DEF CallsServed
<1>3. a.channel[i].slot \in Slots
  BY Zenon, <1>1, <1>2, CommandFields
<1> QED
  BY Zenon, <1>1, <1>2, <1>3 DEF Awaited

(* While a call is open the buffer is empty (native_stage excludes calls). *)
LEMMA BufferEmpty ==
    ASSUME NEW a, CallsServed(a), NEW s \in Slots, a.slots[s].state # "idle"
    PROVE  a.pending = NoWrites
BY Zenon, IdleState DEF CallsServed

(* A rejected attempt has no more to keep than the reads it had. *)
LEMMA RejectedWhole ==
    ASSUME NEW a, NEW b, OwnReads(a), b.settlement # "open", b.staged = a.staged,
           \A s \in Slots : b.slots[s] = a.slots[s] \/ b.slots[s].state # "read",
           b.phase # "open" => SlotsIdle(b)
    PROVE  Whole(b)
<1>1. OwnReads(b)
  BY Zenon DEF OwnReads
<1> QED
  BY Zenon, <1>1 DEF Whole, WritesTracked

(* Nor has one that has ended. *)
LEMMA EndedWhole ==
    ASSUME NEW b, b.phase \notin {"open", "finishing"}, SlotsIdle(b)
    PROVE  Whole(b)
<1>1. OwnReads(b)
  BY Zenon, IdleState DEF OwnReads
<1> QED
  BY Zenon, <1>1 DEF Whole, WritesTracked

(* A write joins the buffer (native_stage). *)
LEMMA StagedWhole ==
    ASSUME NEW a \in Attempt, Whole(a), a.phase = "open", a.settlement = "open", SlotsIdle(a),
           NEW write \in Partial, NEW b,
           b.phase = "open", b.slots = a.slots, b.channel = a.channel, b.batch = a.batch,
           b.pending = Overlay(a.pending, write), b.staged = Overlay(a.staged, write)
    PROVE  Whole(b)
<1>1. CallsServed(a)
  BY Zenon DEF Whole, WritesTracked
<1>2. a.channel = <<>> /\ InFlight(a) = NoWrites /\ a.staged = Overlay(a.batch, a.pending)
  BY Zenon, <1>1, ChannelDrained
<1>3. a.batch \in Partial /\ a.pending \in Partial
  BY Zenon, AttemptTypes
<1>4. InFlight(b) = NoWrites
  BY Zenon, <1>2 DEF InFlight
<1>5. Overlay(b.batch, NoWrites) = a.batch
  BY Zenon, <1>3, OverlayLaws
<1>6. b.staged = Overlay(a.batch, b.pending)
  <2>1. Overlay(Overlay(a.batch, a.pending), write) = Overlay(a.batch, Overlay(a.pending, write))
    BY Zenon, <1>3, OverlayLaws
  <2> QED
    BY Zenon, <1>2, <2>1
<1>7. SlotsIdle(b)
  BY Zenon DEF SlotsIdle
<1>8. 1 .. Len(b.channel) = {}
  BY <1>2
<1>9. CallsServed(b)
  BY Zenon, <1>4, <1>5, <1>6, <1>7, <1>8 DEF CallsServed
<1>10. OwnReads(b)
  <2>1. \A s \in Slots : b.slots[s].state = "idle"
    BY Zenon, <1>7, IdleState
  <2> QED
    BY Zenon, <2>1 DEF OwnReads
<1> QED
  BY Zenon, <1>9, <1>10 DEF Whole, WritesTracked

(* What a command sent is behind. *)
LEMMA Appended ==
    ASSUME NEW channel \in Seq(Command), NEW x \in Command
    PROVE  /\ Len(channel) \in Nat
           /\ \A i \in 1 .. Len(Append(channel, x)) : i \in 1 .. Len(channel) \/ i = Len(channel) + 1
           /\ \A i \in 1 .. Len(channel) : Append(channel, x)[i] = channel[i]
           /\ Append(channel, x)[Len(channel) + 1] = x
           /\ channel # <<>> => Append(channel, x)[1] = channel[1]
           /\ channel = <<>> => Append(channel, x)[1] = x /\ Len(Append(channel, x)) = 1
           /\ Append(channel, x) # <<>>
OBVIOUS

(* A read is sent for a call that had no command (native_get_batch). *)
LEMMA ReadSentWhole ==
    ASSUME NEW a \in Attempt, Whole(a), a.phase = "open", NEW s \in Slots, NEW k \in Keys,
           a.slots[s].state \in {"idle", "flushed"},
           a.settlement = "open" => a.pending = NoWrites, NEW b,
           b.phase = "open", b.settlement = a.settlement, b.pending = a.pending,
           b.batch = a.batch, b.staged = a.staged,
           \A t \in Slots \ {s} : b.slots[t] = a.slots[t],
           b.slots[s].state = "reading",
           b.channel = Append(a.channel, [kind |-> "get", slot |-> s, key |-> k])
    PROVE  Whole(b)
<1> DEFINE x == [kind |-> "get", slot |-> s, key |-> k]
<1>1. OwnReads(b)
  <2>1. OwnReads(a) /\ \A t \in Slots : t = s \/ b.slots[t] = a.slots[t]
    BY Zenon DEF Whole
  <2>2. b.slots[s].state # "read"
    BY Zenon
  <2> QED
    BY Zenon, <2>1, <2>2 DEF OwnReads
<1>2. ASSUME a.settlement = "open" PROVE CallsServed(b)
  <2>1. CallsServed(a) /\ a.pending = NoWrites
    BY Zenon, <1>2 DEF Whole, WritesTracked
  <2>2. x \in Command /\ x.kind = "get" /\ x.slot = s
    BY Zenon DEF Command
  <2>3. a.channel \in Seq(Command)
    BY Zenon, AttemptTypes
  <2> HIDE DEF x
  <2>4. b.channel = Append(a.channel, x)
    BY Zenon DEF x
  <2> DEFINE n == Len(a.channel)
  <2>5. /\ \A i \in 1 .. Len(b.channel) : \/ i \in 1 .. n /\ b.channel[i] = a.channel[i]
                                          \/ i = n + 1 /\ b.channel[i] = x
        /\ b.channel # <<>>
        /\ a.channel # <<>> => b.channel[1] = a.channel[1]
        /\ a.channel = <<>> => b.channel[1] = x
    BY <2>2, <2>3, <2>4, Appended
  <2> HIDE DEF n
  <2>6. \A i \in 1 .. Len(a.channel) : a.channel[i].slot \in Slots \ {s}
    BY Zenon, <2>1, CommandsAwaited
  <2>7. ASSUME NEW i \in 1 .. Len(b.channel)
        PROVE  /\ b.channel[i].kind \in {"apply", "get"} /\ Awaited(b, b.channel[i])
               /\ b.channel[i].kind = "apply" => i = 1
    <3>1. CASE i \in 1 .. n /\ b.channel[i] = a.channel[i]
      <4>1. i \in 1 .. Len(a.channel)
        BY Zenon, <3>1 DEF n
      <4>2. b.slots[a.channel[i].slot] = a.slots[a.channel[i].slot]
        BY Zenon, <2>6, <4>1
      <4>3. /\ a.channel[i].kind \in {"apply", "get"} /\ Awaited(a, a.channel[i])
            /\ a.channel[i].kind = "apply" => i = 1
        BY Zenon, <2>1, <4>1 DEF CallsServed
      <4> QED
        BY ZenonT(60), <3>1, <4>2, <4>3 DEF Awaited
    <3>2. CASE b.channel[i] = x
      BY Zenon, <2>2, <3>2 DEF Awaited
    <3> QED
      BY Zenon, <2>7, <2>5, <3>1, <3>2
  <2>8. ASSUME NEW i \in 1 .. Len(b.channel), NEW j \in 1 .. Len(b.channel),
               b.channel[i].slot = b.channel[j].slot
        PROVE  i = j
    <3>1. CASE i = n + 1 /\ j = n + 1
      BY Zenon, <3>1
    <3>2. CASE i \in 1 .. n /\ b.channel[i] = a.channel[i] /\ j \in 1 .. n /\ b.channel[j] = a.channel[j]
      BY ZenonT(60), <2>1, <2>8, <3>2 DEF CallsServed, n
    <3>3. CASE i \in 1 .. n /\ b.channel[i] = a.channel[i] /\ b.channel[j] = x
      BY ZenonT(60), <2>2, <2>6, <2>8, <3>3 DEF n
    <3>4. CASE j \in 1 .. n /\ b.channel[j] = a.channel[j] /\ b.channel[i] = x
      BY ZenonT(60), <2>2, <2>6, <2>8, <3>4 DEF n
    <3> QED
      BY Zenon, <2>8, <2>5, <3>1, <3>2, <3>3, <3>4
  <2>9. InFlight(b) = InFlight(a)
    <3>1. x.kind # "apply"
      BY Zenon, <2>2
    <3> QED
      BY ZenonT(60), <3>1, <2>5 DEF InFlight
  <2> QED
    BY Zenon, <2>1, <2>7, <2>8, <2>9 DEF CallsServed
<1> QED
  BY Zenon, <1>1, <1>2 DEF Whole, WritesTracked

(* The buffered writes are sent for the first call (dispatch_pending). *)
LEMMA FlushedWhole ==
    ASSUME NEW a \in Attempt, Whole(a), a.phase = "open", a.settlement = "open", SlotsIdle(a),
           NEW s \in Slots, NEW b,
           b.phase = "open", b.pending = NoWrites, b.batch = a.batch, b.staged = a.staged,
           \A t \in Slots \ {s} : b.slots[t] = a.slots[t],
           b.slots[s].state = "flushing",
           b.channel = Append(a.channel, [kind |-> "apply", slot |-> s, writes |-> a.pending])
    PROVE  Whole(b)
<1> DEFINE x == [kind |-> "apply", slot |-> s, writes |-> a.pending]
<1>1. OwnReads(b)
  BY Zenon DEF Whole, OwnReads
<1>2. a.channel = <<>> /\ a.staged = Overlay(a.batch, a.pending)
  BY Zenon, ChannelDrained DEF Whole, WritesTracked
<1>3. a.batch \in Partial /\ a.pending \in Partial /\ a.channel \in Seq(Command)
  BY Zenon, AttemptTypes
<1>4. x \in Command /\ x.kind = "apply" /\ x.slot = s /\ x.writes = a.pending
  BY Zenon, <1>3 DEF Command
<1> HIDE DEF x
<1>5. b.channel = Append(a.channel, x)
  BY Zenon DEF x
<1>6. b.channel # <<>> /\ b.channel[1] = x /\ Len(b.channel) = 1
  BY <1>2, <1>3, <1>4, <1>5, Appended
<1>7. \A i \in 1 .. Len(b.channel) : i = 1
  BY <1>6
<1>8. InFlight(b) = a.pending
  BY Zenon, <1>4, <1>6 DEF InFlight
<1>9. b.staged = Overlay(Overlay(b.batch, InFlight(b)), b.pending)
  <2>1. Overlay(a.batch, a.pending) \in Partial
    BY Zenon, <1>3, OverlayTypes
  <2>2. Overlay(Overlay(a.batch, a.pending), NoWrites) = Overlay(a.batch, a.pending)
    BY Zenon, <2>1, OverlayLaws
  <2> QED
    BY Zenon, <1>2, <1>8, <2>2
<1>10. Awaited(b, x)
  BY Zenon, <1>4 DEF Awaited
<1>11. CallsServed(b)
  BY Zenon, <1>4, <1>6, <1>7, <1>9, <1>10 DEF CallsServed
<1> QED
  BY Zenon, <1>1, <1>11 DEF Whole, WritesTracked

(* A call with no command comes to its end (native_get_batch returns). *)
LEMMA TakenWhole ==
    ASSUME NEW a \in Attempt, Whole(a), a.phase = "open", NEW s \in Slots,
           a.slots[s].state = "read", NEW b,
           b.phase = "open", b.settlement = a.settlement, b.pending = a.pending,
           b.batch = a.batch, b.staged = a.staged, b.channel = a.channel,
           \A t \in Slots \ {s} : b.slots[t] = a.slots[t], b.slots[s] = IdleSlot
    PROVE  Whole(b)
<1>1. OwnReads(b)
  <2>1. OwnReads(a) /\ \A t \in Slots : t = s \/ b.slots[t] = a.slots[t]
    BY Zenon DEF Whole
  <2>2. b.slots[s].state # "read"
    BY Zenon, IdleState
  <2> QED
    BY ZenonT(60), <2>1, <2>2 DEF OwnReads
<1>2. ASSUME a.settlement = "open" PROVE CallsServed(b)
  <2>1. CallsServed(a)
    BY Zenon, <1>2 DEF Whole, WritesTracked
  <2>2. a.pending = NoWrites
    BY Zenon, <2>1, BufferEmpty
  <2>3. \A i \in 1 .. Len(a.channel) : a.channel[i].slot \in Slots \ {s}
    BY Zenon, <2>1, CommandsAwaited
  <2>4. ASSUME NEW i \in 1 .. Len(b.channel) PROVE Awaited(b, b.channel[i])
    <3>1. b.slots[a.channel[i].slot] = a.slots[a.channel[i].slot]
      BY Zenon, <2>3, <2>4
    <3>2. Awaited(a, a.channel[i])
      BY Zenon, <2>1, <2>4 DEF CallsServed
    <3> QED
      BY ZenonT(60), <3>1, <3>2 DEF Awaited
  <2>5. InFlight(b) = InFlight(a)
    BY Zenon DEF InFlight
  <2> QED
    BY ZenonT(60), <2>1, <2>2, <2>4, <2>5 DEF CallsServed
<1> QED
  BY ZenonT(60), <1>1, <1>2 DEF Whole, WritesTracked

(* Whoever waits for a command belongs to a running operation. *)
LEMMA AwaitedOpen ==
    ASSUME NEW a \in Attempt, Whole(a), a.settlement = "open", a.channel # <<>>,
           Head(a.channel).kind \in {"apply", "get"}, Awaited(a, Head(a.channel))
    PROVE  a.phase = "open" /\ CallsServed(a) /\ a.pending = NoWrites
<1>1. a.channel \in Seq(Command)
  BY ZenonT(60), AttemptTypes
<1>2. Head(a.channel) \in Command
  BY Zenon, <1>1, ReceiveCommand
<1>3. Head(a.channel).slot \in Slots
  BY Zenon, <1>2, CommandFields
<1>4. a.slots[Head(a.channel).slot].state # "idle"
  BY Zenon DEF Awaited
<1>5. a.phase = "open"
  BY Zenon, <1>3, <1>4, IdleState DEF Whole, WritesTracked
<1>6. CallsServed(a)
  BY Zenon, <1>5 DEF Whole, WritesTracked
<1> QED
  BY Zenon, <1>3, <1>4, <1>5, <1>6, BufferEmpty

(* Places in a channel. *)
LEMMA Positions ==
    ASSUME NEW channel \in Seq(Command)
    PROVE  /\ \A i \in 1 .. Len(channel) : i + 1 # 1
           /\ \A i, j \in 1 .. Len(channel) : i + 1 = j + 1 => i = j
           /\ channel # <<>> => 1 \in 1 .. Len(channel)
OBVIOUS

(* The first command is executed: its writes are in the transaction, its call *)
(* has an answer (execute_command).                                         *)
LEMMA ServedWhole ==
    ASSUME NEW a \in Attempt, Whole(a), a.settlement = "open", a.channel # <<>>, NEW x,
           x = Head(a.channel), x.kind \in {"apply", "get"}, Awaited(a, x), NEW b,
           b.phase = a.phase, b.pending = a.pending, b.staged = a.staged,
           b.channel = Tail(a.channel), b.batch = Overlay(a.batch, InFlight(a)),
           \A t \in Slots \ {x.slot} : b.slots[t] = a.slots[t],
           \/ b.slots[x.slot].state = "flushed"
           \/ /\ b.slots[x.slot].state = "read"
              /\ b.slots[x.slot].key \in DOMAIN a.staged
                 => b.slots[x.slot].value = a.staged[b.slots[x.slot].key]
    PROVE  Whole(b)
<1>1. a.phase = "open" /\ CallsServed(a) /\ a.pending = NoWrites
  BY Zenon, AwaitedOpen
<1>2. a.channel \in Seq(Command) /\ a.batch \in Partial
  BY Zenon, AttemptTypes
<1>3. /\ x = a.channel[1] /\ 1 \in 1 .. Len(a.channel) /\ x \in Command
      /\ \A i \in 1 .. Len(b.channel) :
            i + 1 \in 1 .. Len(a.channel) /\ i + 1 # 1 /\ b.channel[i] = a.channel[i + 1]
      /\ \A i, j \in 1 .. Len(b.channel) : i + 1 = j + 1 => i = j
      /\ b.channel # <<>> => 1 \in 1 .. Len(b.channel)
  <2>1. b.channel \in Seq(Command)
    BY Zenon, <1>2, ReceiveCommand
  <2>2. x = a.channel[1] /\ 1 \in 1 .. Len(a.channel) /\ x \in Command
    BY Zenon, <1>2, ReceiveCommand
  <2>3. \A i \in 1 .. Len(b.channel) :
           i + 1 \in 1 .. Len(a.channel) /\ b.channel[i] = a.channel[i + 1]
    <3>1. \A i \in 1 .. Len(Tail(a.channel)) :
             i + 1 \in 1 .. Len(a.channel) /\ Tail(a.channel)[i] = a.channel[i + 1]
      BY Zenon, <1>2, ReceiveCommand
    <3> QED
      BY Zenon, <3>1
  <2>4. /\ \A i \in 1 .. Len(b.channel) : i + 1 # 1
        /\ \A i, j \in 1 .. Len(b.channel) : i + 1 = j + 1 => i = j
        /\ b.channel # <<>> => 1 \in 1 .. Len(b.channel)
    BY Zenon, <2>1, Positions
  <2> QED
    BY Zenon, <2>2, <2>3, <2>4
<1>4. ASSUME NEW i \in 1 .. Len(b.channel)
      PROVE  b.channel[i].kind = "get" /\ Awaited(b, b.channel[i])
  <2> DEFINE y == a.channel[i + 1]
  <2>1. /\ y.kind \in {"apply", "get"} /\ Awaited(a, y) /\ y.kind # "apply"
        /\ y.slot # a.channel[1].slot
    BY Zenon, <1>1, <1>3, <1>4 DEF CallsServed
  <2>2. y.slot \in Slots
    BY Zenon, <1>1, <1>3, <1>4, CommandsAwaited
  <2>3. b.slots[y.slot] = a.slots[y.slot]
    BY ZenonT(60), <1>3, <2>1, <2>2
  <2>4. b.channel[i] = y
    BY Zenon, <1>3, <1>4
  <2> HIDE DEF y
  <2> QED
    BY ZenonT(60), <2>1, <2>3, <2>4 DEF Awaited
<1>5. ASSUME NEW i \in 1 .. Len(b.channel), NEW j \in 1 .. Len(b.channel),
             b.channel[i].slot = b.channel[j].slot
      PROVE  i = j
  <2>1. a.channel[i + 1].slot = a.channel[j + 1].slot
    BY Zenon, <1>3, <1>5
  <2>2. i + 1 = j + 1
    BY Zenon, <1>1, <1>3, <1>5, <2>1 DEF CallsServed
  <2> QED
    BY Zenon, <1>3, <1>5, <2>2
<1>6. InFlight(b) = NoWrites
  BY Zenon, <1>3, <1>4 DEF InFlight
<1>7. b.staged = Overlay(Overlay(b.batch, InFlight(b)), b.pending)
  <2>1. InFlight(a) \in Partial
    BY Zenon, <1>3, CommandFields, OverlayTypes DEF InFlight
  <2>2. b.batch \in Partial
    BY ZenonT(60), <1>2, <2>1, OverlayTypes
  <2>3. Overlay(b.batch, NoWrites) = b.batch
    BY Zenon, <2>2, OverlayLaws
  <2>4. a.staged = Overlay(b.batch, NoWrites)
    BY Zenon, <1>1 DEF CallsServed
  <2> QED
    BY Zenon, <1>1, <1>6, <2>3, <2>4
<1>8. CallsServed(b)
  BY Zenon, <1>1, <1>4, <1>5, <1>7 DEF CallsServed
<1>9. OwnReads(b)
  <2>1. OwnReads(a) /\ \A t \in Slots : t = x.slot \/ b.slots[t] = a.slots[t]
    BY Zenon DEF Whole
  <2>2. b.slots[x.slot].state = "read" /\ b.slots[x.slot].key \in DOMAIN b.staged
        => b.slots[x.slot].value = b.staged[b.slots[x.slot].key]
    BY Zenon
  <2> QED
    BY ZenonT(60), <2>1, <2>2 DEF OwnReads
<1> QED
  BY Zenon, <1>1, <1>8, <1>9 DEF Whole, WritesTracked

(* A running attempt with no buffered writes reads them from the transaction   *)
(* when its first command is a read (get_for_update under the batch).       *)
LEMMA ReadsBatch ==
    ASSUME NEW a \in Attempt, CallsServed(a), a.pending = NoWrites, a.channel # <<>>,
           Head(a.channel).kind = "get"
    PROVE  InFlight(a) = NoWrites /\ a.staged = a.batch /\ a.batch = Overlay(a.batch, NoWrites)
<1>1. a.channel \in Seq(Command) /\ a.batch \in Partial
  BY Zenon, AttemptTypes
<1>2. Head(a.channel) = a.channel[1]
  BY Zenon, <1>1, ReceiveCommand
<1>3. InFlight(a) = NoWrites
  BY Zenon, <1>2 DEF InFlight
<1>4. Overlay(a.batch, NoWrites) = a.batch
  BY Zenon, <1>1, OverlayLaws
<1>5. a.staged = Overlay(Overlay(a.batch, NoWrites), NoWrites)
  BY Zenon, <1>3 DEF CallsServed
<1> QED
  BY Zenon, <1>3, <1>4, <1>5

(* The operation returns: a commit that is asked for takes the buffer along    *)
(* (finish).                                                               *)
LEMMA ReturnedWhole ==
    ASSUME NEW a \in Attempt, Whole(a), a.phase = "open", SlotsIdle(a), NEW x \in Command, NEW b,
           b.phase = "finishing", b.settlement = a.settlement, b.slots = a.slots,
           b.batch = a.batch, b.staged = a.staged,
           b.channel = Append(a.channel, x), x.kind = "finish",
           x.commit => x.writes = a.pending
    PROVE  Whole(b)
<1>1. SlotsIdle(b)
  BY Zenon DEF SlotsIdle
<1>2. OwnReads(b)
  BY Zenon, <1>1, IdleState DEF OwnReads
<1>3. ASSUME a.settlement = "open" PROVE FinishWhole(b)
  <2>1. a.channel = <<>> /\ a.staged = Overlay(a.batch, a.pending)
    BY Zenon, <1>3, ChannelDrained DEF Whole, WritesTracked
  <2>2. a.channel \in Seq(Command)
    BY Zenon, AttemptTypes
  <2>3. b.channel[1] = x /\ Len(b.channel) = 1
    BY <2>1, <2>2, Appended
  <2>4. \A i \in 1 .. Len(b.channel) : b.channel[i] = x
    BY <2>3
  <2> QED
    BY ZenonT(60), <2>1, <2>4 DEF FinishWhole
<1> QED
  BY Zenon, <1>1, <1>2, <1>3 DEF Whole, WritesTracked

(* What the writes do not depend on. *)
LEMMA SameWhole ==
    ASSUME NEW a, Whole(a), NEW b,
           b.phase = a.phase, b.settlement = a.settlement, b.pending = a.pending,
           b.batch = a.batch, b.staged = a.staged, b.channel = a.channel, b.slots = a.slots
    PROVE  Whole(b)
<1>1. OwnReads(b)
  BY Zenon DEF Whole, OwnReads
<1>2. CallsServed(a) => CallsServed(b)
  <2>1. InFlight(b) = InFlight(a)
    BY Zenon DEF InFlight
  <2>2. \A x : Awaited(a, x) => Awaited(b, x)
    BY Zenon DEF Awaited
  <2>3. SlotsIdle(a) => SlotsIdle(b)
    BY Zenon DEF SlotsIdle
  <2> QED
    BY Zenon, <2>1, <2>2, <2>3 DEF CallsServed
<1>3. FinishWhole(a) => FinishWhole(b)
  BY ZenonT(60) DEF FinishWhole
<1> QED
  BY Zenon, <1>1, <1>2, <1>3 DEF Whole, WritesTracked, SlotsIdle

-----------------------------------------------------------------------------
(* The writes of all requests                                              *)

(* A commit in the log is one of a request. *)
LEMMA LoggedRequests ==
    ASSUME TypeOK, NEW i \in 1 .. Len(log)
    PROVE  log[i].request \in Requests
<1>1. log \in Seq(Entry)
  BY Zenon DEF TypeOK
<1>2. log[i] \in Entry
  BY <1>1
<1> QED
  BY Zenon, <1>2 DEF Entry

(* What StoreInvariant says of one attempt. *)
LEMMA OneAttempt ==
    ASSUME StoreInvariant, WritesInvariant, NEW c \in Requests
    PROVE  /\ TypeOK /\ attempts \in [Requests -> Attempt] /\ attempts[c] \in Attempt
           /\ Whole(attempts[c])
<1>1. TypeOK
  BY Zenon DEF StoreInvariant
<1>2. attempts \in [Requests -> Attempt]
  BY Zenon, <1>1 DEF TypeOK
<1>3. OwnReads(attempts[c])
  BY Zenon DEF WritesInvariant, ReadsOwnWrites, OwnReads
<1> QED
  BY Zenon, <1>1, <1>2, <1>3 DEF WritesInvariant, Whole

(* A request whose attempt still runs, or was refused, has not committed. *)
LEMMA Uncommitted ==
    ASSUME StoreInvariant, NEW c \in Requests,
           \/ attempts[c].phase \in {"idle", "open", "finishing"}
           \/ attempts[c].phase # "lost" /\ attempts[c].result \notin {"ok", "unknown"}
    PROVE  ~ HasCommitted(c)
<1>1. OutcomesTrue
  BY Zenon DEF StoreInvariant
<1> SUFFICES ASSUME NEW i \in 1 .. Len(log), log[i].request = c PROVE FALSE
  BY Zenon DEF HasCommitted
<1>2. \/ /\ attempts[c].phase \in {"settled", "waiting", "answered"}
         /\ attempts[c].result \in {"ok", "unknown"}
      \/ attempts[c].phase = "lost"
  BY Zenon, <1>1 DEF OutcomesTrue
<1> QED
  BY Zenon, <1>2

(* A step that adds no commit, and keeps what the committed attempts staged. *)
LEMMA StagedKept ==
    ASSUME TypeOK, WritesInvariant,
           \A i \in 1 .. Len(log') : i \in 1 .. Len(log) /\ log'[i] = log[i],
           \A c \in Requests : attempts'[c].staged = attempts[c].staged \/ ~ HasCommitted(c),
           \A c \in Requests : attempts'[c] = attempts[c] \/ Whole(attempts'[c])
    PROVE  WritesInvariant'
<1>1. WritesWhole /\ ReadsOwnWrites /\ \A c \in Requests : WritesTracked(attempts[c])
  BY Zenon DEF WritesInvariant
<1>2. ASSUME NEW i \in 1 .. Len(log') PROVE log'[i].writes = attempts'[log'[i].request].staged
  <2>1. i \in 1 .. Len(log) /\ log'[i] = log[i]
    BY ZenonT(60), <1>2
  <2> DEFINE c == log[i].request
  <2>2. c \in Requests
    BY Zenon, <2>1, LoggedRequests
  <2>3. HasCommitted(c)
    BY Zenon, <2>1 DEF HasCommitted
  <2>4. log[i].writes = attempts[c].staged
    BY Zenon, <1>1, <2>1 DEF WritesWhole
  <2> HIDE DEF c
  <2>5. attempts'[c].staged = attempts[c].staged
    BY Zenon, <2>2, <2>3
  <2>6. log'[i].request = c
    BY Zenon, <2>1 DEF c
  <2> QED
    BY Zenon, <2>1, <2>4, <2>5, <2>6
<1>3. WritesWhole'
  BY Zenon, <1>2 DEF WritesWhole
<1>4. ASSUME NEW c \in Requests PROVE OwnReads(attempts'[c]) /\ WritesTracked(attempts'[c])
  <2>1. OwnReads(attempts[c]) /\ WritesTracked(attempts[c])
    BY Zenon, <1>1 DEF ReadsOwnWrites, OwnReads
  <2> QED
    BY Zenon, <2>1 DEF Whole
<1>5. ReadsOwnWrites'
  BY Zenon, <1>4 DEF ReadsOwnWrites, OwnReads
<1>6. (\A c \in Requests : WritesTracked(attempts[c]))'
  BY Zenon, <1>4
<1> QED
  BY Zenon, <1>3, <1>5, <1>6 DEF WritesInvariant

(* A step of one attempt. *)
LEMMA AttemptKeeps ==
    ASSUME StoreInvariant, WritesInvariant, NEW c \in Requests, NEW b, Whole(b),
           log' = log, attempts' = [attempts EXCEPT ![c] = b],
           b.staged = attempts[c].staged \/ ~ HasCommitted(c)
    PROVE  WritesInvariant'
<1>1. TypeOK /\ attempts \in [Requests -> Attempt]
  BY ZenonT(60), OneAttempt
<1>2. attempts'[c] = b /\ \A d \in Requests : d # c => attempts'[d] = attempts[d]
  BY Zenon, <1>1
<1>3. \A i \in 1 .. Len(log') : i \in 1 .. Len(log) /\ log'[i] = log[i]
  BY Zenon
<1>4. \A d \in Requests : attempts'[d].staged = attempts[d].staged \/ ~ HasCommitted(d)
  BY Zenon, <1>2
<1>5. \A d \in Requests : attempts'[d] = attempts[d] \/ Whole(attempts'[d])
  BY Zenon, <1>2
<1> QED
  BY Zenon, <1>1, <1>3, <1>4, <1>5, StagedKept

-----------------------------------------------------------------------------
(* Steps of the operation                                                  *)

(* An attempt without commands has lost no write (run_attempt). *)
LEMMA FreshWhole ==
    ASSUME NEW phase, NEW tries, phase # "finishing"
    PROVE  Whole(FreshAttempt(phase, tries))
<1> DEFINE b == FreshAttempt(phase, tries)
<1>1. /\ b.phase = phase /\ b.settlement = "open" /\ b.channel = <<>>
      /\ b.slots = [s \in Slots |-> IdleSlot]
      /\ b.pending = NoWrites /\ b.staged = NoWrites /\ b.batch = NoWrites
  BY Zenon DEF FreshAttempt
<1> HIDE DEF b
<1>2. SlotsIdle(b)
  BY Zenon, <1>1 DEF SlotsIdle
<1>3. 1 .. Len(b.channel) = {}
  BY <1>1
<1>4. InFlight(b) = NoWrites
  BY Zenon, <1>1 DEF InFlight
<1>5. Overlay(NoWrites, NoWrites) = NoWrites
  BY Zenon, OverlayTypes, OverlayLaws
<1>6. CallsServed(b)
  BY Zenon, <1>1, <1>2, <1>3, <1>4, <1>5 DEF CallsServed
<1>7. OwnReads(b)
  BY ZenonT(60), <1>2, IdleState DEF OwnReads
<1>8. Whole(b)
  BY Zenon, <1>1, <1>2, <1>6, <1>7 DEF Whole, WritesTracked
<1> QED
  BY Zenon, <1>8 DEF b

(* An attempt begins (run_attempt). *)
LEMMA BeginAttemptKeeps ==
    ASSUME StoreInvariant, WritesInvariant, NEW c \in Requests, BeginAttempt(c)
    PROVE  WritesInvariant'
<1> DEFINE b == FreshAttempt("open", attempts[c].tries + 1)
<1>1. attempts[c].phase = "idle" /\ attempts' = [attempts EXCEPT ![c] = b] /\ log' = log
  BY Zenon DEF BeginAttempt
<1>2. ~ HasCommitted(c)
  BY Zenon, <1>1, Uncommitted
<1>3. Whole(b)
  BY Zenon, FreshWhole
<1> HIDE DEF b
<1> QED
  BY Zenon, <1>1, <1>2, <1>3, AttemptKeeps

(* A write joins the buffer, or a reader is rejected (native_stage). *)
LEMMA StageKeeps ==
    ASSUME StoreInvariant, WritesInvariant, NEW c \in Requests,
           NEW k \in Keys, NEW v \in Stored, Stage(c, k, v)
    PROVE  WritesInvariant'
<1> DEFINE a == attempts[c]
           write == [x \in {k} |-> v]
<1>1. a \in Attempt /\ Whole(a)
  BY Zenon, OneAttempt
<1>2. a.phase = "open" /\ a.settlement = "open" /\ SlotsIdle(a) /\ log' = log
  BY Zenon DEF Stage
<1>3. ~ HasCommitted(c)
  BY Zenon, <1>2, Uncommitted
<1>4. write \in Partial
  BY Zenon, OverlayTypes
<1> DEFINE n == a.work + 1
<1> HIDE DEF n
<1>5. CASE c \notin Readers
  <2> DEFINE b == [a EXCEPT !.work = n, !.pending = Overlay(@, write),
                            !.staged = Overlay(@, write)]
  <2>1. attempts' = [attempts EXCEPT ![c] = b]
    BY ZenonT(60), <1>5, OneAttempt DEF Stage, n
  <2> HIDE DEF write
  <2>2. /\ b.phase = a.phase /\ b.channel = a.channel /\ b.slots = a.slots /\ b.batch = a.batch
        /\ b.pending = Overlay(a.pending, write) /\ b.staged = Overlay(a.staged, write)
    BY SMTT(20), <1>1 DEF Attempt
  <2> HIDE DEF b
  <2>3. Whole(b)
    BY Zenon, <1>1, <1>2, <1>4, <2>2, StagedWhole
  <2> QED
    BY Zenon, <1>2, <1>3, <2>1, <2>3, AttemptKeeps
<1>6. CASE c \in Readers
  <2> DEFINE b == [a EXCEPT !.work = n, !.settlement = Rejected(a, "rejected")]
  <2>1. attempts' = [attempts EXCEPT ![c] = b]
    BY ZenonT(60), <1>6, OneAttempt DEF Stage, n
  <2>2. b.phase = a.phase /\ b.slots = a.slots /\ b.staged = a.staged /\ b.settlement # "open"
    <3>1. Rejected(a, "rejected") # "open"
      BY Zenon, <1>1, AttemptTypes
    <3> QED
      BY SMTT(20), <1>1, <3>1 DEF Attempt
  <2> HIDE DEF b
  <2>3. Whole(b)
    BY Zenon, <1>1, <1>2, <2>2, RejectedWhole DEF Whole
  <2> QED
    BY ZenonT(60), <1>2, <2>1, <2>2, <2>3, AttemptKeeps
<1> QED
  BY Zenon, <1>5, <1>6

(* What a call that sends a command leaves of its attempt (begin_call). *)
LEMMA SendFields ==
    ASSUME NEW a \in Attempt, NEW s \in Slots, NEW k, NEW state, NEW x, NEW pending, NEW n
    PROVE  LET b == [[Send(a, s, state, k, x) EXCEPT !.pending = pending] EXCEPT !.work = n]
               d == Send(a, s, state, k, x)
           IN
           /\ b.phase = a.phase /\ b.settlement = a.settlement /\ b.pending = pending
           /\ b.batch = a.batch /\ b.staged = a.staged
           /\ b.channel = Append(a.channel, x)
           /\ b.slots[s].state = state /\ \A t \in Slots \ {s} : b.slots[t] = a.slots[t]
           /\ d.work = a.work /\ d.pending = a.pending
           /\ d = [d EXCEPT !.pending = a.pending] /\ d = [d EXCEPT !.work = a.work]
<1> DEFINE slot == [state |-> state, key |-> k, value |-> NoValue]
           slots == [a.slots EXCEPT ![s] = slot]
           channel == Append(a.channel, x)
           d == [a EXCEPT !.slots = slots, !.channel = channel]
           b == [[d EXCEPT !.pending = pending] EXCEPT !.work = n]
<1>1. Send(a, s, state, k, x) = d
  BY ZenonT(60) DEF Send, Attempt
<1>2. slot.state = state
  BY Zenon
<1> HIDE DEF slot
<1>3. slots[s].state = state /\ \A t \in Slots \ {s} : slots[t] = a.slots[t]
  BY Zenon, <1>2, AttemptTypes
<1> HIDE DEF slots, channel
<1>4. /\ b.phase = a.phase /\ b.settlement = a.settlement /\ b.pending = pending
      /\ b.batch = a.batch /\ b.staged = a.staged
      /\ b.channel = channel /\ b.slots = slots
  BY SMTT(20) DEF Attempt
<1>5. /\ d.work = a.work /\ d.pending = a.pending
      /\ d = [d EXCEPT !.pending = a.pending] /\ d = [d EXCEPT !.work = a.work]
  BY Zenon DEF Attempt
<1> HIDE DEF d
<1>6. [[Send(a, s, state, k, x) EXCEPT !.pending = pending] EXCEPT !.work = n] = b
  BY Zenon, <1>1
<1> HIDE DEF b
<1> QED
  BY ZenonT(60), <1>1, <1>3, <1>4, <1>5, <1>6 DEF channel

(* A read begins, after the buffered writes are sent (native_get_batch). *)
LEMMA BeginGetKeeps ==
    ASSUME StoreInvariant, WritesInvariant, NEW c \in Requests,
           NEW s \in Slots, NEW k \in Keys, BeginGet(c, s, k)
    PROVE  WritesInvariant'
<1> DEFINE a == attempts[c]
<1>1. a \in Attempt /\ Whole(a)
  BY Zenon, OneAttempt
<1>2. a.phase = "open" /\ a.settlement = "open" /\ a.slots[s].state = "idle" /\ log' = log
  BY Zenon, IdleState DEF BeginGet
<1>3. CASE a.pending = NoWrites
  <2> DEFINE x == [kind |-> "get", slot |-> s, key |-> k]
             n == a.work + 1
             d == Send(a, s, "reading", k, x)
             b == [[d EXCEPT !.pending = a.pending] EXCEPT !.work = n]
  <2> HIDE DEF x, n
  <2>1. d.work = a.work /\ d = [d EXCEPT !.pending = a.pending]
    BY SMTT(60), <1>1, SendFields
  <2>2. attempts' = [attempts EXCEPT ![c] = [d EXCEPT !.work = @ + 1]]
    BY Zenon, <1>3 DEF BeginGet, FlushBeforeRead, SendGet, x
  <2> HIDE DEF d
  <2>3. attempts' = [attempts EXCEPT ![c] = b]
    BY Zenon, <2>1, <2>2 DEF n
  <2>4. /\ b.phase = a.phase /\ b.settlement = a.settlement /\ b.pending = a.pending
        /\ b.batch = a.batch /\ b.staged = a.staged /\ b.channel = Append(a.channel, x)
        /\ b.slots[s].state = "reading" /\ \A t \in Slots \ {s} : b.slots[t] = a.slots[t]
    BY SMTT(60), <1>1, SendFields DEF d
  <2> HIDE DEF b
  <2>5. Whole(b)
    BY ZenonT(60), <1>1, <1>2, <1>3, <2>4, ReadSentWhole DEF x
  <2> QED
    BY Zenon, <1>2, <2>3, <2>4, <2>5, AttemptKeeps
<1>4. CASE a.pending # NoWrites
  <2> DEFINE x == [kind |-> "apply", slot |-> s, writes |-> a.pending]
             n == a.work + 1
             d == Send(a, s, "flushing", k, x)
             b == [[d EXCEPT !.pending = NoWrites] EXCEPT !.work = n]
  <2> HIDE DEF x, n
  <2>1. d.work = a.work
    BY SMTT(60), <1>1, SendFields
  <2>2. attempts' = [attempts EXCEPT ![c] = [[d EXCEPT !.pending = NoWrites] EXCEPT !.work = @ + 1]]
    BY Zenon, <1>4 DEF BeginGet, FlushBeforeRead, x
  <2> HIDE DEF d
  <2>3. attempts' = [attempts EXCEPT ![c] = b]
    BY Zenon, <2>1, <2>2 DEF n
  <2>4. /\ b.phase = a.phase /\ b.settlement = a.settlement /\ b.pending = NoWrites
        /\ b.batch = a.batch /\ b.staged = a.staged /\ b.channel = Append(a.channel, x)
        /\ b.slots[s].state = "flushing" /\ \A t \in Slots \ {s} : b.slots[t] = a.slots[t]
    BY SMTT(60), <1>1, SendFields DEF d
  <2> HIDE DEF b
  <2>5. SlotsIdle(a)
    BY Zenon, <1>1, <1>2, <1>4 DEF Whole, WritesTracked, CallsServed
  <2>6. Whole(b)
    BY ZenonT(60), <1>1, <1>2, <2>4, <2>5, FlushedWhole DEF x
  <2> QED
    BY Zenon, <1>2, <2>3, <2>4, <2>6, AttemptKeeps
<1> QED
  BY Zenon, <1>3, <1>4

(* A call finds the work budget exhausted (charge_work). *)
LEMMA ExhaustBudgetKeeps ==
    ASSUME StoreInvariant, WritesInvariant, NEW c \in Requests, ExhaustBudget(c)
    PROVE  WritesInvariant'
<1> DEFINE a == attempts[c]
           b == [a EXCEPT !.settlement = Rejected(a, "capacity")]
<1>1. a \in Attempt /\ Whole(a)
  BY Zenon, OneAttempt
<1>2. a.phase = "open" /\ log' = log /\ attempts' = [attempts EXCEPT ![c] = b]
  BY Zenon, OneAttempt DEF ExhaustBudget
<1>3. Rejected(a, "capacity") # "open"
  BY Zenon, <1>1, AttemptTypes
<1>4. b.phase = a.phase /\ b.slots = a.slots /\ b.staged = a.staged /\ b.settlement # "open"
  BY Zenon, <1>1, <1>3 DEF Attempt
<1> HIDE DEF b
<1>5. Whole(b)
  BY Zenon, <1>1, <1>2, <1>4, RejectedWhole DEF Whole
<1> QED
  BY ZenonT(60), <1>2, <1>4, <1>5, AttemptKeeps

(* A call ends with an error or is dropped: the attempt is rejected with it   *)
(* (NativeAttemptCall).                                                    *)
LEMMA EndCallKeeps ==
    ASSUME StoreInvariant, WritesInvariant, NEW c \in Requests, NEW s \in Slots,
           NEW kind \in {"rejected", "capacity"}, attempts[c].phase = "open", log' = log,
           attempts' = [attempts EXCEPT ![c].slots[s] = IdleSlot,
                                        ![c].settlement = Rejected(attempts[c], kind)]
    PROVE  WritesInvariant'
<1> DEFINE a == attempts[c]
           slots == [a.slots EXCEPT ![s] = IdleSlot]
           b == [a EXCEPT !.slots = slots, !.settlement = Rejected(a, kind)]
<1>1. a \in Attempt /\ Whole(a)
  BY ZenonT(60), OneAttempt
<1>2. attempts' = [attempts EXCEPT ![c] = b]
  BY Zenon, OneAttempt
<1>3. \A t \in Slots : slots[t] = a.slots[t] \/ slots[t].state # "read"
  BY Zenon, <1>1, AttemptTypes, IdleState
<1>4. Rejected(a, kind) # "open"
  BY Zenon, <1>1, AttemptTypes
<1> HIDE DEF slots
<1>5. b.phase = a.phase /\ b.slots = slots /\ b.staged = a.staged /\ b.settlement # "open"
  BY Zenon, <1>1, <1>4 DEF Attempt
<1> HIDE DEF b
<1>6. Whole(b)
  BY Zenon, <1>1, <1>3, <1>5, RejectedWhole DEF Whole
<1> QED
  BY ZenonT(60), <1>2, <1>5, <1>6, AttemptKeeps

(* The call goes on after an answer (native_get_batch). *)
LEMMA ResumeCallKeeps ==
    ASSUME StoreInvariant, WritesInvariant, NEW c \in Requests, NEW s \in Slots, ResumeCall(c, s)
    PROVE  WritesInvariant'
<1> DEFINE a == attempts[c]
<1>1. a \in Attempt /\ Whole(a)
  BY ZenonT(60), OneAttempt
<1>2. a.phase = "open" /\ log' = log
  BY Zenon DEF ResumeCall
<1>3. CASE a.slots[s].state = "flushed" /\ attempts' = [attempts EXCEPT ![c] = SendGet(a, s, a.slots[s].key)]
  <2> DEFINE k == a.slots[s].key
             x == [kind |-> "get", slot |-> s, key |-> k]
             d == Send(a, s, "reading", k, x)
             b == [[d EXCEPT !.pending = a.pending] EXCEPT !.work = a.work]
  <2>1. k \in Keys
    <3>1. a.slots[s] \in Slot
      BY Zenon, <1>1, AttemptTypes
    <3>2. a.slots[s].state # "idle"
      BY Zenon, <1>3
    <3> QED
      BY ZenonT(60), <3>1, <3>2, SlotFields
  <2>2. attempts' = [attempts EXCEPT ![c] = d]
    BY Zenon, <1>3 DEF SendGet
  <2> HIDE DEF x, k
  <2>3. d = b
    <3>1. d = [d EXCEPT !.pending = a.pending] /\ d = [d EXCEPT !.work = a.work]
      BY <1>1, SendFields
    <3> HIDE DEF d
    <3> QED
      BY Zenon, <3>1
  <2>4. /\ b.phase = a.phase /\ b.settlement = a.settlement /\ b.pending = a.pending
        /\ b.batch = a.batch /\ b.staged = a.staged /\ b.channel = Append(a.channel, x)
        /\ b.slots[s].state = "reading" /\ \A t \in Slots \ {s} : b.slots[t] = a.slots[t]
    BY SMTT(60), <1>1, SendFields
  <2> HIDE DEF d
  <2>5. attempts' = [attempts EXCEPT ![c] = b]
    BY Zenon, <2>2, <2>3
  <2> HIDE DEF b
  <2>6. a.settlement = "open" => a.pending = NoWrites
    <3>1. a.slots[s].state # "idle"
      BY Zenon, <1>3
    <3> QED
      BY Zenon, <1>1, <1>2, <3>1, BufferEmpty DEF Whole, WritesTracked
  <2>7. Whole(b)
    BY ZenonT(60), <1>1, <1>2, <1>3, <2>1, <2>4, <2>6, ReadSentWhole DEF x
  <2> QED
    BY Zenon, <1>2, <2>4, <2>5, <2>7, AttemptKeeps
<1>4. ASSUME NEW seen,
             a.slots[s].state = "read",
             attempts' = [attempts EXCEPT ![c].slots[s] = IdleSlot, ![c].seen = seen]
      PROVE  WritesInvariant'
  <2> DEFINE slots == [a.slots EXCEPT ![s] = IdleSlot]
             b == [a EXCEPT !.slots = slots, !.seen = seen]
  <2>1. attempts' = [attempts EXCEPT ![c] = b]
    BY ZenonT(60), <1>4, OneAttempt
  <2>2. slots[s] = IdleSlot /\ \A t \in Slots \ {s} : slots[t] = a.slots[t]
    BY Zenon, <1>1, AttemptTypes
  <2> HIDE DEF slots
  <2>3. /\ b.phase = a.phase /\ b.settlement = a.settlement /\ b.pending = a.pending
        /\ b.batch = a.batch /\ b.staged = a.staged /\ b.channel = a.channel
        /\ b.slots = slots
    BY Zenon, <1>1 DEF Attempt
  <2> HIDE DEF b
  <2>4. Whole(b)
    BY ZenonT(60), <1>1, <1>2, <1>4, <2>2, <2>3, TakenWhole
  <2> QED
    BY ZenonT(60), <1>2, <2>1, <2>3, <2>4, AttemptKeeps
<1>5. ASSUME NEW kind \in {"rejected", "capacity"},
             attempts' = [attempts EXCEPT ![c].slots[s] = IdleSlot,
                                          ![c].settlement = Rejected(a, kind)]
      PROVE  WritesInvariant'
  BY ZenonT(60), <1>2, <1>5, EndCallKeeps
<1> QED
  BY ZenonT(60), <1>3, <1>4, <1>5, OneAttempt DEF ResumeCall

(* The operation drops a call (Drop for NativeAttemptCall). *)
LEMMA DropCallKeeps ==
    ASSUME StoreInvariant, WritesInvariant, NEW c \in Requests, NEW s \in Slots, DropCall(c, s)
    PROVE  WritesInvariant'
BY Zenon, EndCallKeeps DEF DropCall

(* The operation returns (finish). *)
LEMMA ReturnKeeps ==
    ASSUME StoreInvariant, WritesInvariant, NEW c \in Requests, NEW result, Return(c, result)
    PROVE  WritesInvariant'
<1> DEFINE a == attempts[c]
           commit == result = "ok" /\ a.settlement = "open"
           told == IF commit THEN "ok"
                   ELSE IF result = "ok" \/ a.settlement = "capacity" THEN SettlementError(a)
                   ELSE result
           last == IF commit THEN a.pending ELSE NoWrites
           x == [kind |-> "finish", commit |-> commit, writes |-> last]
           channel == Append(a.channel, x)
           b == [a EXCEPT !.phase = "finishing", !.result = told, !.pending = NoWrites,
                          !.channel = channel]
<1>1. a \in Attempt /\ Whole(a)
  BY ZenonT(60), OneAttempt
<1>2. a.phase = "open" /\ SlotsIdle(a) /\ log' = log
  BY Zenon DEF Return
<1>3. attempts' = [attempts EXCEPT ![c] = b]
  BY Zenon, OneAttempt DEF Return
<1>4. last \in Partial /\ commit \in BOOLEAN /\ (commit => last = a.pending)
  BY Zenon, <1>1, AttemptTypes, OverlayTypes
<1> HIDE DEF commit, told, last
<1>5. x \in Command
  BY ZenonT(60), <1>4 DEF Command
<1>6. x.kind = "finish" /\ (x.commit => x.writes = a.pending)
  BY Zenon, <1>4
<1> HIDE DEF x, channel
<1>7. /\ b.phase = "finishing" /\ b.settlement = a.settlement /\ b.slots = a.slots
      /\ b.batch = a.batch /\ b.staged = a.staged /\ b.channel = channel
  BY SMTT(20), <1>1 DEF Attempt
<1> HIDE DEF b
<1>8. Whole(b)
  BY Zenon, <1>1, <1>2, <1>5, <1>6, <1>7, ReturnedWhole DEF channel
<1> QED
  BY Zenon, <1>2, <1>3, <1>7, <1>8, AttemptKeeps

(* The operation panics (with_attempt). *)
LEMMA PanicKeeps ==
    ASSUME StoreInvariant, WritesInvariant, NEW c \in Requests, Panic(c)
    PROVE  WritesInvariant'
<1> DEFINE a == attempts[c]
           slots == [s \in Slots |-> IdleSlot]
           channel == Append(a.channel, [kind |-> "closed"])
           b == [a EXCEPT !.phase = "answered", !.result = "failed", !.slots = slots,
                          !.channel = channel]
<1>1. a \in Attempt /\ Whole(a)
  BY Zenon, OneAttempt
<1>2. log' = log /\ attempts' = [attempts EXCEPT ![c] = b]
  BY Zenon, OneAttempt DEF Panic
<1>3. \A s \in Slots : slots[s] = IdleSlot
  BY Zenon
<1> HIDE DEF slots, channel
<1>4. b.phase = "answered" /\ b.slots = slots /\ b.staged = a.staged
  BY Zenon, <1>1 DEF Attempt
<1> HIDE DEF b
<1>5. SlotsIdle(b)
  BY Zenon, <1>3, <1>4 DEF SlotsIdle
<1>6. b.phase \notin {"open", "finishing"}
  BY Zenon, <1>4
<1>7. Whole(b)
  BY Zenon, <1>5, <1>6, EndedWhole
<1> QED
  BY ZenonT(60), <1>2, <1>4, <1>7, AttemptKeeps

-----------------------------------------------------------------------------
(* Steps of the native side                                                *)

(* The native transaction begins (start_transaction). *)
LEMMA StartNativeKeeps ==
    ASSUME StoreInvariant, WritesInvariant, NEW c \in Requests, StartNative(c)
    PROVE  WritesInvariant'
<1> DEFINE a == attempts[c]
           b == [a EXCEPT !.snapshot = Len(log)]
<1>1. a \in Attempt /\ Whole(a)
  BY Zenon, OneAttempt
<1>2. log' = log /\ attempts' = [attempts EXCEPT ![c] = b]
  BY Zenon, OneAttempt DEF StartNative
<1>3. /\ b.phase = a.phase /\ b.settlement = a.settlement /\ b.pending = a.pending
      /\ b.batch = a.batch /\ b.staged = a.staged /\ b.channel = a.channel /\ b.slots = a.slots
  BY Zenon, <1>1 DEF Attempt
<1> HIDE DEF b
<1>4. Whole(b)
  BY Zenon, <1>1, <1>3, SameWhole
<1> QED
  BY ZenonT(60), <1>2, <1>3, <1>4, AttemptKeeps

(* A command fails, and the attempt is rejected with it (execute_command). *)
LEMMA CommandFailsKeeps ==
    ASSUME StoreInvariant, WritesInvariant, NEW c \in Requests, CommandFails(c)
    PROVE  WritesInvariant'
<1> DEFINE a == attempts[c]
           x == Head(a.channel)
<1>1. a \in Attempt /\ Whole(a)
  BY ZenonT(60), OneAttempt
<1>2. a.channel # <<>> /\ x.kind \in {"apply", "get"} /\ log' = log
  BY Zenon DEF CommandFails, Receives
<1>3. x \in Command
  BY Zenon, <1>1, <1>2, AttemptTypes, ReceiveCommand
<1>4. x.slot \in Slots
  BY ZenonT(60), <1>2, <1>3, CommandFields
<1> HIDE DEF x
<1>5. PICK kind \in {"rejected", "capacity"} :
         attempts' = [attempts EXCEPT
             ![c].channel = Tail(@),
             ![c].settlement = Rejected(a, kind),
             ![c].slots[x.slot] = IF Awaited(a, x) THEN [@ EXCEPT !.state = "error"] ELSE @]
  BY Zenon DEF CommandFails, x
<1> DEFINE slot == IF Awaited(a, x) THEN [a.slots[x.slot] EXCEPT !.state = "error"]
                   ELSE a.slots[x.slot]
           slots == [a.slots EXCEPT ![x.slot] = slot]
           channel == Tail(a.channel)
           settlement == Rejected(a, kind)
           b == [a EXCEPT !.channel = channel, !.settlement = settlement, !.slots = slots]
<1>6. attempts' = [attempts EXCEPT ![c] = b]
  BY ZenonT(60), <1>5, OneAttempt
<1>7. settlement # "open"
  BY Zenon, <1>1, AttemptTypes
<1>8. a.slots[x.slot] \in Slot /\ a.slots \in [Slots -> Slot]
  BY Zenon, <1>1, <1>4, AttemptTypes
<1>9. /\ Awaited(a, x) => slot.state = "error"
      /\ ~ Awaited(a, x) => slot = a.slots[x.slot]
  BY Zenon, <1>8 DEF Slot, IdleSlot
<1> HIDE DEF slot
<1>10. \A t \in Slots : slots[t] = a.slots[t] \/ slots[t].state # "read"
  BY Zenon, <1>8, <1>9
<1>11. a.phase # "open" => \A t \in Slots : slots[t] = IdleSlot
  <2> SUFFICES ASSUME a.phase # "open", NEW t \in Slots PROVE slots[t] = IdleSlot
    BY Zenon
  <2>1. SlotsIdle(a)
    BY Zenon, <1>1 DEF Whole, WritesTracked
  <2>2. a.slots[x.slot].state = "idle"
    BY Zenon, <1>4, <2>1, IdleState
  <2>3. ~ Awaited(a, x)
    BY Zenon, <2>2 DEF Awaited
  <2>4. slots[t] = a.slots[t]
    BY Zenon, <1>8, <1>9, <2>3
  <2> QED
    BY Zenon, <2>1, <2>4 DEF SlotsIdle
<1> HIDE DEF slots, channel, settlement
<1>12. b.phase = a.phase /\ b.slots = slots /\ b.staged = a.staged /\ b.settlement = settlement
  BY SMTT(60), <1>1 DEF Attempt
<1> HIDE DEF b
<1>13. b.phase # "open" => SlotsIdle(b)
  BY Zenon, <1>11, <1>12 DEF SlotsIdle
<1>14. \A t \in Slots : b.slots[t] = a.slots[t] \/ b.slots[t].state # "read"
  BY Zenon, <1>10, <1>12
<1>15. Whole(b)
  BY Zenon, <1>1, <1>7, <1>12, <1>13, <1>14, RejectedWhole DEF Whole
<1> QED
  BY Zenon, <1>2, <1>6, <1>12, <1>15, AttemptKeeps

(* Buffered writes reach the transaction (apply_changes). *)
LEMMA ApplyBatchKeeps ==
    ASSUME StoreInvariant, WritesInvariant, NEW c \in Requests, ApplyBatch(c)
    PROVE  WritesInvariant'
<1> DEFINE a == attempts[c]
           x == Head(a.channel)
<1>1. a \in Attempt /\ Whole(a)
  BY ZenonT(60), OneAttempt
<1>2. /\ a.channel # <<>> /\ x.kind = "apply" /\ Awaited(a, x) /\ a.settlement = "open"
      /\ log' = log
  BY Zenon DEF ApplyBatch, Receives
<1>3. x \in Command /\ x = a.channel[1]
  BY Zenon, <1>1, <1>2, AttemptTypes, ReceiveCommand
<1>4. x.slot \in Slots
  BY ZenonT(60), <1>2, <1>3, CommandFields
<1>5. InFlight(a) = x.writes
  BY Zenon, <1>2, <1>3 DEF InFlight
<1> DEFINE slot == [a.slots[x.slot] EXCEPT !.state = "flushed"]
           slots == [a.slots EXCEPT ![x.slot] = slot]
           channel == Tail(a.channel)
           batch == Overlay(a.batch, x.writes)
           b == [a EXCEPT !.channel = channel, !.batch = batch, !.slots = slots]
<1> HIDE DEF x
<1>6. attempts' = [attempts EXCEPT ![c].channel = Tail(@),
                                   ![c].batch = Overlay(@, x.writes),
                                   ![c].slots[x.slot] = [@ EXCEPT !.state = "flushed"]]
  BY Zenon DEF ApplyBatch, x
<1>7. attempts' = [attempts EXCEPT ![c] = b]
  BY ZenonT(60), <1>6, OneAttempt
<1>8. a.slots[x.slot] \in Slot /\ a.slots \in [Slots -> Slot]
  BY Zenon, <1>1, <1>4, AttemptTypes
<1>9. slot.state = "flushed"
  BY Zenon, <1>8 DEF Slot, IdleSlot
<1> HIDE DEF slot
<1>10. slots[x.slot].state = "flushed" /\ \A t \in Slots \ {x.slot} : slots[t] = a.slots[t]
  BY Zenon, <1>4, <1>8, <1>9
<1> HIDE DEF slots, channel, batch
<1>11. /\ b.phase = a.phase /\ b.pending = a.pending /\ b.staged = a.staged
       /\ b.channel = channel /\ b.batch = batch /\ b.slots = slots
  BY SMTT(60), <1>1 DEF Attempt
<1> HIDE DEF b
<1>12. /\ x = Head(a.channel) /\ x.kind \in {"apply", "get"} /\ b.channel = Tail(a.channel)
       /\ b.batch = Overlay(a.batch, InFlight(a))
       /\ b.slots[x.slot].state = "flushed" /\ \A t \in Slots \ {x.slot} : b.slots[t] = a.slots[t]
  BY Zenon, <1>2, <1>5, <1>10, <1>11 DEF x, channel, batch
<1>13. Whole(b)
  BY ZenonT(60), <1>1, <1>2, <1>11, <1>12, ServedWhole
<1> QED
  BY ZenonT(60), <1>2, <1>7, <1>11, <1>13, AttemptKeeps

(* A read is answered from the snapshot under the transaction's writes          *)
(* (get_batch).                                                            *)
LEMMA GetBatchKeeps ==
    ASSUME StoreInvariant, WritesInvariant, NEW c \in Requests, GetBatch(c)
    PROVE  WritesInvariant'
<1> DEFINE a == attempts[c]
           x == Head(a.channel)
           view == Overlay(ContentsAfter(log, a.snapshot), a.batch)
<1>1. a \in Attempt /\ Whole(a)
  BY Zenon, OneAttempt
<1>2. /\ a.channel # <<>> /\ x.kind = "get" /\ Awaited(a, x) /\ a.settlement = "open"
      /\ log' = log
  BY Zenon DEF GetBatch, Receives
<1>3. x \in Command
  BY Zenon, <1>1, <1>2, AttemptTypes, ReceiveCommand
<1>4. x.slot \in Slots
  BY ZenonT(60), <1>2, <1>3, CommandFields
<1>5. InFlight(a) = NoWrites /\ a.staged = a.batch /\ a.batch = Overlay(a.batch, NoWrites)
  <2>1. x.kind \in {"apply", "get"}
    BY ZenonT(60), <1>2
  <2>2. CallsServed(a) /\ a.pending = NoWrites
    BY Zenon, <1>1, <1>2, <2>1, AwaitedOpen
  <2> QED
    BY Zenon, <1>1, <1>2, <2>2, ReadsBatch
<1>6. x.key \in DOMAIN a.staged => view[x.key] = a.staged[x.key]
  <2> HIDE DEF x
  <2>1. x.key \in DOMAIN a.batch => view[x.key] = a.batch[x.key]
    BY Zenon DEF Overlay
  <2> HIDE DEF view
  <2> QED
    BY Zenon, <1>5, <2>1
<1> DEFINE slot == [state |-> "read", key |-> x.key, value |-> view[x.key]]
           slots == [a.slots EXCEPT ![x.slot] = slot]
           channel == Tail(a.channel)
           b == [a EXCEPT !.channel = channel, !.slots = slots]
<1> HIDE DEF x, view
<1>7. attempts' = [attempts EXCEPT ![c].channel = Tail(@), ![c].slots[x.slot] = slot]
  BY Zenon DEF GetBatch, x, view
<1>8. slot.state = "read" /\ slot.key = x.key /\ slot.value = view[x.key]
  BY Zenon
<1> HIDE DEF slot
<1>9. attempts' = [attempts EXCEPT ![c] = b]
  BY Zenon, <1>7, OneAttempt
<1>10. slots[x.slot] = slot /\ \A t \in Slots \ {x.slot} : slots[t] = a.slots[t]
  BY Zenon, <1>1, <1>4, AttemptTypes
<1> HIDE DEF slots, channel
<1>11. /\ b.phase = a.phase /\ b.pending = a.pending /\ b.staged = a.staged
       /\ b.channel = channel /\ b.batch = a.batch /\ b.slots = slots
  BY SMTT(20), <1>1 DEF Attempt
<1> HIDE DEF b
<1>12. /\ x = Head(a.channel) /\ x.kind \in {"apply", "get"} /\ b.channel = Tail(a.channel)
       /\ b.batch = Overlay(a.batch, InFlight(a))
       /\ b.slots[x.slot].state = "read" /\ \A t \in Slots \ {x.slot} : b.slots[t] = a.slots[t]
  BY Zenon, <1>2, <1>5, <1>8, <1>10, <1>11 DEF x, channel
<1>13. b.slots[x.slot].key \in DOMAIN a.staged
       => b.slots[x.slot].value = a.staged[b.slots[x.slot].key]
  BY ZenonT(60), <1>6, <1>8, <1>10, <1>11
<1>14. Whole(b)
  BY ZenonT(60), <1>1, <1>2, <1>11, <1>12, <1>13, ServedWhole
<1> QED
  BY ZenonT(60), <1>2, <1>9, <1>11, <1>14, AttemptKeeps

-----------------------------------------------------------------------------
(* Ends of attempts                                                        *)

(* What is left of an attempt that ended (NativeAttemptHandle is dropped). *)
LEMMA EndedFields ==
    ASSUME NEW a, NEW phase, NEW result, NEW staged
    PROVE  LET b == Ended(a, phase, result, staged) IN
           /\ b.phase = phase /\ b.staged = staged /\ SlotsIdle(b)
           /\ b.settlement = "open"
<1> DEFINE f == FreshAttempt(phase, a.tries)
           b == [f EXCEPT !.result = result, !.staged = staged]
<1>1. /\ f.phase = phase /\ f.slots = [s \in Slots |-> IdleSlot] /\ f.settlement = "open"
      /\ b.phase = phase /\ b.staged = staged /\ b.slots = [s \in Slots |-> IdleSlot]
      /\ b.settlement = "open"
  BY SMTT(20) DEF FreshAttempt
<1>2. Ended(a, phase, result, staged) = b
  BY Zenon DEF Ended
<1> HIDE DEF b
<1>3. SlotsIdle(b)
  BY Zenon, <1>1 DEF SlotsIdle
<1> QED
  BY ZenonT(60), <1>1, <1>2, <1>3

(* Whose command the native side receives, its attempt ends there: it has not *)
(* committed before (drive_attempt).                                       *)
LEMMA Settling ==
    ASSUME StoreInvariant, WritesInvariant, NEW c \in Requests,
           Receives(c, "finish") \/ Receives(c, "closed")
    PROVE  ~ HasCommitted(c) /\ attempts[c].phase \in {"finishing", "answered"}
<1> DEFINE a == attempts[c]
<1>1. a \in Attempt /\ ReadsSound(log, a) /\ WriterSerial
  BY ZenonT(60), OneAttempt DEF StoreInvariant
<1>2. a.channel # <<>> /\ Driven(c)
  BY Zenon DEF Receives
<1>3. Head(a.channel) = a.channel[1] /\ 1 \in 1 .. Len(a.channel)
  BY Zenon, <1>1, <1>2, AttemptTypes, ReceiveCommand
<1>4. /\ Receives(c, "finish") => a.phase = "finishing"
      /\ Receives(c, "closed") => a.phase = "answered"
  BY ZenonT(60), <1>1, <1>3 DEF ReadsSound, Receives
<1>5. ASSUME Receives(c, "closed"), c \notin Readers PROVE ~ HasCommitted(c)
  <2>1. queue # <<>> /\ Head(queue) = c
    BY ZenonT(60), <1>2, <1>5 DEF Driven
  <2>2. queue \in Seq(Requests)
    BY Zenon DEF StoreInvariant, TypeOK
  <2>3. 1 \in 1 .. Len(queue) /\ queue[1] = c
    BY <2>1, <2>2
  <2>4. a.phase = "answered" => a.result = "failed"
    BY Zenon, <1>1, <2>3 DEF WriterSerial
  <2> QED
    BY ZenonT(60), <1>4, <1>5, <2>4, Uncommitted
<1>6. ASSUME c \in Readers PROVE ~ HasCommitted(c)
  BY ZenonT(60), <1>6 DEF StoreInvariant, OutcomesTrue, HasCommitted
<1> QED
  BY Zenon, <1>4, <1>5, <1>6, Uncommitted

(* The transaction ends without a commit. *)
LEMMA SettleKeeps ==
    ASSUME StoreInvariant, WritesInvariant, NEW c \in Requests, NEW result,
           Receives(c, "finish") \/ Receives(c, "closed"),
           Settle(c, result, NoWrites), log' = log
    PROVE  WritesInvariant'
<1> DEFINE a == attempts[c]
           phase == IF a.phase = "finishing" THEN "settled" ELSE a.phase
           b == Ended(a, phase, result, NoWrites)
<1>1. ~ HasCommitted(c) /\ phase \notin {"open", "finishing"}
  BY ZenonT(60), Settling
<1>2. attempts' = [attempts EXCEPT ![c] = b]
  BY Zenon, OneAttempt DEF Settle
<1> HIDE DEF phase
<1>3. b.phase = phase /\ SlotsIdle(b)
  BY EndedFields
<1> HIDE DEF b
<1>4. Whole(b)
  BY Zenon, <1>1, <1>3, EndedWhole
<1> QED
  BY ZenonT(60), <1>1, <1>2, <1>4, AttemptKeeps

(* Refused commits, rollbacks and drained channels (finish, rollback). *)
LEMMA EndsKeep ==
    ASSUME StoreInvariant, WritesInvariant, NEW c \in Requests,
           RefuseCommit(c) \/ ReleaseNative(c) \/ DropNative(c)
    PROVE  WritesInvariant'
<1>1. CASE RefuseCommit(c)
  BY Zenon, <1>1, SettleKeeps DEF RefuseCommit
<1>2. CASE ReleaseNative(c)
  BY Zenon, <1>2, SettleKeeps DEF ReleaseNative
<1>3. CASE DropNative(c)
  BY Zenon, <1>3, SettleKeeps DEF DropNative
<1> QED
  BY Zenon, <1>1, <1>2, <1>3

(* A commit holds all that its operation staged (commit). *)
LEMMA CommitNativeKeeps ==
    ASSUME StoreInvariant, WritesInvariant, NEW c \in Requests, CommitNative(c)
    PROVE  WritesInvariant'
<1> DEFINE a == attempts[c]
           x == Head(a.channel)
           writes == Overlay(a.batch, x.writes)
           db == Overlay(ContentsAfter(log, Len(log)), writes)
           e == [request |-> c, reads |-> a.seen, writes |-> writes, db |-> db]
           phase == IF a.phase = "finishing" THEN "settled" ELSE a.phase
<1>1. /\ TypeOK /\ attempts \in [Requests -> Attempt] /\ a \in Attempt /\ Whole(a)
      /\ WritesWhole /\ log \in Seq(Entry)
  BY ZenonT(60), OneAttempt DEF WritesInvariant, TypeOK
<1>2. /\ a.channel # <<>> /\ x.kind = "finish" /\ x.commit /\ a.settlement = "open"
      /\ Receives(c, "finish")
  BY Zenon DEF CommitNative, Receives
<1>3. x = a.channel[1] /\ 1 \in 1 .. Len(a.channel)
  BY Zenon, <1>1, <1>2, AttemptTypes, ReceiveCommand
<1>4. a.phase = "finishing"
  BY ZenonT(60), <1>2, <1>3 DEF StoreInvariant, ReadsSound
<1>5. writes = a.staged
  BY ZenonT(60), <1>1, <1>2, <1>3, <1>4 DEF Whole, WritesTracked, FinishWhole
<1>6. ~ HasCommitted(c)
  BY Zenon, <1>2, Settling
<1>7. log' = Append(log, e)
  BY Zenon DEF CommitNative
<1>8. PICK result : attempts' = [attempts EXCEPT ![c] = Ended(a, phase, result, a.staged)]
  BY Zenon, <1>1 DEF CommitNative, Settle
<1> DEFINE b == Ended(a, phase, result, a.staged)
<1>9. phase \notin {"open", "finishing"}
  BY Zenon, <1>4
<1> HIDE DEF phase, writes, db
<1>10. b.phase = phase /\ SlotsIdle(b) /\ b.staged = a.staged
  BY EndedFields
<1> HIDE DEF b
<1>11. Whole(b)
  BY Zenon, <1>9, <1>10, EndedWhole
<1>12. attempts'[c] = b /\ \A d \in Requests : d # c => attempts'[d] = attempts[d]
  BY Zenon, <1>1, <1>8 DEF b
<1>13. e.request = c /\ e.writes = writes
  BY Zenon
<1> HIDE DEF e
<1>14. \A i \in 1 .. Len(log') : log'[i] = e \/ (i \in 1 .. Len(log) /\ log'[i] = log[i])
  BY <1>1, <1>7
<1>15. ASSUME NEW i \in 1 .. Len(log') PROVE log'[i].writes = attempts'[log'[i].request].staged
  <2>1. CASE log'[i] = e
    BY ZenonT(60), <1>5, <1>10, <1>12, <1>13, <2>1
  <2>2. CASE i \in 1 .. Len(log) /\ log'[i] = log[i]
    <3>1. log[i].request \in Requests
      BY ZenonT(60), <1>1, <2>2, LoggedRequests
    <3>2. log[i].request # c
      BY Zenon, <1>6, <2>2 DEF HasCommitted
    <3>3. log[i].writes = attempts[log[i].request].staged
      BY Zenon, <1>1, <2>2 DEF WritesWhole
    <3> QED
      BY ZenonT(60), <1>12, <2>2, <3>1, <3>2, <3>3
  <2> QED
    BY Zenon, <1>14, <1>15, <2>1, <2>2
<1>16. WritesWhole'
  BY Zenon, <1>15 DEF WritesWhole
<1>17. ASSUME NEW d \in Requests PROVE OwnReads(attempts'[d]) /\ WritesTracked(attempts'[d])
  <2>1. Whole(attempts[d])
    BY Zenon, OneAttempt
  <2> QED
    BY Zenon, <1>11, <1>12, <2>1 DEF Whole
<1>18. ReadsOwnWrites'
  BY Zenon, <1>17 DEF ReadsOwnWrites, OwnReads
<1>19. (\A d \in Requests : WritesTracked(attempts[d]))'
  BY Zenon, <1>17
<1> QED
  BY Zenon, <1>16, <1>18, <1>19 DEF WritesInvariant

-----------------------------------------------------------------------------
(* After the attempt                                                       *)

(* A conflict is tried again: nothing of it was committed                    *)
(* (retry_native_conflicts).                                               *)
LEMMA RetryKeeps ==
    ASSUME StoreInvariant, WritesInvariant, NEW c \in Requests, Retry(c)
    PROVE  WritesInvariant'
<1> DEFINE b == FreshAttempt("idle", attempts[c].tries)
<1>1. /\ attempts[c].phase = "settled" /\ attempts[c].result = "conflict"
      /\ attempts' = [attempts EXCEPT ![c] = b] /\ log' = log
  BY Zenon DEF Retry, Retryable
<1>2. ~ HasCommitted(c)
  BY Zenon, <1>1, Uncommitted
<1>3. Whole(b)
  BY Zenon, FreshWhole
<1> HIDE DEF b
<1> QED
  BY Zenon, <1>1, <1>2, <1>3, AttemptKeeps

(* The request is answered, or waits for durability (with_attempt). *)
LEMMA AnswerKeeps ==
    ASSUME StoreInvariant, WritesInvariant, NEW c \in Requests,
           AnswerRequest(c) \/ AwaitDurability(c)
    PROVE  WritesInvariant'
<1> DEFINE a == attempts[c]
<1>1. PICK phase \in {"answered", "waiting"} : attempts' = [attempts EXCEPT ![c].phase = phase]
  BY ZenonT(60) DEF AnswerRequest, AwaitDurability
<1> DEFINE b == [a EXCEPT !.phase = phase]
<1>2. a \in Attempt /\ Whole(a)
  BY Zenon, OneAttempt
<1>3. a.phase = "settled" /\ log' = log
  BY Zenon DEF AnswerRequest, AwaitDurability
<1>4. attempts' = [attempts EXCEPT ![c] = b]
  BY Zenon, <1>1, OneAttempt
<1>5. b.phase = phase /\ b.slots = a.slots /\ b.staged = a.staged
  BY Zenon, <1>2 DEF Attempt
<1> HIDE DEF b
<1>6. SlotsIdle(b)
  BY Zenon, <1>2, <1>3, <1>5 DEF Whole, WritesTracked, SlotsIdle
<1>7. b.phase \notin {"open", "finishing"}
  BY Zenon, <1>1, <1>5
<1>8. Whole(b)
  BY Zenon, <1>6, <1>7, EndedWhole
<1> QED
  BY Zenon, <1>3, <1>4, <1>5, <1>8, AttemptKeeps

(* The barrier ends: its group is answered (synchronize_groups). *)
LEMMA FinishBarrierKeeps ==
    ASSUME StoreInvariant, WritesInvariant, FinishBarrier
    PROVE  WritesInvariant'
<1>1. PICK result : attempts' = [c \in Requests |->
             IF c \in durability.group THEN Acknowledged(attempts[c], result) ELSE attempts[c]]
  BY ZenonT(60) DEF FinishBarrier
<1>2. ASSUME NEW c \in Requests
      PROVE  /\ attempts'[c].staged = attempts[c].staged
             /\ attempts'[c] = attempts[c] \/ Whole(attempts'[c])
  <2> DEFINE a == attempts[c]
             b == Acknowledged(a, result)
  <2>1. CASE c \notin durability.group
    BY Zenon, <1>1, <1>2, <2>1
  <2>2. CASE c \in durability.group
    <3>1. a \in Attempt /\ Whole(a)
      BY Zenon, <1>2, OneAttempt
    <3>2. a.phase = "waiting"
      BY Zenon, <2>2 DEF StoreInvariant, WaitersCommitted
    <3>3. attempts'[c] = b
      BY Zenon, <1>1, <1>2, <2>2
    <3>4. b.phase = "answered" /\ b.slots = a.slots /\ b.staged = a.staged
      BY Zenon, <3>1 DEF Acknowledged, Attempt
    <3> HIDE DEF b
    <3>5. SlotsIdle(b)
      BY Zenon, <3>1, <3>2, <3>4 DEF Whole, WritesTracked, SlotsIdle
    <3>6. b.phase \notin {"open", "finishing"}
      BY Zenon, <3>4
    <3>7. Whole(b)
      BY Zenon, <3>5, <3>6, EndedWhole
    <3> QED
      BY Zenon, <3>3, <3>4, <3>7
  <2> QED
    BY Zenon, <2>1, <2>2
<1>3. TypeOK /\ log' = log
  BY Zenon DEF StoreInvariant, FinishBarrier
<1>4. \A i \in 1 .. Len(log') : i \in 1 .. Len(log) /\ log'[i] = log[i]
  BY Zenon, <1>3
<1> QED
  BY Zenon, <1>2, <1>3, <1>4, StagedKept

(* A crash leaves a prefix of the log and what its requests had staged          *)
(* (recovery of the write-ahead log).                                       *)
LEMMA CrashKeeps ==
    ASSUME StoreInvariant, WritesInvariant, Crash
    PROVE  WritesInvariant'
<1>1. TypeOK /\ log \in Seq(Entry) /\ synced \in 0 .. Len(log)
  BY ZenonT(60) DEF StoreInvariant, TypeOK
<1>2. PICK n \in synced .. Len(log) : log' = SubSeq(log, 1, n)
  BY Zenon DEF Crash
<1>3. \A i \in 1 .. Len(log') : i \in 1 .. Len(log) /\ log'[i] = log[i]
  BY <1>1, <1>2
<1>4. ASSUME NEW c \in Requests
      PROVE  /\ attempts'[c].staged = attempts[c].staged
             /\ attempts'[c] = attempts[c] \/ Whole(attempts'[c])
  <2> DEFINE a == attempts[c]
             phase == IF a.phase = "answered" THEN a.phase ELSE "lost"
             result == IF a.phase = "answered" THEN a.result ELSE "none"
             b == Ended(a, phase, result, a.staged)
  <2>1. attempts'[c] = IF a = FreshAttempt("idle", 0) THEN a ELSE b
    BY Zenon, <1>4 DEF Crash
  <2>2. phase \notin {"open", "finishing"}
    BY Zenon
  <2> HIDE DEF phase, result
  <2>3. b.phase = phase /\ SlotsIdle(b) /\ b.staged = a.staged
    BY EndedFields
  <2> HIDE DEF b
  <2>4. Whole(b)
    BY Zenon, <2>2, <2>3, EndedWhole
  <2>5. attempts'[c] = a \/ attempts'[c] = b
    BY Zenon, <2>1
  <2> QED
    BY Zenon, <2>3, <2>4, <2>5
<1> QED
  BY Zenon, <1>1, <1>3, <1>4, StagedKept

-----------------------------------------------------------------------------
(* The invariant                                                           *)

(* Nothing is staged, nothing committed (RocksDbBackend::initialize). *)
LEMMA WritesInit == Init => WritesInvariant
<1> SUFFICES ASSUME Init PROVE WritesInvariant
  BY Zenon
<1>1. 1 .. Len(log) = {}
  BY DEF Init
<1>2. \A c \in Requests : Whole(attempts[c])
  BY Zenon, FreshWhole DEF Init
<1>3. WritesWhole
  BY Zenon, <1>1 DEF WritesWhole
<1>4. ReadsOwnWrites
  BY Zenon, <1>2 DEF Whole, OwnReads, ReadsOwnWrites
<1> QED
  BY Zenon, <1>2, <1>3, <1>4 DEF Whole, WritesInvariant

(* Every step keeps the writes whole: one case per action of Next. *)
LEMMA WritesStep ==
    ASSUME StoreInvariant, WritesInvariant, [Next]_vars
    PROVE  WritesInvariant'
<1>1. CASE UNCHANGED <<log, attempts>>
  BY ZenonT(60), <1>1 DEF WritesInvariant, WritesWhole, ReadsOwnWrites
<1>2. ASSUME NEW c \in Requests, Operation(c) PROVE WritesInvariant'
  <2>1. CASE BeginAttempt(c)
    BY ZenonT(60), <1>2, <2>1, BeginAttemptKeeps
  <2>2. CASE \E k \in Keys, v \in Stored : Stage(c, k, v)
    BY Zenon, <1>2, <2>2, StageKeeps
  <2>3. CASE \E s \in Slots, k \in Keys : BeginGet(c, s, k)
    BY Zenon, <1>2, <2>3, BeginGetKeeps
  <2>4. CASE ExhaustBudget(c)
    BY Zenon, <1>2, <2>4, ExhaustBudgetKeeps
  <2>5. CASE \E s \in Slots : ResumeCall(c, s) \/ DropCall(c, s)
    BY Zenon, <1>2, <2>5, ResumeCallKeeps, DropCallKeeps
  <2>6. CASE \E result \in {"ok", "conflict", "failed"} : Return(c, result)
    BY ZenonT(60), <1>2, <2>6, ReturnKeeps
  <2>7. CASE Panic(c)
    BY Zenon, <1>2, <2>7, PanicKeeps
  <2> QED
    BY Zenon, <1>2, <2>1, <2>2, <2>3, <2>4, <2>5, <2>6, <2>7 DEF Operation
<1>3. ASSUME NEW c \in Requests, Native(c) PROVE WritesInvariant'
  <2>1. CASE StartNative(c) \/ CommandFails(c)
    BY ZenonT(60), <1>3, <2>1, StartNativeKeeps, CommandFailsKeeps
  <2>2. CASE ApplyBatch(c) \/ GetBatch(c)
    BY Zenon, <1>3, <2>2, ApplyBatchKeeps, GetBatchKeeps
  <2>3. CASE CommitNative(c)
    BY Zenon, <1>3, <2>3, CommitNativeKeeps
  <2>4. CASE RefuseCommit(c) \/ ReleaseNative(c) \/ DropNative(c)
    BY Zenon, <1>3, <2>4, EndsKeep
  <2> QED
    BY Zenon, <1>3, <2>1, <2>2, <2>3, <2>4 DEF Native
<1>4. ASSUME NEW c \in Requests, Supervisor(c) PROVE WritesInvariant'
  BY Zenon, <1>4, RetryKeeps, AnswerKeeps DEF Supervisor
<1>5. CASE Durability
  <2>1. TakeFirst \/ InvokeBarrier => UNCHANGED <<log, attempts>>
    BY ZenonT(60) DEF TakeFirst, InvokeBarrier
  <2> QED
    BY Zenon, <1>1, <1>5, <2>1, FinishBarrierKeeps DEF Durability
<1>6. CASE Crash
  BY Zenon, <1>6, CrashKeeps
<1>7. CASE UNCHANGED vars
  BY Zenon, <1>1, <1>7 DEF vars
<1> QED
  BY Zenon, <1>2, <1>3, <1>4, <1>5, <1>6, <1>7 DEF Next

(* No write of an operation is lost or torn on its way from the buffer to the  *)
(* log, in every reachable state.                                          *)
THEOREM WritesInvariantHolds == Spec => []WritesInvariant
<1>1. StoreInvariant /\ StoreInvariant' /\ WritesInvariant /\ [Next]_vars => WritesInvariant'
  BY Zenon, WritesStep
<1> QED
  BY <1>1, WritesInit, StoreInvariantHolds, PTL DEF Spec

(* A commit holds all the writes of its operation, whatever calls failed,       *)
(* were dropped or ran beside each other (NativeAttemptSettlement).         *)
THEOREM CommitsStayWhole == Spec => []WritesWhole
<1>1. WritesInvariant => WritesWhole
  BY Zenon DEF WritesInvariant
<1> QED
  BY <1>1, WritesInvariantHolds, PTL

(* A read sees the writes its operation made before it, also those that          *)
(* another of its calls flushed (dispatch_pending).                         *)
THEOREM ReadsSeeOwnWrites == Spec => []ReadsOwnWrites
<1>1. WritesInvariant => ReadsOwnWrites
  BY Zenon DEF WritesInvariant
<1> QED
  BY <1>1, WritesInvariantHolds, PTL
=============================================================================
