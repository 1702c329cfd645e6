----------------------------- MODULE GsiBackfill -----------------------------
(***************************************************************************)
(* Global secondary indexes of one table: the build of a new index (crates/ *)
(* storage-backfill, driven by storage-provider/src/maintenance/gsi), which *)
(* scans the table and then replays the stream history written meanwhile,  *)
(* beside the item writes, the table updates that start and stop streams,  *)
(* the initialization of a stream, and the cleanup of the history the      *)
(* builds read (storage-provider/src/maintenance/retention).               *)
(*                                                                         *)
(* Each action is one serializable read-write attempt.  The table has one  *)
(* lineage, so a position of the system log is a position of the table's   *)
(* own stream.                                                             *)
(***************************************************************************)
EXTENDS Integers, Sequences, FiniteSets, FiniteSetsExt

CONSTANTS
    LastItem,       \* the item keys, in their order, are 1 .. LastItem
    Indexes,        \* incarnations of indexes, in the order they are created
    Keys,           \* values of the index key attribute
    NoKey,          \* an item without that attribute
    Vals,           \* the other attributes of an item
    Images,         \* the item images that are written
    ProjectsAll,    \* the indexes that project ALL; the others KEYS_ONLY
    ScanPage,       \* items read in a page of a scan
    TailPage,       \* stream entries read in a page of the catch-up
    CleanupRows,    \* stream entries read by a cleanup wave
    Forever,        \* whether the table keeps its stream forever
    MaxVersion, MaxLog, MaxUpdates  \* bounds: of each item, the stream and table updates

Items == 1 .. LastItem
Gone == "gone"
Absent == [key |-> NoKey, val |-> Gone]

ASSUME GsiAssumption ==
    /\ LastItem \in Nat \ {0}
    /\ Indexes \subseteq Nat \ {0}
    /\ NoKey \notin Keys /\ Gone \notin Vals /\ Vals # {}
    /\ Images \subseteq [key : Keys \cup {NoKey}, val : Vals]
    /\ ProjectsAll \subseteq Indexes
    /\ ScanPage \in Nat \ {0} /\ TailPage \in Nat \ {0} /\ CleanupRows \in Nat \ {0}
    /\ Forever \in BOOLEAN
    /\ MaxVersion \in [Items -> Nat \ {0}] /\ MaxLog \in Nat /\ MaxUpdates \in Nat

VARIABLES
    base,       \* the primary state of each item: its revision and its image
    log,        \* the table's stream: item, version and predecessor of each entry
    history,    \* the item history: an image and the entry it belongs to
    rows,       \* the projection state of each index, item and index key
    builds,     \* the GsiBuild of each index
    created,    \* index_id_high_water
    updates,    \* table updates so far
    stream,     \* the stream settings of the table
    pending,    \* the pending stream initialization: the last item anchored
    frontier,   \* RetentionFrontier: retired, cleaned and the history sweep
    trimmed,    \* retired_through of the system stream
    turn        \* the scheduler's place among the builds

vars == <<base, log, history, rows, builds, created, updates, stream, pending,
          frontier, trimmed, turn>>

Versions == UNION {1 .. MaxVersion[i] : i \in Items}
NoEntry == [img |-> Absent, pos |-> -1]
NoRow == [rev |-> 0, val |-> Gone]
NoBuild == [phase |-> "none", cursor |-> 0, bound |-> 0]
NoInitialization == -1

Phases == {"none", "scanning", "catching_up", "active", "history_unavailable",
           "projection_conflict"}

(* A scanning build holds the low position and the last item scanned, one that *)
(* catches up its cursor and the high position; the last two are Blocked.      *)
Build == [phase : Phases, cursor : Nat, bound : Nat]
Blocked == {"history_unavailable", "projection_conflict"}
Runnable(b) == b.phase \in {"scanning", "catching_up"}
Existing == {x \in Indexes : builds[x].phase # "none"}

(* GsiWriteTargets: every index that is not blocked takes the live writes. *)
Targets == {x \in Existing : builds[x].phase \notin Blocked}

Sweep == [on : BOOLEAN, after : Nat, retry : BOOLEAN]
NoSweep == [on |-> FALSE, after |-> 0, retry |-> FALSE]
NewSweep == [on |-> TRUE, after |-> 0, retry |-> FALSE]

TypeOK ==
    /\ base \in [Items -> [rev : Nat, img : Images \cup {Absent}]]
    /\ log \in Seq([item : Items, ver : Nat \ {0}, prev : Nat])
    /\ history \in [Items -> [Versions -> [img : Images \cup {Absent}, pos : Int]]]
    /\ rows \in [Indexes -> [Items -> [Keys -> [rev : Nat, val : Vals \cup {Gone}]]]]
    /\ builds \in [Indexes -> Build]
    /\ created \in Nat /\ updates \in Nat
    /\ stream \in [public : BOOLEAN, updating : BOOLEAN, capture : SUBSET Indexes]
    /\ pending \in Int
    /\ frontier \in [retired : Nat, cleaned : Nat, sweep : Sweep]
    /\ trimmed \in Nat /\ turn \in Nat

(* A table that may hold items and has neither a stream nor an index. *)
Init ==
    /\ base \in [Items -> {[rev |-> 0, img |-> Absent]} \cup [rev : {1}, img : Images]]
    /\ log = <<>>
    /\ history = [i \in Items |-> [v \in Versions |-> NoEntry]]
    /\ rows = [x \in Indexes |-> [i \in Items |-> [k \in Keys |-> NoRow]]]
    /\ builds = [x \in Indexes |-> NoBuild]
    /\ created = 0 /\ updates = 0
    /\ stream = [public |-> FALSE, updating |-> FALSE, capture |-> {}]
    /\ pending = NoInitialization
    /\ frontier = [retired |-> 0, cleaned |-> 0, sweep |-> NoSweep]
    /\ trimmed = 0 /\ turn = 0

-----------------------------------------------------------------------------
(* Item writes                                                             *)

RequiresStreamEntry(s) == s.public \/ s.capture # {}
Live(i) == base[i].img # Absent

(* has_same_projection: an index of ALL attributes is always written. *)
Projected(x, img) == IF x \in ProjectsAll THEN img.val ELSE CHOOSE v \in Vals : TRUE
SameProjection(x, old, new) == x \notin ProjectsAll /\ old.key = new.key

(* Mutation: the tombstone takes the revision of the image it replaces. *)
LiveRowOldRevision(x, row, k, old, new, rev) ==
    IF k = new.key
    THEN IF SameProjection(x, old, new) THEN row ELSE [rev |-> rev, val |-> Projected(x, new)]
    ELSE IF k = old.key THEN [rev |-> rev - 1, val |-> Gone] ELSE row

(* The rows of index x after the write of an image: the new key's row, unless  *)
(* the write leaves it as it is, and a tombstone for the key the item had.     *)
LiveRow(x, row, k, old, new, rev) ==
    IF k = new.key
    THEN IF SameProjection(x, old, new) THEN row ELSE [rev |-> rev, val |-> Projected(x, new)]
    ELSE IF k = old.key THEN [rev |-> rev, val |-> Gone] ELSE row

ProjectLive(i, old, new, rev) ==
    rows' = [x \in Indexes |->
        IF x \notin Targets THEN rows[x]
        ELSE [rows[x] EXCEPT ![i] =
                 [k \in Keys |-> LiveRow(x, rows[x][i][k], k, old, new, rev)]]]

(* Mutation: only a stream that is being initialized anchors the old image. *)
NeedsAnchorUpdating(i) ==
    Live(i) /\ history[i][base[i].rev] = NoEntry /\ stream.updating

(* capture_initial_predecessor: a table whose stream is public and initialized *)
(* has the old image already.                                              *)
NeedsAnchor(i) ==
    /\ Live(i) /\ history[i][base[i].rev] = NoEntry
    /\ stream.updating \/ ~ stream.public

Anchored(i) ==
    [history[i] EXCEPT ![base[i].rev] = [img |-> base[i].img, pos |-> 0]]

CaptureHistory(i, old, new, rev) ==
    IF RequiresStreamEntry(stream)
    THEN /\ Len(log) < MaxLog
         /\ log' = Append(log, [item |-> i, ver |-> rev,
                                prev |-> IF old = Absent THEN 0 ELSE base[i].rev])
         /\ history' = [history EXCEPT ![i] =
               [(IF NeedsAnchor(i) THEN Anchored(i) ELSE history[i])
                   EXCEPT ![rev] = [img |-> new, pos |-> Len(log) + 1]]]
    ELSE UNCHANGED <<log, history>>

Write(i, new) ==
    LET old == base[i].img
        rev == base[i].rev + 1
    IN  /\ rev <= MaxVersion[i]
        /\ base' = [base EXCEPT ![i] = [rev |-> rev, img |-> new]]
        /\ ProjectLive(i, old, new, rev)
        /\ CaptureHistory(i, old, new, rev)

Unwritten == <<builds, created, updates, stream, pending, frontier, trimmed, turn>>

(* prepare_accepted_upsert. *)
Put(i) ==
    /\ \E new \in Images : Write(i, new)
    /\ UNCHANGED Unwritten

(* prepare_accepted_delete. *)
Delete(i) ==
    /\ Live(i)
    /\ Write(i, Absent)
    /\ UNCHANGED Unwritten

(* The delete of an item that is not there leaves a tombstone's revision only. *)
DeleteAbsent(i) ==
    /\ ~ Live(i) /\ base[i].rev < MaxVersion[i]
    /\ base' = [base EXCEPT ![i].rev = @ + 1]
    /\ UNCHANGED <<log, history, rows>>
    /\ UNCHANGED Unwritten

-----------------------------------------------------------------------------
(* Table updates and the initialization of a stream                        *)

(* is_capture_stop: the histories the table no longer needs are swept. *)
Stopped(next) ==
    IF RequiresStreamEntry(stream) /\ ~ RequiresStreamEntry(next)
    THEN [frontier EXCEPT !.sweep = NewSweep]
    ELSE frontier

(* configure_stream, without the flag of a new index. *)
Configured(request) ==
    CASE request = "keep" -> stream
      [] request = "enable" ->
            [stream EXCEPT !.public = TRUE, !.updating = @ \/ ~ stream.public]
      [] request = "disable" -> [stream EXCEPT !.public = FALSE, !.updating = FALSE]

(* A stream is not disabled under a build that reads it. *)
StreamReleased(request, next, kept) ==
    (stream.public /\ request = "disable") =>
        \A x \in kept \ next.capture : builds[x].phase = "active"

Initialization(next) == IF ~ stream.public /\ next.public THEN 0 ELSE pending

UpdateStream(request) ==
    LET next == Configured(request)
    IN  /\ ~ stream.updating \/ (stream.public /\ request = "disable")
        /\ StreamReleased(request, next, Existing)
        /\ stream' = next
        /\ frontier' = Stopped(next)
        /\ pending' = Initialization(next)
        /\ UNCHANGED <<builds, rows, created>>

(* register_created_index: the build starts from the end of the stream.  An    *)
(* index of a table without a public stream captures one for its build.        *)
CreateIndex(request) ==
    LET x == created + 1
        configured == Configured(request)
        next == IF configured.public THEN configured
                ELSE [configured EXCEPT !.capture = @ \cup {x}]
    IN  /\ ~ stream.updating /\ x \in Indexes
        /\ StreamReleased(request, next, Existing \cup {x})
        /\ created' = x
        /\ builds' = [builds EXCEPT ![x] =
                         [phase |-> "scanning", cursor |-> Len(log), bound |-> 0]]
        /\ stream' = next
        /\ frontier' = Stopped(next)
        /\ pending' = Initialization(next)
        /\ UNCHANGED rows

DeleteIndex(request, x) ==
    LET next == [Configured(request) EXCEPT !.capture = @ \ {x}]
    IN  /\ ~ stream.updating /\ x \in Existing
        /\ StreamReleased(request, next, Existing \ {x})
        /\ builds' = [builds EXCEPT ![x] = NoBuild]
        /\ rows' = [rows EXCEPT ![x] = [i \in Items |-> [k \in Keys |-> NoRow]]]
        /\ stream' = next
        /\ frontier' = Stopped(next)
        /\ pending' = Initialization(next)
        /\ UNCHANGED created

(* execute_table_update: an index, a stream, or both of them. *)
UpdateTable ==
    /\ updates < MaxUpdates
    /\ updates' = updates + 1
    /\ \/ \E request \in {"enable", "disable"} : UpdateStream(request)
       \/ \E request \in {"keep", "enable", "disable"} : CreateIndex(request)
       \/ \E request \in {"keep", "enable", "disable"}, x \in Indexes : DeleteIndex(request, x)
    /\ UNCHANGED <<base, log, history, trimmed, turn>>

(* Mutation: a page starts at the last item of the page before. *)
FollowingInclusive(after) == {i \in Items : i >= after /\ Live(i)}

(* A page of live items after one: the items, and whether more follow. *)
Following(after) == {i \in Items : i > after /\ Live(i)}
Page(after) == {i \in Following(after) :
                   Cardinality({j \in Following(after) : j < i}) < ScanPage}
More(after) == Following(after) # Page(after)

(* advance_initialization_page *)
InitializeStream ==
    /\ pending # NoInitialization
    /\ IF stream.updating /\ stream.public
       THEN /\ history' = [i \in Items |->
                  IF i \in Page(pending) /\ history[i][base[i].rev] = NoEntry
                  THEN Anchored(i) ELSE history[i]]
            /\ IF More(pending)
               THEN pending' = Max(Page(pending)) /\ UNCHANGED stream
               ELSE /\ pending' = NoInitialization
                    /\ stream' = [stream EXCEPT !.updating = FALSE, !.capture = {}]
       ELSE pending' = NoInitialization /\ UNCHANGED <<history, stream>>
    /\ UNCHANGED <<base, log, rows, builds, created, updates, frontier, trimmed, turn>>

-----------------------------------------------------------------------------
(* The build of an index                                                   *)

(* A source names an item, a key, a version and what the item had there. *)
Source(i, k, ver, val) == [item |-> i, key |-> k, ver |-> ver, val |-> val]

ScanSources(x, page) ==
    {Source(i, base[i].img.key, base[i].rev, Projected(x, base[i].img)) :
        i \in {j \in page : base[j].img.key # NoKey}}

(* GsiStreamHistory: both images of an entry must be held. *)
Held(p) ==
    /\ history[log[p].item][log[p].ver].pos = p
    /\ log[p].prev # 0 => history[log[p].item][log[p].prev] # NoEntry

OldImage(p) == IF log[p].prev = 0 THEN Absent ELSE history[log[p].item][log[p].prev].img
NewImage(p) == history[log[p].item][log[p].ver].img

(* from_stream_images *)
StreamSources(x, p) ==
    (IF OldImage(p).key \notin {NoKey, NewImage(p).key}
     THEN {Source(log[p].item, OldImage(p).key, log[p].ver, Gone)} ELSE {})
    \cup
    (IF NewImage(p).key # NoKey
     THEN {Source(log[p].item, NewImage(p).key, log[p].ver, Projected(x, NewImage(p)))}
     ELSE {})

(* decide_missing and decide_present, from the row the batch started with. *)
Conflicts(row, s) ==
    /\ row # NoRow /\ row.rev = s.ver
    /\ (row.val = Gone) # (s.val = Gone)

(* Mutation: a source is written whatever version the row has. *)
WritesAnyVersion(row, s, sources) ==
    IF s.val = Gone THEN row # NoRow /\ row.val # Gone ELSE TRUE

Writes(row, s, sources) ==
    IF s.val = Gone
    THEN IF row = NoRow
         THEN \E t \in sources : /\ t.item = s.item /\ t.key = s.key
                                 /\ t.val # Gone /\ t.ver < s.ver
         ELSE s.ver > row.rev /\ row.val # Gone
    ELSE s.ver > row.rev

(* merge_projection_write: the last version written to a row stays. *)
Merged(row, i, k, sources) ==
    LET writing == {s \in sources : s.item = i /\ s.key = k /\ Writes(row, s, sources)}
        last == CHOOSE s \in writing : \A t \in writing : t.ver <= s.ver
    IN  IF writing = {} THEN row ELSE [rev |-> last.ver, val |-> last.val]

ProjectSources(x, sources) ==
    rows' = [rows EXCEPT ![x] =
                [i \in Items |-> [k \in Keys |-> Merged(rows[x][i][k], i, k, sources)]]]

Conflicting(x, sources) ==
    \E s \in sources : Conflicts(rows[x][s.item][s.key], s)

(* write_gsi_transition: a build that ends releases the capture it held. *)
Transition(x, next) ==
    LET released == [stream EXCEPT !.capture = @ \ {x}]
    IN  /\ builds' = [builds EXCEPT ![x] = next]
        /\ stream' = IF Runnable(next) THEN stream ELSE released
        /\ frontier' = IF Runnable(next) THEN frontier ELSE Stopped(released)

Block(x, reason) ==
    /\ Transition(x, [builds[x] EXCEPT !.phase = reason])
    /\ UNCHANGED rows

(* A page of sources is projected, or the build stops at a conflict. *)
Project(x, sources, next) ==
    IF Conflicting(x, sources)
    THEN Block(x, "projection_conflict")
    ELSE ProjectSources(x, sources) /\ Transition(x, next)

(* decide_scan_page_change: after its last page a build catches up with what   *)
(* was written since the scan began.                                       *)
AdvanceScan(x) ==
    /\ builds[x].phase = "scanning"
    /\ LET after == builds[x].bound
       IN  Project(x, ScanSources(x, Page(after)),
               IF More(after)
               THEN [builds[x] EXCEPT !.bound = Max(Page(after))]
               ELSE [builds[x] EXCEPT !.phase = "catching_up", !.bound = Len(log)])

(* The system stream was trimmed, or an image was cleaned up. *)
HistoryUnavailable(x, through) ==
    builds[x].cursor < trimmed \/ \E p \in builds[x].cursor + 1 .. through : ~ Held(p)

(* decide_catch_up_page_change; the page's bytes bound it as its rows do. *)
AdvanceCatchUp(x) ==
    /\ builds[x].phase = "catching_up" /\ builds[x].cursor < builds[x].bound
    /\ \E n \in 1 .. TailPage :
          LET through == builds[x].cursor + n
          IN  /\ through <= builds[x].bound
              /\ IF HistoryUnavailable(x, through)
                 THEN Block(x, "history_unavailable")
                 ELSE Project(x, UNION {StreamSources(x, p) : p \in builds[x].cursor + 1 .. through},
                              [builds[x] EXCEPT !.cursor = through])

(* decide_activation_change *)
Activate(x) ==
    /\ builds[x].phase = "catching_up" /\ builds[x].cursor = builds[x].bound
    /\ Transition(x, [phase |-> "active", cursor |-> 0, bound |-> 0])
    /\ UNCHANGED rows

(* The first runnable build after the last one, in the order of creation. *)
Candidates == {x \in Indexes : Runnable(builds[x])}
Candidate ==
    LET later == {x \in Candidates : x > turn}
    IN  IF later # {} THEN Min(later) ELSE Min(Candidates)

AdvanceBuild ==
    /\ UNCHANGED <<base, log, history, created, updates, pending, trimmed>>
    /\ IF Candidates = {}
       THEN turn' = 0 /\ UNCHANGED <<rows, builds, stream, frontier>>
       ELSE /\ turn' = Candidate
            /\ IF stream.updating
               THEN UNCHANGED <<rows, builds, stream, frontier>>
               ELSE \/ AdvanceScan(Candidate)
                    \/ AdvanceCatchUp(Candidate)
                    \/ Activate(Candidate)

-----------------------------------------------------------------------------
(* The cleanup of the table's stream and of the item histories             *)

(* TrimSystem: a prefix of the system stream is retired. *)
TrimSystem ==
    /\ \E through \in trimmed + 1 .. Len(log) : trimmed' = through
    /\ UNCHANGED <<base, log, history, rows, builds, created, updates, stream, pending,
                   frontier, turn>>

(* protected_version: the oldest image that an event of the page which is not  *)
(* retired, the entries after the page, or the live item still need.       *)
Previous(h, v) == log[h[v].pos].prev

(* Mutation: the image of the live item is not protected. *)
ProtectedByPage(i, h, entries, page, unretired) ==
    IF unretired # {}
    THEN LET v == Min(unretired) IN {IF Previous(h, v) # 0 THEN Previous(h, v) ELSE v}
    ELSE IF page = entries THEN {} ELSE {Max(page)}

Protected(i, h, entries, page, unretired) ==
    (IF unretired # {}
     THEN LET v == Min(unretired) IN {IF Previous(h, v) # 0 THEN Previous(h, v) ELSE v}
     ELSE IF page = entries THEN {} ELSE {Max(page)})
    \cup (IF Live(i) /\ RequiresStreamEntry(stream) THEN {base[i].rev} ELSE {})

(* plan_cleanup, from the two oldest entries of the item's history: the history *)
(* it leaves, whether it is finished, whether an entry of the page will retire, *)
(* and whether its predecessor is there (require_exact_predecessor).       *)
Entries(h) == {v \in Versions : h[v] # NoEntry}

Plan(i, h, retired) ==
    LET entries == Entries(h)
        oldest == Min(entries)
        page == {v \in entries : Cardinality({u \in entries : u < v}) < 2}
        unretired == {v \in page : h[v].pos > retired}
        protected == Protected(i, h, entries, page, unretired)
        deletes == entries # {} /\ \A v \in protected : oldest < v
    IN  [left |-> IF deletes THEN [h EXCEPT ![oldest] = NoEntry] ELSE h,
         complete |-> \/ ~ deletes \/ page = {oldest} \/ unretired # {}
                      \/ page = entries /\ \E v \in protected : v <= Max(page),
         retries |-> ~ Forever /\ unretired # {},
         exact |-> unretired # {} => Previous(h, Min(unretired)) \in page \cup {0}]

(* observe_lane: the entries of the page that are retired, or have expired up  *)
(* to a position, and the frontier that follows them.                      *)
PointerPage ==
    {p \in frontier.cleaned + 1 .. (IF Forever THEN frontier.retired ELSE Len(log)) :
        p <= frontier.cleaned + CleanupRows}

Retirable(expired) == {p \in PointerPage : p <= frontier.retired \/ p <= expired}

Retired(candidates) ==
    IF PointerPage = {} /\ ~ Forever THEN Len(log) ELSE Max(candidates \cup {frontier.retired})

(* apply_lane: the entries are visited up to the first whose history is not    *)
(* finished.  Without a predecessor image the wave fails.                  *)
PointerWave(expired) ==
    LET candidates == Retirable(expired)
        retired == Retired(candidates)
        plans == [i \in {log[p].item : p \in candidates} |-> Plan(i, history[i], retired)]
        open == {p \in candidates : ~ plans[log[p].item].complete}
        visited == {p \in candidates : \A q \in open : p <= q}
    IN  [exact |-> \A i \in DOMAIN plans : plans[i].exact,
         retired |-> retired,
         cleaned |-> IF PointerPage = {} THEN retired
                     ELSE Max((visited \ open) \cup {frontier.cleaned}),
         history |-> [i \in Items |-> IF \E p \in visited : log[p].item = i
                                      THEN plans[i].left ELSE history[i]]]

(* advance_item_history_sweeps over the histories h: the next item, or the end *)
(* of a sweep, which starts again when it left an entry that will retire.  *)
Swept(h) == {i \in Items : i > frontier.sweep.after /\ Entries(h[i]) # {}}

SweepHistories(h, retired) ==
    IF Swept(h) = {}
    THEN /\ history' = h
         /\ frontier' = [retired |-> retired, cleaned |-> retired,
                         sweep |-> IF frontier.sweep.retry THEN NewSweep ELSE NoSweep]
    ELSE LET i == Min(Swept(h))
             plan == Plan(i, h[i], retired)
         IN  /\ plan.exact
             /\ history' = [h EXCEPT ![i] = plan.left]
             /\ frontier' = [retired |-> retired, cleaned |-> retired,
                             sweep |-> [frontier.sweep EXCEPT
                                           !.after = IF plan.complete THEN i ELSE @,
                                           !.retry = @ \/ plan.retries]]

(* execute_wave, at a time when the entries up to a position have expired.  A  *)
(* sweep waits for the entries that are retired, and until it is due.      *)
CleanupWave ==
    /\ ~ Forever \/ frontier.sweep.on \/ frontier.cleaned < frontier.retired
    /\ \E wave \in {PointerWave(e) : e \in {0} \cup (IF Forever THEN {} ELSE PointerPage)} :
          /\ wave.exact
          /\ \/ /\ history' = wave.history
                /\ frontier' = [frontier EXCEPT !.retired = wave.retired, !.cleaned = wave.cleaned]
             \/ /\ frontier.sweep.on /\ wave.cleaned = wave.retired
                /\ SweepHistories(wave.history, wave.retired)
    /\ UNCHANGED <<base, log, rows, builds, created, updates, stream, pending, trimmed, turn>>

-----------------------------------------------------------------------------

Next ==
    \/ \E i \in Items : Put(i) \/ Delete(i) \/ DeleteAbsent(i)
    \/ UpdateTable
    \/ InitializeStream
    \/ AdvanceBuild
    \/ TrimSystem
    \/ CleanupWave

(* The maintenance handler takes a turn of each again and again. *)
Fairness == WF_vars(AdvanceBuild) /\ WF_vars(InitializeStream)

Spec == Init /\ [][Next]_vars /\ Fairness

-----------------------------------------------------------------------------
(* What is checked                                                         *)

(* A build that still needs the stream is fed by it: the public stream, or the *)
(* capture its own index asked for, outlives every stream update and the     *)
(* initialization that clears the captures (configure_stream,                *)
(* complete_stream_initialization, release_gsi_capture).                     *)
CaptureHeld == \A x \in Candidates : stream.public \/ x \in stream.capture

(* A public stream holds the current image of every live item that its        *)
(* initialization has passed, which the next write takes for the predecessor  *)
(* of its entry (capture_initial_predecessor skips the anchor once the stream  *)
(* is initialized).                                                        *)
CurrentImageHeld ==
    stream.public =>
        \A i \in Items : (Live(i) /\ (~ stream.updating \/ i <= pending)) =>
            history[i][base[i].rev] # NoEntry

(* The cleanup keeps both images of every entry that is not retired, so no    *)
(* wave fails in require_exact_predecessor, whatever anchors, sweeps and       *)
(* restarts of the stream left in the item's history.                        *)
HistoryHeld == \A p \in frontier.retired + 1 .. Len(log) : Held(p)

(* The entries of an item have rising versions, each after its predecessor. *)
LogOrdered ==
    \A p \in 1 .. Len(log) :
        /\ log[p].prev \in {0, log[p].ver - 1}
        /\ log[p].ver <= base[log[p].item].rev
        /\ \A q \in 1 .. Len(log) :
              (q < p /\ log[q].item = log[p].item) => log[q].ver < log[p].ver

(* An image in the history is of a version the item had, and where it belongs  *)
(* to an entry of the stream, to that version's.                            *)
HistoryExact ==
    \A i \in Items :
        /\ base[i].rev <= MaxVersion[i]
        /\ Live(i) => base[i].rev > 0
        /\ \A v \in Versions : history[i][v] # NoEntry =>
              /\ v <= base[i].rev
              /\ v = base[i].rev => history[i][v].img = base[i].img
              /\ history[i][v].pos \in 0 .. Len(log)
              /\ history[i][v].pos > 0 => /\ log[history[i][v].pos].item = i
                                         /\ log[history[i][v].pos].ver = v

BuildsOrdered ==
    \A x \in Indexes :
        /\ x > created =>
              /\ builds[x] = NoBuild
              /\ rows[x] = [i \in Items |-> [k \in Keys |-> NoRow]]
        /\ Runnable(builds[x]) => builds[x].cursor <= Len(log)
        /\ builds[x].phase = "catching_up" =>
              builds[x].cursor <= builds[x].bound /\ builds[x].bound <= Len(log)

(* A row of an index that takes the live writes is never newer than its item,  *)
(* is live only with the item's current projection, and lacks it only where     *)
(* the scan has yet to come and no tombstone stands in its way.              *)
RowsTrue ==
    \A x \in Targets, i \in Items, k \in Keys :
        /\ rows[x][i][k].rev <= base[i].rev
        /\ rows[x][i][k].val # Gone =>
              /\ base[i].img.key = k
              /\ rows[x][i][k].val = Projected(x, base[i].img)
        /\ (rows[x][i][k].val = Gone /\ base[i].img.key = k) =>
              /\ rows[x][i][k] = NoRow
              /\ builds[x].phase = "scanning" /\ i > builds[x].bound

(* What a build has yet to read of the stream, its rows have seen already: the *)
(* row has the source's version and agrees with it, has a later one, or the     *)
(* live write left it to the scan because it did not change the projection.    *)
Unread(x) == {p \in 1 .. Len(log) : Runnable(builds[x]) /\ builds[x].cursor < p}

Seen(x, row, s) ==
    /\ row.rev = s.ver => ((row.val = Gone) <=> (s.val = Gone))
    /\ row.rev < s.ver =>
          s.val # Gone /\ x \notin ProjectsAll /\ base[s.item].img.key = s.key

SourcesSeen ==
    \A x \in Targets : \A p \in Unread(x) : Held(p) =>
        \A s \in StreamSources(x, p) : Seen(x, rows[x][s.item][s.key], s)

GsiInvariant ==
    /\ TypeOK
    /\ frontier.cleaned <= frontier.retired /\ frontier.retired <= Len(log)
    /\ CaptureHeld /\ CurrentImageHeld /\ HistoryHeld
    /\ LogOrdered /\ HistoryExact /\ BuildsOrdered
    /\ RowsTrue /\ SourcesSeen

(* An index that may be queried holds exactly the projection of the table: a   *)
(* live row for each item at its key and for no other key, whatever writes     *)
(* raced the scan and whatever the catch-up replayed after them.             *)
IndexesExact ==
    \A x \in Indexes : builds[x].phase = "active" =>
        \A i \in Items, k \in Keys :
            rows[x][i][k].val =
                IF base[i].img.key = k THEN Projected(x, base[i].img) ELSE Gone

(* The live writes and the replay of their stream entries never meet with two  *)
(* images of one version (ProjectionConflict of decide_missing, decide_present). *)
NoProjectionConflict == \A x \in Indexes : builds[x].phase # "projection_conflict"

(* A build loses its history only to retention: when it is blocked, entries    *)
(* it had yet to read were retired by the table or trimmed from the system     *)
(* stream (GsiStreamHistory::finish, validate_observation).                  *)
BlockedOnlyByRetention ==
    [][\A x \in Indexes :
          (Runnable(builds[x]) /\ builds'[x].phase = "history_unavailable") =>
              builds[x].cursor < Max({trimmed, frontier.retired})]_vars

(* Every build ends, active or blocked or with its index deleted: the stream   *)
(* initialization that keeps it waiting ends, and the high position it has to  *)
(* reach stays where the scan found it.                                      *)
BuildsSettle == \A x \in Indexes : Runnable(builds[x]) ~> ~ Runnable(builds[x])
=============================================================================
