--------------------------- MODULE GsiStepProofs ---------------------------
(***************************************************************************)
(* Facts about tables and their indexes that hold of any number of items,  *)
(* versions and indexes; that the writes of items, the updates of tables,  *)
(* the initialization of a stream and the builds of indexes keep           *)
(* GsiInvariant; and that no build meets a conflict.                       *)
(***************************************************************************)
EXTENDS GsiBackfill, TLAPS

-----------------------------------------------------------------------------
(* Types                                                                   *)

(* The types of what the stored records hold: the items, *)
LEMMA BaseTyped ==
    ASSUME TypeOK
    PROVE  \A i \in Items : /\ base[i].rev \in Nat
                            /\ base[i].img \in Images \cup {Absent}
<1>1. \A i \in Items : base[i] \in [rev : Nat, img : Images \cup {Absent}]
  BY Zenon DEF TypeOK
<1> QED
  BY Zenon, <1>1

(* the entries of the stream, *)
LEMMA LogTyped ==
    ASSUME TypeOK
    PROVE  /\ Len(log) \in Nat
           /\ \A p \in 1 .. Len(log) : /\ log[p].item \in Items
                                       /\ log[p].ver \in Nat \ {0}
                                       /\ log[p].prev \in Nat
<1> DEFINE S == [item : Items, ver : Nat \ {0}, prev : Nat]
<1>1. log \in Seq(S)
  BY Zenon DEF TypeOK
<1> HIDE DEF S
<1>2. Len(log) \in Nat /\ \A p \in 1 .. Len(log) : log[p] \in S
  BY <1>1
<1> QED
  BY Zenon, <1>2 DEF S

(* the rows of the indexes, *)
LEMMA RowsTyped ==
    ASSUME TypeOK
    PROVE  \A x \in Indexes, i \in Items, k \in Keys :
              /\ rows[x][i][k] \in [rev : Nat, val : Vals \cup {Gone}]
              /\ rows[x][i][k].rev \in Nat
<1>1. \A x \in Indexes, i \in Items, k \in Keys :
         rows[x][i][k] \in [rev : Nat, val : Vals \cup {Gone}]
  BY DEF TypeOK
<1> QED
  BY Zenon, <1>1

(* the builds, *)
LEMMA BuildsTyped ==
    ASSUME TypeOK
    PROVE  \A x \in Indexes : builds[x].cursor \in Nat /\ builds[x].bound \in Nat
<1>1. \A x \in Indexes : builds[x] \in [phase : Phases, cursor : Nat, bound : Nat]
  BY Zenon DEF TypeOK, Build
<1> QED
  BY Zenon, <1>1

(* and the cleanup's frontier. *)
LEMMA FrontierTyped ==
    ASSUME TypeOK
    PROVE  frontier.retired \in Nat /\ frontier.cleaned \in Nat
<1>1. frontier \in [retired : Nat, cleaned : Nat, sweep : Sweep]
  BY Zenon DEF TypeOK
<1> QED
  BY Zenon, <1>1

(* An image that is not there has no key, and a live one's value is a value. *)
LEMMA ImageTypes ==
    /\ Versions \subseteq Nat \ {0}
    /\ \A i \in Items : MaxVersion[i] \in Nat /\ 1 .. MaxVersion[i] \subseteq Versions
    /\ \A k \in Keys : k # NoKey
    /\ \A img \in Images \cup {Absent} :
          /\ img.key \in Keys \cup {NoKey}
          /\ img.key # NoKey => img \in Images
          /\ \A x : img.key # NoKey => Projected(x, img) \in Vals /\ Projected(x, img) # Gone
<1>1. Versions \subseteq Nat \ {0}
  BY GsiAssumption DEF Versions
<1>2. \A i \in Items : MaxVersion[i] \in Nat /\ 1 .. MaxVersion[i] \subseteq Versions
  BY Zenon, GsiAssumption DEF Versions
<1>3. \A k \in Keys : k # NoKey
  BY Zenon, GsiAssumption
<1>4. \A img \in Images : img.key \in Keys \cup {NoKey} /\ img.val \in Vals
  BY Zenon, GsiAssumption
<1>5. Absent.key = NoKey
  BY Zenon DEF Absent
<1>6. \A img \in Images : \A x : Projected(x, img) \in Vals /\ Projected(x, img) # Gone
  BY Zenon, GsiAssumption, <1>4 DEF Projected
<1> QED
  BY Zenon, <1>1, <1>2, <1>3, <1>4, <1>5, <1>6

-----------------------------------------------------------------------------
(* What the parts of the invariant depend on                               *)

(* The part of the invariant on builds and streams depends on nothing else. *)
LEMMA CaptureFrame ==
    ASSUME CaptureHeld, UNCHANGED <<builds, stream>>
    PROVE  CaptureHeld'
BY Zenon DEF CaptureHeld, Candidates, Runnable

(* The images the next writes need depend on the items, their histories and   *)
(* the place of the stream's initialization.                               *)
LEMMA CurrentImageFrame ==
    ASSUME CurrentImageHeld, UNCHANGED <<stream, base, history, pending>>
    PROVE  CurrentImageHeld'
BY Zenon DEF CurrentImageHeld, Live

(* An entry is held, and means the same, while log and histories are.       *)
LEMMA SourcesFrame ==
    ASSUME UNCHANGED <<log, history>>
    PROVE  /\ \A p : Held(p)' <=> Held(p)
           /\ \A x, p : StreamSources(x, p)' = StreamSources(x, p)
<1>1. \A p : Held(p)' <=> Held(p)
  BY Zenon DEF Held
<1>2. \A p : OldImage(p)' = OldImage(p) /\ NewImage(p)' = NewImage(p)
  BY Zenon DEF OldImage, NewImage
<1> QED
  BY ZenonT(60), <1>1, <1>2 DEF StreamSources, Source, Projected

(* The cleanup's promise depends on the log, the histories and the frontier. *)
LEMMA HistoryHeldFrame ==
    ASSUME HistoryHeld, UNCHANGED <<log, history>>, frontier'.retired = frontier.retired
    PROVE  HistoryHeld'
BY Zenon DEF HistoryHeld, Held

(* The order of the stream depends on the log and the items. *)
LEMMA LogFrame ==
    ASSUME LogOrdered, UNCHANGED <<log, base>>
    PROVE  LogOrdered'
BY Zenon DEF LogOrdered

(* What the images are of depends on the log, the histories and the items. *)
LEMMA HistoryExactFrame ==
    ASSUME HistoryExact, UNCHANGED <<log, history, base>>
    PROVE  HistoryExact'
BY ZenonT(60) DEF HistoryExact, Live

(* The order of the builds depends on the builds, their rows and the log. *)
LEMMA BuildsFrame ==
    ASSUME BuildsOrdered, UNCHANGED <<builds, created, rows, log>>
    PROVE  BuildsOrdered'
BY Zenon DEF BuildsOrdered, Runnable

(* The truth of the rows depends on the rows, their builds and the items. *)
LEMMA RowsFrame ==
    ASSUME RowsTrue, UNCHANGED <<builds, rows, base>>
    PROVE  RowsTrue'
BY DEF RowsTrue, Targets, Existing

(* What the rows have seen depends on all of these and on the histories. *)
LEMMA SeenFrame ==
    ASSUME SourcesSeen, UNCHANGED <<builds, rows, base, log, history>>
    PROVE  SourcesSeen'
<1>1. Targets' = Targets /\ \A x : Unread(x)' = Unread(x)
  BY Zenon DEF Targets, Existing, Unread, Runnable
<1>2. \A x, row, s : Seen(x, row, s)' <=> Seen(x, row, s)
  BY Zenon DEF Seen
<1> QED
  BY Zenon, <1>1, <1>2, SourcesFrame DEF SourcesSeen

-----------------------------------------------------------------------------
(* Item writes                                                             *)

(* The delete of an absent item keeps the invariant: only its revision moves. *)
LEMMA DeleteAbsentKeeps ==
    ASSUME GsiInvariant, NEW i \in Items, DeleteAbsent(i)
    PROVE  GsiInvariant'
<1> DEFINE moved == [base EXCEPT ![i].rev = @ + 1]
<1>1. /\ TypeOK /\ CaptureHeld /\ CurrentImageHeld /\ HistoryHeld /\ LogOrdered
      /\ HistoryExact /\ BuildsOrdered /\ RowsTrue /\ SourcesSeen
      /\ frontier.cleaned <= frontier.retired /\ frontier.retired <= Len(log)
  BY Zenon DEF GsiInvariant
<1>2. /\ UNCHANGED <<log, history, rows, builds, created, updates, stream, pending, frontier,
                     trimmed, turn>>
      /\ ~ Live(i) /\ base[i].rev < MaxVersion[i] /\ base' = moved
  BY Zenon DEF DeleteAbsent, Unwritten
<1>3. /\ \A j \in Items : /\ base'[j].img = base[j].img
                          /\ base[j].rev \in Nat /\ base'[j].rev \in Nat
                          /\ base[j].rev <= base'[j].rev
                          /\ j # i => base'[j] = base[j]
      /\ base'[i].rev = base[i].rev + 1
      /\ base' \in [Items -> [rev : Nat, img : Images \cup {Absent}]]
  <2>1. base \in [Items -> [rev : Nat, img : Images \cup {Absent}]]
    BY Zenon, <1>1 DEF TypeOK
  <2> QED
    BY <1>2, <2>1
<1>4. \A j \in Items : Live(j)' <=> Live(j)
  BY Zenon, <1>3 DEF Live
<1>5. TypeOK'
  BY Zenon, <1>1, <1>2, <1>3 DEF TypeOK
<1>6. CaptureHeld' /\ HistoryHeld' /\ BuildsOrdered'
  BY Zenon, <1>1, <1>2, CaptureFrame, HistoryHeldFrame, BuildsFrame
<1>7. CurrentImageHeld'
  <2>1. \A j \in Items : Live(j) => j # i
    BY Zenon, <1>2
  <2> QED
    BY Zenon, <1>1, <1>2, <1>3, <1>4, <2>1 DEF CurrentImageHeld
<1>8. LogOrdered'
  <2>1. \A p \in 1 .. Len(log) : log[p].item \in Items /\ log[p].ver \in Nat
    BY Zenon, <1>1, LogTyped
  <2>2. \A p \in 1 .. Len(log) : log[p].ver <= base'[log[p].item].rev
    BY SMTT(60), <1>1, <1>3, <2>1 DEF LogOrdered
  <2> QED
    BY Zenon, <1>1, <1>2, <2>2 DEF LogOrdered
<1>9. HistoryExact'
  <2>1. \A j \in Items : base'[j].rev <= MaxVersion[j] /\ (Live(j)' => base'[j].rev > 0)
    <3>1. MaxVersion[i] \in Nat
      BY Zenon, GsiAssumption
    <3> QED
      BY <1>1, <1>2, <1>3, <1>4, <3>1 DEF HistoryExact
  <2>2. Versions \subseteq Nat
    BY GsiAssumption DEF Versions
  <2>3. ASSUME NEW j \in Items, NEW v \in Versions, history[j][v] # NoEntry
        PROVE  v <= base'[j].rev /\ (v = base'[j].rev => history[j][v].img = base'[j].img)
    <3>1. v <= base[j].rev /\ (v = base[j].rev => history[j][v].img = base[j].img)
      BY Zenon, <1>1, <2>3 DEF HistoryExact
    <3> QED
      BY <1>3, <2>2, <3>1
  <2> QED
    BY ZenonT(60), <1>1, <1>2, <2>1, <2>3 DEF HistoryExact
<1>10. Targets' = Targets /\ \A x : Unread(x)' = Unread(x)
  BY Zenon, <1>2 DEF Targets, Existing, Unread, Runnable
<1>11. RowsTrue'
  <2>1. \A x \in Targets : x \in Indexes
    BY Zenon DEF Targets, Existing
  <2>2. ASSUME NEW x \in Targets, NEW j \in Items, NEW k \in Keys
        PROVE  rows[x][j][k].rev <= base'[j].rev
    <3>1. rows[x][j][k].rev \in Nat /\ rows[x][j][k].rev <= base[j].rev
      BY <1>1, <2>1 DEF RowsTrue, TypeOK
    <3> QED
      BY <1>3, <3>1
  <2> QED
    BY SMTT(60), <1>1, <1>2, <1>3, <1>10, <2>2 DEF RowsTrue, Projected
<1>12. SourcesSeen'
  <2>1. \A x, p : \A s \in StreamSources(x, p) : s.item = log[p].item
    BY DEF StreamSources, Source
  <2>2. \A p \in 1 .. Len(log) : log[p].item \in Items
    BY Zenon, <1>1, LogTyped
  <2>3. \A x, row, s : s.item \in Items => (Seen(x, row, s)' <=> Seen(x, row, s))
    BY ZenonT(60), <1>3 DEF Seen
  <2>4. \A x : \A p \in Unread(x) : p \in 1 .. Len(log)
    BY Zenon DEF Unread
  <2> QED
    BY <1>1, <1>2, <1>10, <2>1, <2>2, <2>3, <2>4, SourcesFrame DEF SourcesSeen
<1> QED
  BY Zenon, <1>1, <1>2, <1>5, <1>6, <1>7, <1>8, <1>9, <1>11, <1>12 DEF GsiInvariant
(* What a write does to the items and to the rows of the indexes, one by one. *)
Wrote(i, new) ==
    /\ \A j \in Items \ {i} : base'[j] = base[j]
    /\ base'[i].rev = base[i].rev + 1 /\ base'[i].img = new
    /\ base'[i].rev <= MaxVersion[i]
    /\ \A x \in Indexes, j \in Items, k \in Keys :
          rows'[x][j][k] = IF x \in Targets /\ j = i
                           THEN LiveRow(x, rows[x][i][k], k, base[i].img, new, base[i].rev + 1)
                           ELSE rows[x][j][k]
    /\ \A x \in Indexes \ Targets : rows'[x] = rows[x]

(* The entry it adds to the stream, and the images it leaves in the history. *)
Recorded(i, new) ==
    /\ Len(log') = Len(log) + 1
    /\ \A p \in 1 .. Len(log) : log'[p] = log[p]
    /\ log'[Len(log) + 1] = [item |-> i, ver |-> base[i].rev + 1,
                             prev |-> IF base[i].img = Absent THEN 0 ELSE base[i].rev]
    /\ \A j \in Items \ {i} : history'[j] = history[j]
    /\ history'[i][base[i].rev + 1] = [img |-> new, pos |-> Len(log) + 1]
    /\ \A v \in Versions \ {base[i].rev + 1} :
          \/ history'[i][v] = history[i][v]
          \/ /\ v = base[i].rev /\ history[i][v] = NoEntry
             /\ history'[i][v] = [img |-> base[i].img, pos |-> 0]
    /\ Live(i) => /\ history'[i][base[i].rev] # NoEntry
                  /\ history'[i][base[i].rev].img = base[i].img

Logged(i, new) ==
    IF RequiresStreamEntry(stream) THEN Recorded(i, new) ELSE UNCHANGED <<log, history>>

(* The row a live write leaves is a row. *)
LEMMA LiveRowType ==
    ASSUME TypeOK, NEW x \in Indexes, NEW i \in Items, NEW k \in Keys,
           NEW new \in Images \cup {Absent}
    PROVE  LiveRow(x, rows[x][i][k], k, base[i].img, new, base[i].rev + 1)
              \in [rev : Nat, val : Vals \cup {Gone}]
<1>1. rows[x][i][k] \in [rev : Nat, val : Vals \cup {Gone}] /\ base[i].rev + 1 \in Nat
  BY BaseTyped, RowsTyped
<1>2. k = new.key => Projected(x, new) \in Vals
  BY Zenon, ImageTypes
<1> QED
  BY Zenon, <1>1, <1>2 DEF LiveRow

(* The writes of items, rows, log and history (prepare_accepted_upsert,       *)
(* prepare_accepted_delete): the image before the write is in the history     *)
(* whenever the write has an entry, anchored now or held already.            *)
LEMMA WriteSteps ==
    ASSUME GsiInvariant, NEW i \in Items, NEW new \in Images \cup {Absent},
           Write(i, new), UNCHANGED Unwritten
    PROVE  TypeOK' /\ Wrote(i, new) /\ Logged(i, new)
<1> DEFINE rev == base[i].rev + 1
           old == base[i].img
<1>1. TypeOK /\ HistoryExact /\ CurrentImageHeld
  BY Zenon DEF GsiInvariant
<1>2. /\ rev <= MaxVersion[i]
      /\ base' = [base EXCEPT ![i] = [rev |-> rev, img |-> new]]
      /\ ProjectLive(i, old, new, rev)
      /\ CaptureHistory(i, old, new, rev)
  BY Zenon DEF Write
<1>3. UNCHANGED <<builds, created, updates, stream, pending, frontier, trimmed, turn>>
  BY Zenon DEF Unwritten
<1>4. base[i].rev \in Nat /\ old \in Images \cup {Absent} /\ rev \in Nat /\ rev \in Versions
  <2>1. base[i].rev \in Nat /\ old \in Images \cup {Absent}
    BY Zenon, <1>1, BaseTyped
  <2>2. MaxVersion[i] \in Nat /\ 1 .. MaxVersion[i] \subseteq Versions
    BY Zenon, ImageTypes
  <2> QED
    BY <1>2, <2>1, <2>2
<1>5. /\ base' \in [Items -> [rev : Nat, img : Images \cup {Absent}]]
      /\ \A j \in Items \ {i} : base'[j] = base[j]
      /\ base'[i].rev = rev /\ base'[i].img = new
  <2>1. base \in [Items -> [rev : Nat, img : Images \cup {Absent}]]
    BY Zenon, <1>1 DEF TypeOK
  <2> HIDE DEF rev
  <2> QED
    BY Zenon, <1>2, <1>4, <2>1
<1>6. /\ rows' \in [Indexes -> [Items -> [Keys -> [rev : Nat, val : Vals \cup {Gone}]]]]
      /\ \A x \in Indexes, j \in Items, k \in Keys :
            rows'[x][j][k] = IF x \in Targets /\ j = i
                             THEN LiveRow(x, rows[x][i][k], k, old, new, rev)
                             ELSE rows[x][j][k]
      /\ \A x \in Indexes \ Targets : rows'[x] = rows[x]
  <2> DEFINE R == [rev : Nat, val : Vals \cup {Gone}]
             L(x, k) == LiveRow(x, rows[x][i][k], k, old, new, rev)
  <2>1. rows \in [Indexes -> [Items -> [Keys -> R]]]
    BY <1>1, Zenon DEF TypeOK
  <2>2. \A x \in Indexes, k \in Keys : L(x, k) \in R
    BY Zenon, <1>1, LiveRowType
  <2>3. rows' = [x \in Indexes |-> IF x \notin Targets THEN rows[x]
                                   ELSE [rows[x] EXCEPT ![i] = [k \in Keys |-> L(x, k)]]]
    BY <1>2, Zenon DEF ProjectLive
  <2> HIDE DEF R, L
  <2>4. \A x \in Indexes \ Targets : rows'[x] = rows[x]
    BY Zenon, <2>3
  <2>5. \A x \in Indexes : rows'[x] \in [Items -> [Keys -> R]]
    BY Zenon, <2>1, <2>2, <2>3
  <2>6. \A x \in Indexes, j \in Items, k \in Keys :
           rows'[x][j][k] = IF x \in Targets /\ j = i THEN L(x, k) ELSE rows[x][j][k]
    BY Zenon, <2>1, <2>3
  <2>7. rows' \in [Indexes -> [Items -> [Keys -> R]]]
    BY Zenon, <2>3, <2>5
  <2> QED
    BY <2>4, <2>6, <2>7, Zenon DEF R, L
<1>7. /\ log' \in Seq([item : Items, ver : Nat \ {0}, prev : Nat])
      /\ history' \in [Items -> [Versions -> [img : Images \cup {Absent}, pos : Int]]]
      /\ Logged(i, new)
  <2> DEFINE E == [item : Items, ver : Nat \ {0}, prev : Nat]
             H == [img : Images \cup {Absent}, pos : Int]
             entry == [item |-> i, ver |-> rev, prev |-> IF old = Absent THEN 0 ELSE base[i].rev]
             before == IF NeedsAnchor(i) THEN Anchored(i) ELSE history[i]
             image == [img |-> new, pos |-> Len(log) + 1]
  <2>1. log \in Seq(E) /\ history \in [Items -> [Versions -> H]]
    BY <1>1, Zenon DEF TypeOK
  <2>2. Len(log) \in Nat
    BY Zenon, <1>1, LogTyped
  <2>3. CASE ~ RequiresStreamEntry(stream)
    BY <1>2, <2>1, <2>3, Zenon DEF CaptureHistory, Logged
  <2>4. CASE RequiresStreamEntry(stream)
    <3>1. log' = Append(log, entry) /\ history' = [history EXCEPT ![i] = [before EXCEPT ![rev] = image]]
      BY <1>2, <2>4, Zenon DEF CaptureHistory
    <3>2. entry \in E /\ image \in H
      BY <1>4, <2>2
    <3>3. /\ before \in [Versions -> H]
          /\ \A v \in Versions :
                \/ before[v] = history[i][v]
                \/ /\ v = base[i].rev /\ history[i][v] = NoEntry
                   /\ before[v] = [img |-> old, pos |-> 0]
      <4>1. history[i] \in [Versions -> H] /\ [img |-> old, pos |-> 0] \in H
        BY <1>4, <2>1
      <4>2. NeedsAnchor(i) => history[i][base[i].rev] = NoEntry
        BY Zenon DEF NeedsAnchor
      <4> HIDE DEF H
      <4> QED
        BY Zenon, <4>1, <4>2 DEF Anchored
    <3>4. Live(i) => before[base[i].rev] # NoEntry /\ before[base[i].rev].img = old
      <4> SUFFICES ASSUME Live(i) PROVE before[base[i].rev] # NoEntry /\ before[base[i].rev].img = old
        BY Zenon
      <4>1. base[i].rev \in Versions
        <5>1. base[i].rev > 0 /\ base[i].rev <= MaxVersion[i]
          BY Zenon, <1>1 DEF HistoryExact
        <5> QED
          BY <1>4, <5>1, ImageTypes
      <4>2. CASE NeedsAnchor(i)
        <5>1. before[base[i].rev] = [img |-> old, pos |-> 0]
          BY Zenon, <2>1, <4>1, <4>2 DEF Anchored
        <5> QED
          BY <5>1 DEF NoEntry
      <4>3. CASE ~ NeedsAnchor(i)
        <5>1. before = history[i]
          BY Zenon, <4>3
        <5>2. history[i][base[i].rev] # NoEntry
          <6>1. CASE stream.updating \/ ~ stream.public
            BY Zenon, <4>3, <6>1 DEF NeedsAnchor
          <6>2. CASE ~ stream.updating /\ stream.public
            BY Zenon, <1>1, <6>2 DEF CurrentImageHeld
          <6> QED
            BY Zenon, <6>1, <6>2
        <5>3. history[i][base[i].rev].img = old
          BY Zenon, <1>1, <4>1, <5>2 DEF HistoryExact
        <5> HIDE DEF before
        <5> QED
          BY Zenon, <5>1, <5>2, <5>3
      <4> QED
        BY Zenon, <4>2, <4>3
    <3> HIDE DEF E, H, entry, before, image
    <3>5. log' \in Seq(E) /\ Len(log') = Len(log) + 1 /\ log'[Len(log) + 1] = entry
      BY <2>1, <2>2, <3>1, <3>2
    <3>6. \A p \in 1 .. Len(log) : log'[p] = log[p]
      BY <2>1, <2>2, <3>1, <3>2
    <3>7. history' \in [Items -> [Versions -> H]]
      BY Zenon, <2>1, <3>1, <3>2, <3>3
    <3>8. \A j \in Items \ {i} : history'[j] = history[j]
      BY Zenon, <2>1, <3>1
    <3>9. history'[i] = [before EXCEPT ![rev] = image]
      BY Zenon, <2>1, <3>1
    <3>10. history'[i][rev] = image
      BY Zenon, <1>4, <3>3, <3>9
    <3>11. \A v \in Versions \ {rev} : history'[i][v] = before[v]
      BY Zenon, <3>3, <3>9
    <3>12. Live(i) => history'[i][base[i].rev] # NoEntry /\ history'[i][base[i].rev].img = old
      <4>1. base[i].rev # rev
        BY <1>4
      <4>2. Live(i) => base[i].rev \in Versions
        <5>1. Live(i) => base[i].rev > 0 /\ base[i].rev <= MaxVersion[i]
          BY Zenon, <1>1 DEF HistoryExact
        <5> QED
          BY <1>4, <5>1, ImageTypes
      <4> HIDE DEF rev
      <4> QED
        BY Zenon, <3>4, <3>11, <4>1, <4>2
    <3>13. \A v \in Versions \ {rev} :
              \/ history'[i][v] = history[i][v]
              \/ /\ v = base[i].rev /\ history[i][v] = NoEntry
                 /\ history'[i][v] = [img |-> old, pos |-> 0]
      BY <3>3, <3>11, Zenon
    <3>14. Recorded(i, new)
      BY <3>5, <3>6, <3>8, <3>10, <3>12, <3>13, Zenon DEF Recorded, entry, image
    <3> QED
      BY <2>4, <3>5, <3>7, <3>14, Zenon DEF Logged, E, H
  <2> QED
    BY Zenon, <2>3, <2>4
<1>8. TypeOK'
  BY <1>1, <1>3, <1>5, <1>6, <1>7, Zenon DEF TypeOK
<1> QED
  BY <1>2, <1>5, <1>6, <1>7, <1>8, Zenon DEF Wrote

(* The versions an entry names are versions of its item. *)
LEMMA EntryVersions ==
    ASSUME TypeOK, LogOrdered, HistoryExact, NEW p \in 1 .. Len(log)
    PROVE  /\ log[p].item \in Items
           /\ log[p].ver \in Versions /\ log[p].ver <= base[log[p].item].rev
           /\ log[p].prev # 0 => /\ log[p].prev \in Versions /\ log[p].prev = log[p].ver - 1
                                 /\ log[p].prev < base[log[p].item].rev
<1>1. log[p].item \in Items /\ log[p].ver \in Nat \ {0} /\ log[p].prev \in Nat
  BY Zenon, LogTyped
<1>2. base[log[p].item].rev \in Nat
  BY Zenon, <1>1, BaseTyped, LogTyped
<1>3. log[p].prev \in {0, log[p].ver - 1} /\ log[p].ver <= base[log[p].item].rev
  BY Zenon DEF LogOrdered
<1>4. base[log[p].item].rev <= MaxVersion[log[p].item]
  BY Zenon, <1>1 DEF HistoryExact
<1>5. /\ MaxVersion[log[p].item] \in Nat
      /\ 1 .. MaxVersion[log[p].item] \subseteq Versions
  BY Zenon, <1>1, ImageTypes
<1>6. log[p].ver \in 1 .. MaxVersion[log[p].item]
  BY <1>1, <1>2, <1>3, <1>4, <1>5
<1>7. log[p].prev # 0 => /\ log[p].prev = log[p].ver - 1 /\ log[p].prev < base[log[p].item].rev
                         /\ log[p].prev \in 1 .. MaxVersion[log[p].item]
  BY SMTT(60), <1>1, <1>2, <1>3, <1>4, <1>5
<1> QED
  BY Zenon, <1>1, <1>3, <1>5, <1>6, <1>7

(* A history that gains only the current images of items, as anchors without   *)
(* an entry, holds the same entries of the stream with the same images.      *)
LEMMA AnchorsKeepEntries ==
    ASSUME TypeOK, LogOrdered, HistoryExact,
           \A p \in 1 .. Len(log) : log'[p] = log[p],
           \A j \in Items : \A v \in Versions : v <= base[j].rev =>
              \/ history'[j][v] = history[j][v]
              \/ v = base[j].rev /\ history[j][v] = NoEntry /\ history'[j][v].pos = 0,
           NEW p \in 1 .. Len(log)
    PROVE  /\ Held(p)' <=> Held(p)
           /\ Held(p) => \A x : StreamSources(x, p)' = StreamSources(x, p)
<1> DEFINE i == log[p].item
           v == log[p].ver
           u == log[p].prev
<1>1. /\ i \in Items /\ v \in Versions /\ v <= base[i].rev
      /\ u # 0 => u \in Versions /\ u < base[i].rev
  BY Zenon, EntryVersions
<1>2. log'[p] = log[p] /\ p \in Nat /\ p > 0
  OBVIOUS
<1>3. base[i].rev \in Nat /\ Versions \subseteq Nat
  BY Zenon, <1>1, BaseTyped, ImageTypes
<1> HIDE DEF i, v, u
<1>4. u # 0 => history'[i][u] = history[i][u]
  <2> SUFFICES ASSUME u # 0 PROVE history'[i][u] = history[i][u]
    BY Zenon
  <2>1. u \in Versions /\ u < base[i].rev
    BY Zenon, <1>1
  <2>2. u \in Nat
    BY Zenon, <1>3, <2>1
  <2>3. u <= base[i].rev /\ u # base[i].rev
    BY <1>3, <2>1, <2>2
  <2> QED
    BY Zenon, <1>1, <2>1, <2>3
<1>5. history[i][v].pos = p => history'[i][v] = history[i][v]
  <2>1. NoEntry.pos = -1
    BY Zenon DEF NoEntry
  <2> QED
    BY <1>1, <1>2, <2>1
<1>6. history'[i][v].pos = p => history'[i][v] = history[i][v]
  BY <1>1, <1>2
<1>7. Held(p)' <=> Held(p)
  BY Zenon, <1>2, <1>4, <1>5, <1>6 DEF Held, i, v, u
<1>8. Held(p) => OldImage(p)' = OldImage(p) /\ NewImage(p)' = NewImage(p)
  BY Zenon, <1>2, <1>4, <1>5 DEF Held, OldImage, NewImage, i, v, u
<1> QED
  BY Zenon, <1>2, <1>7, <1>8 DEF StreamSources, Source, Projected

(* The sources of an entry that is held are of its item and version, at keys. *)
LEMMA SourceTypes ==
    ASSUME TypeOK, LogOrdered, HistoryExact, NEW x, NEW p \in 1 .. Len(log), Held(p),
           NEW s \in StreamSources(x, p)
    PROVE  /\ s.item = log[p].item /\ s.ver = log[p].ver /\ s.key \in Keys
           /\ \/ s.val = Gone /\ s.key # NewImage(p).key
              \/ s.val # Gone /\ s.key = NewImage(p).key /\ s.val = Projected(x, NewImage(p))
<1> DEFINE I == Images \cup {Absent}
<1>1. /\ log[p].item \in Items /\ log[p].ver \in Versions
      /\ log[p].prev # 0 => log[p].prev \in Versions
  BY Zenon, EntryVersions
<1>2. \A j \in Items : \A v \in Versions : history[j][v].img \in I
  BY DEF TypeOK
<1>3. OldImage(p) \in I /\ NewImage(p) \in I
  BY Zenon, <1>1, <1>2 DEF OldImage, NewImage
<1>4. /\ OldImage(p).key \in Keys \cup {NoKey} /\ NewImage(p).key \in Keys \cup {NoKey}
      /\ NewImage(p).key # NoKey => Projected(x, NewImage(p)) # Gone
  BY Zenon, <1>3, ImageTypes
<1> QED
  BY <1>4 DEF StreamSources, Source

-----------------------------------------------------------------------------

(* After a write the stream holds the new image of the item. *)
LEMMA WriteKeepsCurrentImage ==
    ASSUME GsiInvariant, NEW i \in Items, NEW new \in Images \cup {Absent},
           Wrote(i, new), Logged(i, new), UNCHANGED <<stream, pending>>
    PROVE  CurrentImageHeld'
<1> SUFFICES ASSUME stream.public, NEW j \in Items, Live(j)', ~ stream.updating \/ j <= pending
             PROVE  history'[j][base'[j].rev] # NoEntry
  BY Zenon DEF CurrentImageHeld
<1>1. CurrentImageHeld /\ TypeOK
  BY Zenon DEF GsiInvariant
<1>2. Recorded(i, new)
  BY Zenon DEF Logged, RequiresStreamEntry
<1>3. CASE j = i
  <2>1. history'[i][base'[i].rev] = [img |-> new, pos |-> Len(log) + 1]
    BY Zenon, <1>2 DEF Recorded, Wrote
  <2>2. Len(log) \in Nat
    BY Zenon, <1>1, LogTyped
  <2> QED
    BY <1>3, <2>1, <2>2 DEF NoEntry
<1>4. CASE j # i
  <2>1. base'[j] = base[j] /\ history'[j] = history[j]
    BY Zenon, <1>2, <1>4 DEF Recorded, Wrote
  <2>2. Live(j)
    BY Zenon, <2>1 DEF Live
  <2> QED
    BY Zenon, <1>1, <2>1, <2>2 DEF CurrentImageHeld
<1> QED
  BY Zenon, <1>3, <1>4

(* What the older entries mean does not change when an item is written. *)
LEMMA WriteKeepsEntries ==
    ASSUME GsiInvariant, NEW i \in Items, NEW new \in Images \cup {Absent},
           Wrote(i, new), Logged(i, new)
    PROVE  /\ Len(log') \in Nat /\ Len(log) \in Nat /\ Len(log) <= Len(log')
           /\ \A p \in 1 .. Len(log) :
                 /\ log'[p] = log[p]
                 /\ Held(p)' <=> Held(p)
                 /\ Held(p) => \A x : StreamSources(x, p)' = StreamSources(x, p)
<1>1. TypeOK /\ LogOrdered /\ HistoryExact
  BY Zenon DEF GsiInvariant
<1>2. Len(log) \in Nat
  BY Zenon, <1>1, LogTyped
<1>3. CASE ~ RequiresStreamEntry(stream)
  <2>1. UNCHANGED <<log, history>>
    BY Zenon, <1>3 DEF Logged
  <2> QED
    BY <1>2, <2>1, SourcesFrame
<1>4. CASE RequiresStreamEntry(stream)
  <2>1. Recorded(i, new)
    BY Zenon, <1>4 DEF Logged
  <2>2. /\ Len(log') = Len(log) + 1
        /\ \A p \in 1 .. Len(log) : log'[p] = log[p]
    BY Zenon, <2>1 DEF Recorded
  <2>3. ASSUME NEW j \in Items, NEW v \in Versions, v <= base[j].rev
        PROVE  \/ history'[j][v] = history[j][v]
               \/ v = base[j].rev /\ history[j][v] = NoEntry /\ history'[j][v].pos = 0
    <3>1. CASE j # i
      BY Zenon, <2>1, <3>1 DEF Recorded
    <3>2. CASE j = i
      <4>1. v # base[i].rev + 1
        BY <1>1, <2>3, <3>2, BaseTyped, ImageTypes
      <4>2. \/ history'[i][v] = history[i][v]
            \/ /\ v = base[i].rev /\ history[i][v] = NoEntry
               /\ history'[i][v] = [img |-> base[i].img, pos |-> 0]
        BY Zenon, <2>1, <4>1 DEF Recorded
      <4> QED
        BY <3>2, <4>2
    <3> QED
      BY Zenon, <3>1, <3>2
  <2> QED
    BY <1>1, <1>2, <2>2, <2>3, AnchorsKeepEntries
<1> QED
  BY Zenon, <1>3, <1>4

(* The entry a write adds is held, with the images before and after it. *)
LEMMA WriteHoldsEntry ==
    ASSUME GsiInvariant, NEW i \in Items, NEW new \in Images \cup {Absent},
           Wrote(i, new), Recorded(i, new), NEW q \in Nat, q = Len(log) + 1
    PROVE  Held(q)' /\ OldImage(q)' = base[i].img /\ NewImage(q)' = new
<1>1. /\ log'[q].item = i /\ log'[q].ver = base[i].rev + 1
      /\ log'[q].prev = IF base[i].img = Absent THEN 0 ELSE base[i].rev
  BY DEF Recorded
<1>2. history'[i][base[i].rev + 1].pos = q /\ history'[i][base[i].rev + 1].img = new
  BY DEF Recorded
<1>3. base[i].img # Absent => /\ history'[i][base[i].rev] # NoEntry
                              /\ history'[i][base[i].rev].img = base[i].img
  BY Zenon DEF Recorded, Live
<1>4. base[i].img # Absent => base[i].rev # 0
  BY DEF GsiInvariant, HistoryExact, Live
<1>5. Held(q)'
  <2>1. log'[q].prev # 0 => history'[i][log'[q].prev] # NoEntry
    BY Zenon, <1>1, <1>3
  <2> QED
    BY Zenon, <1>1, <1>2, <2>1 DEF Held
<1>6. NewImage(q)' = new
  <2> QED
    BY <1>1, <1>2, Zenon DEF NewImage
<1>7. OldImage(q)' = base[i].img
  <2>1. CASE base[i].img = Absent
    <3>1. log'[q].prev = 0
      BY <1>1, <2>1, Zenon
    <3> QED
      BY <2>1, <3>1, Zenon DEF OldImage
  <2>2. CASE base[i].img # Absent
    <3>1. log'[q].prev = base[i].rev /\ log'[q].prev # 0
      BY <1>1, <1>4, <2>2, Zenon
    <3> QED
      BY <1>1, <1>3, <2>2, <3>1, Zenon DEF OldImage
  <2> QED
    BY Zenon, <2>1, <2>2
<1> QED
  BY Zenon, <1>5, <1>6, <1>7

(* The stream of an item stays in the order of its versions. *)
LEMMA WriteKeepsLog ==
    ASSUME GsiInvariant, NEW i \in Items, NEW new \in Images \cup {Absent},
           Wrote(i, new), Logged(i, new)
    PROVE  LogOrdered'
<1>1. TypeOK /\ LogOrdered
  BY Zenon DEF GsiInvariant
<1>2. \A j \in Items : base[j].rev \in Nat /\ base'[j].rev \in Nat /\ base[j].rev <= base'[j].rev
  BY <1>1, BaseTyped DEF Wrote
<1>3. /\ Len(log) \in Nat
      /\ \A p \in 1 .. Len(log) : /\ log[p].item \in Items /\ log[p].ver \in Nat
                                  /\ log[p].ver <= base[log[p].item].rev
  BY Zenon, <1>1, BaseTyped, LogTyped DEF LogOrdered
<1>4. \A p \in 1 .. Len(log) : log[p].ver <= base'[log[p].item].rev
  BY SMTT(60), <1>2, <1>3
<1>5. CASE ~ RequiresStreamEntry(stream)
  <2>1. log' = log
    BY Zenon, <1>5 DEF Logged
  <2> QED
    BY Zenon, <1>1, <1>4, <2>1 DEF LogOrdered
<1>6. CASE RequiresStreamEntry(stream)
  <2> DEFINE n == Len(log) + 1
  <2>1. Recorded(i, new)
    BY Zenon, <1>6 DEF Logged
  <2>2. /\ Len(log') = n
        /\ \A p \in 1 .. Len(log) : log'[p] = log[p]
        /\ log'[n].item = i /\ log'[n].ver = base[i].rev + 1
        /\ log'[n].prev \in {0, base[i].rev}
    BY SMTT(60), <2>1 DEF Recorded
  <2>3. base'[i].rev = base[i].rev + 1 /\ base[i].rev \in Nat
    BY Zenon, <1>2 DEF Wrote
  <2>4. \A p \in 1 .. n : p \in 1 .. Len(log) \/ p = n
    BY <1>3
  <2>5. ASSUME NEW p \in 1 .. Len(log)
        PROVE  /\ log'[p].prev \in {0, log'[p].ver - 1}
               /\ log'[p].ver <= base'[log'[p].item].rev
               /\ \A q \in 1 .. n : (q < p /\ log'[q].item = log'[p].item) =>
                                       log'[q].ver < log'[p].ver
    <3>1. \A q \in 1 .. n : q < p => q \in 1 .. Len(log)
      BY <1>3
    <3> QED
      BY Zenon, <1>1, <1>4, <2>2, <3>1 DEF LogOrdered
  <2>6. /\ log'[n].prev \in {0, log'[n].ver - 1}
        /\ log'[n].ver <= base'[log'[n].item].rev
    BY <2>2, <2>3
  <2>7. ASSUME NEW q \in 1 .. n, q < n, log'[q].item = log'[n].item
        PROVE  log'[q].ver < log'[n].ver
    <3>1. q \in 1 .. Len(log)
      BY <1>3, <2>7
    <3>2. log[q].item = i /\ log'[q] = log[q]
      BY Zenon, <2>2, <2>7, <3>1
    <3>3. log[q].ver \in Nat /\ log[q].ver <= base[i].rev
      BY Zenon, <1>3, <3>1, <3>2
    <3> QED
      BY SMTT(60), <2>2, <2>3, <3>2, <3>3
  <2> HIDE DEF n
  <2> QED
    BY Zenon, <2>2, <2>4, <2>5, <2>6, <2>7 DEF LogOrdered
<1> QED
  BY Zenon, <1>5, <1>6

(* Every image stays with its version and its entry. *)
LEMMA WriteKeepsHistory ==
    ASSUME GsiInvariant, NEW i \in Items, NEW new \in Images \cup {Absent},
           Wrote(i, new), Logged(i, new)
    PROVE  HistoryExact'
<1>1. TypeOK /\ HistoryExact
  BY Zenon DEF GsiInvariant
<1>2. /\ Len(log) \in Nat /\ base[i].rev \in Nat /\ Versions \subseteq Nat
      /\ base'[i].rev = base[i].rev + 1 /\ base'[i].img = new
      /\ base'[i].rev <= MaxVersion[i] /\ \A j \in Items \ {i} : base'[j] = base[j]
  BY Zenon, <1>1, BaseTyped, LogTyped, ImageTypes DEF Wrote
<1>3. /\ Len(log') \in Nat /\ Len(log) <= Len(log')
      /\ \A p \in 1 .. Len(log) : log'[p] = log[p]
  BY Zenon, WriteKeepsEntries
<1>4. \A j \in Items : base'[j].rev <= MaxVersion[j] /\ (Live(j)' => base'[j].rev > 0)
  BY SMTT(60), <1>1, <1>2 DEF HistoryExact, Live
<1> DEFINE Fits(j, v) ==
        /\ v <= base'[j].rev
        /\ v = base'[j].rev => history'[j][v].img = base'[j].img
        /\ history'[j][v].pos \in 0 .. Len(log')
        /\ history'[j][v].pos > 0 => /\ log'[history'[j][v].pos].item = j
                                    /\ log'[history'[j][v].pos].ver = v
<1>5. ASSUME NEW j \in Items, NEW v \in Versions, history[j][v] # NoEntry,
             history'[j][v] = history[j][v]
      PROVE  Fits(j, v)
  <2>1. /\ v <= base[j].rev
        /\ v = base[j].rev => history[j][v].img = base[j].img
        /\ history[j][v].pos \in 0 .. Len(log)
        /\ history[j][v].pos > 0 => /\ log[history[j][v].pos].item = j
                                   /\ log[history[j][v].pos].ver = v
    BY Zenon, <1>1, <1>5 DEF HistoryExact
  <2>2. v <= base'[j].rev /\ (v = base'[j].rev => history[j][v].img = base'[j].img)
    <3>1. CASE j = i
      BY SMTT(60), <1>2, <2>1, <3>1
    <3>2. CASE j # i
      BY Zenon, <1>2, <2>1, <3>2
    <3> QED
      BY Zenon, <3>1, <3>2
  <2>3. history[j][v].pos \in 0 .. Len(log')
    BY SMTT(60), <1>2, <1>3, <2>1
  <2>4. history[j][v].pos > 0 => log'[history[j][v].pos] = log[history[j][v].pos]
    BY SMTT(60), <1>2, <1>3, <2>1
  <2> QED
    BY Zenon, <1>5, <2>1, <2>2, <2>3, <2>4
<1>6. ASSUME NEW j \in Items, NEW v \in Versions, history'[j][v] # NoEntry
      PROVE  Fits(j, v)
  <2>1. CASE history'[j][v] = history[j][v]
    BY Zenon, <1>5, <1>6, <2>1
  <2>2. CASE history'[j][v] # history[j][v]
    <3>1. Recorded(i, new)
      BY Zenon, <2>2 DEF Logged
    <3>2. j = i
      BY Zenon, <2>2, <3>1 DEF Recorded
    <3>3. CASE v = base[i].rev + 1
      <4>1. history'[i][v] = [img |-> new, pos |-> Len(log) + 1]
        BY Zenon, <3>1, <3>3 DEF Recorded
      <4>2. /\ Len(log') = Len(log) + 1 /\ log'[Len(log) + 1].item = i
            /\ log'[Len(log) + 1].ver = v
        BY SMTT(60), <3>1, <3>3 DEF Recorded
      <4> QED
        BY <1>2, <3>2, <3>3, <4>1, <4>2
    <3>4. CASE v # base[i].rev + 1
      <4>1. v = base[i].rev /\ history'[i][v] = [img |-> base[i].img, pos |-> 0]
        BY Zenon, <2>2, <3>1, <3>2, <3>4 DEF Recorded
      <4> QED
        BY SMTT(60), <1>2, <1>3, <3>2, <4>1
    <3> QED
      BY Zenon, <3>3, <3>4
  <2> QED
    BY Zenon, <2>1, <2>2
<1> QED
  BY <1>4, <1>6, Zenon DEF HistoryExact

(* The rows of an index that takes the write stay true to the item. *)
LEMMA WriteKeepsRows ==
    ASSUME GsiInvariant, NEW i \in Items, NEW new \in Images \cup {Absent},
           Wrote(i, new), UNCHANGED builds
    PROVE  RowsTrue'
<1>1. TypeOK /\ RowsTrue
  BY Zenon DEF GsiInvariant
<1>2. Targets' = Targets /\ Targets \subseteq Indexes
  BY Zenon DEF Targets, Existing
<1> SUFFICES ASSUME NEW x \in Targets, NEW j \in Items, NEW k \in Keys
             PROVE  /\ rows'[x][j][k].rev <= base'[j].rev
                    /\ rows'[x][j][k].val # Gone =>
                          /\ base'[j].img.key = k
                          /\ rows'[x][j][k].val = Projected(x, base'[j].img)
                    /\ (rows'[x][j][k].val = Gone /\ base'[j].img.key = k) =>
                          /\ rows'[x][j][k] = NoRow
                          /\ builds[x].phase = "scanning" /\ j > builds[x].bound
  BY <1>2 DEF RowsTrue, Projected
<1> DEFINE row == rows[x][j][k]
           old == base[i].img
           rev == base[i].rev + 1
<1>3. x \in Indexes /\ row.rev \in Nat /\ base[i].rev \in Nat /\ rev \in Nat /\ rev > base[i].rev
  BY <1>1, <1>2, BaseTyped, RowsTyped
<1>4. /\ row.rev <= base[j].rev
      /\ row.val # Gone => base[j].img.key = k /\ row.val = Projected(x, base[j].img)
      /\ (row.val = Gone /\ base[j].img.key = k) =>
            row = NoRow /\ builds[x].phase = "scanning" /\ j > builds[x].bound
  BY SMTT(60), <1>1 DEF RowsTrue
<1>5. CASE j # i
  <2>1. rows'[x][j][k] = row /\ base'[j] = base[j]
    BY Zenon, <1>3, <1>5 DEF Wrote
  <2> QED
    BY Zenon, <1>4, <2>1
<1>6. CASE j = i
  <2>1. /\ rows'[x][i][k] = LiveRow(x, row, k, old, new, rev)
        /\ base'[i].rev = rev /\ base'[i].img = new
    BY Zenon, <1>3, <1>6 DEF Wrote
  <2>2. row.rev <= rev
    BY SMTT(60), <1>3, <1>4, <1>6
  <2> HIDE DEF rev
  <2>3. CASE k = new.key /\ SameProjection(x, old, new)
    <3>1. rows'[x][i][k] = row
      BY Zenon, <2>1, <2>3 DEF LiveRow
    <3>2. old.key = k /\ Projected(x, new) = Projected(x, old)
      BY <2>3 DEF SameProjection, Projected
    <3> HIDE DEF row, old
    <3> QED
      BY Zenon, <1>4, <1>6, <2>1, <2>2, <2>3, <3>1, <3>2 DEF old
  <2>4. CASE k = new.key /\ ~ SameProjection(x, old, new)
    <3>1. rows'[x][i][k] = [rev |-> rev, val |-> Projected(x, new)]
      BY Zenon, <2>1, <2>4 DEF LiveRow
    <3>2. rows'[x][i][k].rev = rev /\ rows'[x][i][k].val = Projected(x, new)
      BY <3>1
    <3>3. Projected(x, new) # Gone
      BY Zenon, <2>4, ImageTypes
    <3> QED
      BY SMTT(60), <1>3, <1>6, <2>1, <2>4, <3>2, <3>3
  <2>5. CASE k # new.key /\ k = old.key
    <3>1. rows'[x][i][k] = [rev |-> rev, val |-> Gone]
      BY Zenon, <2>1, <2>5 DEF LiveRow
    <3>2. rows'[x][i][k].rev = rev /\ rows'[x][i][k].val = Gone
      BY <3>1
    <3>3. base'[i].rev = rev /\ base'[i].img.key # k
      BY Zenon, <2>1, <2>5
    <3> HIDE DEF row, old
    <3> QED
      BY <1>3, <1>6, <3>2, <3>3
  <2>6. CASE k # new.key /\ k # old.key
    <3>1. rows'[x][i][k] = row
      BY Zenon, <2>1, <2>6 DEF LiveRow
    <3>2. row.val = Gone
      BY Zenon, <1>4, <1>6, <2>6
    <3> QED
      BY Zenon, <1>6, <2>1, <2>2, <2>6, <3>1, <3>2
  <2> QED
    BY Zenon, <2>3, <2>4, <2>5, <2>6
<1> QED
  BY Zenon, <1>5, <1>6

(* The rows have seen the write before a build reads its entry, and the entries *)
(* before it stay seen.                                                    *)
LEMMA WriteKeepsSeen ==
    ASSUME GsiInvariant, NEW i \in Items, NEW new \in Images \cup {Absent},
           Wrote(i, new), Logged(i, new), UNCHANGED builds
    PROVE  SourcesSeen'
<1>1. TypeOK /\ RowsTrue /\ SourcesSeen /\ LogOrdered /\ HistoryExact
  BY Zenon DEF GsiInvariant
<1>2. Targets' = Targets /\ Targets \subseteq Indexes
  BY Zenon DEF Targets, Existing
<1> SUFFICES ASSUME NEW x \in Targets, NEW p \in Unread(x)', Held(p)',
                    NEW s \in StreamSources(x, p)'
             PROVE  Seen(x, rows[x][s.item][s.key], s)'
  BY Zenon, <1>2 DEF SourcesSeen
<1> DEFINE row == rows[x][s.item][s.key]
           old == base[i].img
           rev == base[i].rev + 1
           k == s.key
<1>3. base[i].rev \in Nat /\ base'[i].rev = rev /\ base'[i].img = new
  BY Zenon, <1>1, BaseTyped DEF Wrote
<1>4. x \in Indexes /\ Runnable(builds[x]) /\ builds[x].cursor < p /\ p \in 1 .. Len(log')
  BY Zenon, <1>2 DEF Unread, Runnable
<1>5. ASSUME s.item = i, k \in Keys PROVE rows'[x][i][k] = LiveRow(x, row, k, old, new, rev)
  BY Zenon, <1>4, <1>5 DEF Wrote
<1>6. CASE p \in 1 .. Len(log)
  <2>1. Held(p) /\ s \in StreamSources(x, p)
    BY Zenon, <1>6, WriteKeepsEntries
  <2>2. /\ s.item = log[p].item /\ s.ver = log[p].ver /\ s.key \in Keys
        /\ log[p].item \in Items /\ log[p].ver \in Nat /\ log[p].ver <= base[log[p].item].rev
    BY ZenonT(60), <1>1, <1>6, <2>1, SourceTypes, EntryVersions, ImageTypes
  <2>3. p \in Unread(x)
    BY Zenon, <1>4, <1>6 DEF Unread
  <2>4. /\ row.rev = s.ver => ((row.val = Gone) <=> (s.val = Gone))
        /\ row.rev < s.ver => s.val # Gone /\ x \notin ProjectsAll /\ base[s.item].img.key = k
    BY Zenon, <1>1, <2>1, <2>3 DEF SourcesSeen, Seen
  <2>5. CASE s.item # i
    <3>1. rows'[x][s.item][s.key] = row /\ base'[s.item] = base[s.item]
      BY SMTT(60), <1>4, <2>2, <2>5 DEF Wrote
    <3> QED
      BY Zenon, <2>4, <3>1 DEF Seen
  <2>6. CASE s.item = i
    <3>1. s.ver \in Nat /\ s.ver <= base[i].rev /\ row.rev \in Nat
      BY Zenon, <1>1, <1>4, <2>2, <2>6, BaseTyped, RowsTyped
    <3>2. s.ver < rev
      BY SMTT(60), <1>3, <3>1
    <3>3. rows'[x][i][k] = LiveRow(x, row, k, old, new, rev)
      BY Zenon, <1>5, <2>2, <2>6
    <3> HIDE DEF rev
    <3>4. CASE k = new.key /\ SameProjection(x, old, new)
      <4>1. rows'[x][i][k] = row
        BY Zenon, <3>3, <3>4 DEF LiveRow
      <4> QED
        BY Zenon, <1>3, <2>4, <2>6, <3>4, <4>1 DEF Seen
    <3>5. CASE (k = new.key /\ ~ SameProjection(x, old, new)) \/ (k # new.key /\ k = old.key)
      <4>1. rows'[x][i][k].rev = rev
        BY SMTT(60), <3>3, <3>5 DEF LiveRow
      <4> QED
        BY SMTT(60), <1>3, <2>6, <3>1, <3>2, <4>1 DEF Seen, rev
    <3>6. CASE k # new.key /\ k # old.key
      <4>1. rows'[x][i][k] = row
        BY Zenon, <3>3, <3>6 DEF LiveRow
      <4>2. ~ (row.rev < s.ver)
        BY Zenon, <2>4, <2>6, <3>6
      <4> QED
        BY Zenon, <2>4, <2>6, <4>1, <4>2 DEF Seen
    <3> QED
      BY Zenon, <3>4, <3>5, <3>6
  <2> QED
    BY Zenon, <2>5, <2>6
<1>7. CASE p \notin 1 .. Len(log)
  <2>1. Recorded(i, new)
    BY Zenon, <1>4, <1>7 DEF Logged
  <2>2. p = Len(log) + 1
    <3>1. Len(log) \in Nat /\ Len(log') = Len(log) + 1
      BY Zenon, <1>1, <2>1, LogTyped DEF Recorded
    <3> QED
      BY <1>4, <1>7, <3>1
  <2>3. OldImage(p)' = old /\ NewImage(p)' = new /\ log'[p].item = i /\ log'[p].ver = rev
    <3>1. OldImage(p)' = old /\ NewImage(p)' = new
      <4>1. p \in Nat
        BY <1>4
      <4> QED
        BY <2>1, <2>2, <4>1, WriteHoldsEntry, Zenon
    <3>2. log'[p].item = i /\ log'[p].ver = rev
      BY SMTT(60), <2>1, <2>2 DEF Recorded
    <3> QED
      BY <3>1, <3>2, Zenon
  <2>4. old.key \in Keys \cup {NoKey} /\ new.key \in Keys \cup {NoKey}
    BY Zenon, <1>1, BaseTyped, ImageTypes
  <2> HIDE DEF rev, old
  <2>5. /\ s.item = i /\ s.ver = rev /\ s.key \in Keys
        /\ \/ s.val = Gone /\ k = old.key /\ k # new.key
           \/ s.val = Projected(x, new) /\ k = new.key
    <3>1. \/ /\ old.key \notin {NoKey, new.key} /\ s = Source(i, old.key, rev, Gone)
          \/ /\ new.key # NoKey /\ s = Source(i, new.key, rev, Projected(x, new))
      <4>1. s \in (IF old.key \notin {NoKey, new.key}
                  THEN {Source(i, old.key, rev, Gone)} ELSE {})
                 \cup (IF new.key # NoKey THEN {Source(i, new.key, rev, Projected(x, new))}
                       ELSE {})
        BY <2>3, Zenon DEF StreamSources, Source, Projected
      <4> QED
        BY <4>1, Zenon
    <3> HIDE DEF k
    <3>2. \A key, val : Source(i, key, rev, val).item = i /\ Source(i, key, rev, val).ver = rev
                       /\ Source(i, key, rev, val).key = key /\ Source(i, key, rev, val).val = val
      BY Zenon DEF Source
    <3> QED
      BY SMTT(60), <2>4, <3>1, <3>2 DEF k
  <2>6. rows'[x][i][k] = LiveRow(x, row, k, old, new, rev)
    BY Zenon, <1>5, <2>5
  <2>7. row.rev \in Nat /\ row.rev <= base[i].rev
    BY Zenon, <1>1, <1>4, <2>5, BaseTyped, RowsTyped DEF RowsTrue
  <2>8. CASE s.val = Gone /\ k = old.key /\ k # new.key
    <3>1. rows'[x][i][k] = [rev |-> rev, val |-> Gone]
      BY Zenon, <2>6, <2>8 DEF LiveRow
    <3>2. rows'[x][i][k].rev = rev /\ rows'[x][i][k].val = Gone
      BY SMTT(60), <3>1
    <3> QED
      BY SMTT(60), <1>3, <2>5, <2>8, <3>2 DEF Seen, rev
  <2>9. CASE k = new.key /\ s.val = Projected(x, new)
    <3>1. Projected(x, new) # Gone
      BY Zenon, <2>5, <2>9, ImageTypes
    <3>2. CASE SameProjection(x, old, new)
      <4>1. rows'[x][i][k] = row /\ x \notin ProjectsAll
        BY Zenon, <2>6, <2>9, <3>2 DEF LiveRow, SameProjection
      <4>2. row.rev # s.ver
        BY SMTT(60), <1>3, <2>5, <2>7 DEF rev
      <4> QED
        BY Zenon, <1>3, <2>5, <2>9, <3>1, <4>1, <4>2 DEF Seen
    <3>3. CASE ~ SameProjection(x, old, new)
      <4>1. rows'[x][i][k] = [rev |-> rev, val |-> Projected(x, new)]
        BY Zenon, <2>6, <2>9, <3>3 DEF LiveRow
      <4>2. rows'[x][i][k].rev = rev /\ rows'[x][i][k].val = Projected(x, new)
        BY SMTT(60), <4>1
      <4> QED
        BY SMTT(60), <1>3, <2>5, <2>9, <3>1, <4>2 DEF Seen, rev
    <3> QED
      BY Zenon, <3>2, <3>3
  <2> QED
    BY Zenon, <2>5, <2>8, <2>9
<1> QED
  BY Zenon, <1>6, <1>7

(* The put or the delete of an item keeps the invariant. *)
LEMMA WriteKeeps ==
    ASSUME GsiInvariant, NEW i \in Items, NEW new \in Images \cup {Absent},
           Write(i, new), UNCHANGED Unwritten
    PROVE  GsiInvariant'
<1>1. TypeOK' /\ Wrote(i, new) /\ Logged(i, new)
  BY Zenon, WriteSteps
<1>2. /\ TypeOK /\ CaptureHeld /\ HistoryHeld /\ BuildsOrdered
      /\ frontier.cleaned <= frontier.retired /\ frontier.retired <= Len(log)
  BY Zenon DEF GsiInvariant
<1>3. UNCHANGED <<builds, created, updates, stream, pending, frontier, trimmed, turn>>
  BY Zenon DEF Unwritten
<1>4. /\ Len(log') \in Nat /\ Len(log) \in Nat /\ Len(log) <= Len(log')
      /\ \A p \in 1 .. Len(log) : Held(p)' <=> Held(p)
  BY Zenon, <1>1, WriteKeepsEntries
<1>5. frontier.retired \in Nat
  BY Zenon, <1>2, FrontierTyped
<1>6. frontier'.cleaned <= frontier'.retired /\ frontier'.retired <= Len(log')
  BY <1>2, <1>3, <1>4, <1>5
<1>7. CaptureHeld'
  BY Zenon, <1>2, <1>3, CaptureFrame
<1>8. HistoryHeld'
  <2>1. ASSUME NEW p \in frontier.retired + 1 .. Len(log') PROVE Held(p)'
    <3>1. CASE p <= Len(log)
      <4>1. p \in frontier.retired + 1 .. Len(log) /\ p \in 1 .. Len(log)
        BY <1>4, <1>5, <3>1
      <4> QED
        BY Zenon, <1>2, <1>4, <4>1 DEF HistoryHeld
    <3>2. CASE ~ (p <= Len(log))
      <4>1. Recorded(i, new)
        BY <1>1, <1>4, <1>5, <3>2 DEF Logged
      <4>2. p = Len(log) + 1
        <5>1. Len(log') = Len(log) + 1
          BY Zenon, <4>1 DEF Recorded
        <5> QED
          BY <1>4, <1>5, <3>2, <5>1
      <4> QED
        BY <1>1, <1>4, <4>1, <4>2, WriteHoldsEntry
    <3> QED
      BY Zenon, <3>1, <3>2
  <2> QED
    BY Zenon, <1>3, <2>1 DEF HistoryHeld
<1>9. BuildsOrdered'
  <2>1. \A x \in Indexes : x > created => rows'[x] = rows[x]
    <3>1. \A x \in Indexes : x > created => x \notin Targets
      <4>1. NoBuild.phase = "none"
        BY Zenon DEF NoBuild
      <4>2. \A x \in Indexes : x > created => builds[x] = NoBuild
        BY Zenon, <1>2 DEF BuildsOrdered
      <4> QED
        BY Zenon, <4>1, <4>2 DEF Targets, Existing
    <3> QED
      BY Zenon, <1>1, <3>1 DEF Wrote
  <2>2. \A x \in Indexes : builds[x].cursor \in Nat /\ builds[x].bound \in Nat
    BY Zenon, <1>2, BuildsTyped
  <2>3. \A x \in Indexes :
           /\ Runnable(builds[x]) => builds[x].cursor <= Len(log')
           /\ builds[x].phase = "catching_up" =>
                 builds[x].cursor <= builds[x].bound /\ builds[x].bound <= Len(log')
    BY <1>2, <1>4, <2>2 DEF BuildsOrdered
  <2> QED
    BY Zenon, <1>2, <1>3, <2>1, <2>3 DEF BuildsOrdered, Runnable
<1>10. CurrentImageHeld'
  BY Zenon, <1>1, <1>3, WriteKeepsCurrentImage
<1>11. LogOrdered' /\ HistoryExact'
  BY Zenon, <1>1, WriteKeepsLog, WriteKeepsHistory
<1>12. RowsTrue' /\ SourcesSeen'
  BY Zenon, <1>1, <1>3, WriteKeepsRows, WriteKeepsSeen
<1> QED
  BY <1>1, <1>6, <1>7, <1>8, <1>9, <1>10, <1>11, <1>12, Zenon DEF GsiInvariant

-----------------------------------------------------------------------------
(* Sets of numbers                                                         *)

(* What the steps of builds and cleanups need of sets of numbers, of pages of  *)
(* items and of the two oldest entries of a history (shown in              *)
(* GsiBackfillProofs).                                                     *)
SmallestExists ==
    \A S \in SUBSET Nat : S # {} => Min(S) \in S /\ \A n \in S : Min(S) <= n

LargestExists ==
    \A S \in SUBSET Nat, b \in Nat :
        (S # {} /\ \A n \in S : n <= b) => Max(S) \in S /\ \A n \in S : n <= Max(S)

PagesInOrder ==
    \A after \in Int :
        /\ Page(after) \subseteq Following(after)
        /\ Following(after) \subseteq Items
        /\ More(after) =>
              /\ Max(Page(after)) \in Page(after)
              /\ \A i \in Following(after) : i <= Max(Page(after)) => i \in Page(after)

OldestFirst ==
    \A entries \in SUBSET Nat : \A v \in entries : (\A w \in entries : v <= w) =>
        /\ Cardinality({w \in entries : w < v}) < 2
        /\ \A n \in entries : n = v + 1 => Cardinality({w \in entries : w < n}) < 2

SetFacts == SmallestExists /\ LargestExists /\ PagesInOrder /\ OldestFirst

-----------------------------------------------------------------------------
(* One index among the others                                              *)

(* What the invariant says of one index. *)
RowsTrueOf(x) ==
    \A i \in Items, k \in Keys :
        /\ rows[x][i][k].rev <= base[i].rev
        /\ rows[x][i][k].val # Gone =>
              /\ base[i].img.key = k
              /\ rows[x][i][k].val = Projected(x, base[i].img)
        /\ (rows[x][i][k].val = Gone /\ base[i].img.key = k) =>
              /\ rows[x][i][k] = NoRow
              /\ builds[x].phase = "scanning" /\ i > builds[x].bound

SeenOf(x) ==
    \A p \in Unread(x) : Held(p) =>
        \A s \in StreamSources(x, p) : Seen(x, rows[x][s.item][s.key], s)

OrderedOf(x) ==
    /\ x > created =>
          /\ builds[x] = NoBuild
          /\ rows[x] = [i \in Items |-> [k \in Keys |-> NoRow]]
    /\ Runnable(builds[x]) => builds[x].cursor <= Len(log)
    /\ builds[x].phase = "catching_up" =>
          builds[x].cursor <= builds[x].bound /\ builds[x].bound <= Len(log)

(* A step that changes the build and the rows of one index alone, and neither  *)
(* items nor streams, keeps what the invariant says of the others.           *)
LEMMA OtherIndexes ==
    ASSUME BuildsOrdered, RowsTrue, SourcesSeen, created \in Nat, created' \in Nat,
           created <= created', UNCHANGED <<base, log, history>>, Indexes \subseteq Nat,
           NEW x \in Indexes,
           \A y \in Indexes \ {x} : builds'[y] = builds[y] /\ rows'[y] = rows[y],
           OrderedOf(x)', x \in Targets' => RowsTrueOf(x)' /\ SeenOf(x)'
    PROVE  BuildsOrdered' /\ RowsTrue' /\ SourcesSeen'
<1>1. BuildsOrdered'
  <2>1. \A y \in Indexes \ {x} : y > created' => y > created
    OBVIOUS
  <2>2. \A y \in Indexes \ {x} : OrderedOf(y)
    BY Zenon DEF BuildsOrdered, OrderedOf
  <2>3. \A y \in Indexes \ {x} : OrderedOf(y)'
    BY Zenon, <2>1, <2>2 DEF OrderedOf, Runnable
  <2>4. \A y \in Indexes : OrderedOf(y)'
    BY Zenon, <2>3
  <2> QED
    BY Zenon, <2>4 DEF BuildsOrdered, OrderedOf
<1>2. \A y \in Indexes \ {x} : y \in Targets' => y \in Targets
  BY Zenon DEF Targets, Existing
<1>3. RowsTrue'
  <2>1. \A y \in Targets : RowsTrueOf(y)
    BY Zenon DEF RowsTrue, RowsTrueOf
  <2>2. ASSUME NEW y \in Indexes \ {x}, RowsTrueOf(y) PROVE RowsTrueOf(y)'
    <3>1. rows'[y] = rows[y] /\ builds'[y] = builds[y] /\ base' = base
      BY Zenon
    <3> QED
      BY SMTT(60), <2>2, <3>1 DEF RowsTrueOf, Projected
  <2>3. \A y \in Targets' : RowsTrueOf(y)'
    BY Zenon, <1>2, <2>1, <2>2 DEF Targets, Existing
  <2> QED
    BY Zenon, <2>3 DEF RowsTrue, RowsTrueOf
<1>4. SourcesSeen'
  <2>1. \A y \in Targets : SeenOf(y)
    BY Zenon DEF SourcesSeen, SeenOf
  <2>2. ASSUME NEW y \in Indexes \ {x}, SeenOf(y) PROVE SeenOf(y)'
    <3>1. Unread(y)' = Unread(y) /\ rows'[y] = rows[y]
      BY Zenon DEF Unread, Runnable
    <3>2. \A row, s : Seen(y, row, s)' <=> Seen(y, row, s)
      BY Zenon DEF Seen
    <3> QED
      BY SMTT(60), <2>2, <3>1, <3>2, SourcesFrame DEF SeenOf
  <2>3. \A y \in Targets' : SeenOf(y)'
    BY Zenon, <1>2, <2>1, <2>2 DEF Targets, Existing
  <2> QED
    BY Zenon, <2>3 DEF SourcesSeen, SeenOf
<1> QED
  BY Zenon, <1>1, <1>3, <1>4

-----------------------------------------------------------------------------
(* Table updates                                                           *)

(* A stream that stops starts a sweep and moves nothing else of the frontier. *)
LEMMA StoppedKeeps ==
    ASSUME TypeOK, NEW next
    PROVE  /\ Stopped(next) \in [retired : Nat, cleaned : Nat, sweep : Sweep]
           /\ Stopped(next).retired = frontier.retired
           /\ Stopped(next).cleaned = frontier.cleaned
<1>1. frontier \in [retired : Nat, cleaned : Nat, sweep : Sweep]
  BY Zenon DEF TypeOK
<1>2. NewSweep \in Sweep
  BY Zenon DEF NewSweep, Sweep
<1> QED
  BY Zenon, <1>1, <1>2 DEF Stopped

(* The settings a request leaves: a stream that was public stays as it was or   *)
(* ends, and one that was not is to be initialized (configure_stream).       *)
LEMMA ConfiguredSettings ==
    ASSUME TypeOK, NEW request \in {"keep", "enable", "disable"}
    PROVE  /\ Configured(request) \in [public : BOOLEAN, updating : BOOLEAN, capture : SUBSET Indexes]
           /\ Configured(request).capture = stream.capture
           /\ Configured(request).public =>
                 \/ stream.public /\ Configured(request).updating = stream.updating
                 \/ ~ stream.public /\ Configured(request).updating
           /\ request # "disable" /\ stream.public => Configured(request).public
<1>1. stream \in [public : BOOLEAN, updating : BOOLEAN, capture : SUBSET Indexes]
  BY Zenon DEF TypeOK
<1>2. CASE request = "keep"
  BY Zenon, <1>1, <1>2 DEF Configured
<1>3. CASE request = "enable"
  <2>1. Configured(request) = [stream EXCEPT !.public = TRUE, !.updating = @ \/ ~ stream.public]
    BY Zenon, <1>3 DEF Configured
  <2> QED
    BY Zenon, <1>1, <2>1
<1>4. CASE request = "disable"
  <2>1. Configured(request) = [stream EXCEPT !.public = FALSE, !.updating = FALSE]
    BY Zenon, <1>4 DEF Configured
  <2> QED
    BY Zenon, <1>1, <1>4, <2>1
<1> QED
  BY Zenon, <1>2, <1>3, <1>4

(* A table update that changes settings to next, with the public part of the   *)
(* request, keeps the images the next writes need.                          *)
LEMMA SettingsKeepImages ==
    ASSUME TypeOK, CurrentImageHeld, NEW request \in {"keep", "enable", "disable"}, NEW next,
           next.public = Configured(request).public, next.updating = Configured(request).updating,
           stream' = next, pending' = Initialization(next), UNCHANGED <<base, history>>
    PROVE  CurrentImageHeld' /\ pending' \in Int
<1>1. pending \in Int /\ \A i \in Items : i \in Nat /\ i > 0
  BY GsiAssumption DEF TypeOK, Items
<1>2. CASE stream'.public /\ stream.public
  <2>1. stream'.updating = stream.updating /\ pending' = pending
    BY Zenon, <1>2, ConfiguredSettings DEF Initialization
  <2> QED
    BY Zenon, <1>1, <1>2, <2>1 DEF CurrentImageHeld, Live
<1>3. CASE stream'.public /\ ~ stream.public
  <2>1. stream'.updating /\ pending' = 0
    BY Zenon, <1>3, ConfiguredSettings DEF Initialization
  <2> QED
    BY <1>1, <2>1 DEF CurrentImageHeld
<1>4. CASE ~ stream'.public
  BY Zenon, <1>1, <1>4 DEF CurrentImageHeld, Initialization
<1> QED
  BY Zenon, <1>2, <1>3, <1>4

(* A build that was fed stays fed: the stream it reads is public, captured for *)
(* it, or not released.                                                    *)
LEMMA SettingsKeepCapture ==
    ASSUME TypeOK, CaptureHeld, NEW request \in {"keep", "enable", "disable"}, NEW next, NEW kept,
           next.public = Configured(request).public,
           StreamReleased(request, next, kept),
           NEW y \in Candidates, y \in kept, y \in stream.capture => y \in next.capture
    PROVE  next.public \/ y \in next.capture
<1>1. CASE y \in stream.capture
  BY Zenon, <1>1
<1>2. CASE y \notin stream.capture
  <2>1. stream.public /\ builds[y].phase # "active"
    BY Zenon, <1>2 DEF CaptureHeld, Candidates, Runnable
  <2>2. CASE request = "disable"
    BY Zenon, <2>1, <2>2 DEF StreamReleased
  <2>3. CASE request # "disable"
    BY Zenon, <2>1, <2>3, ConfiguredSettings
  <2> QED
    BY Zenon, <2>2, <2>3
<1> QED
  BY Zenon, <1>1, <1>2

(* The settings of the stream alone (UpdateTable with a stream specification). *)
LEMMA UpdateStreamKeeps ==
    ASSUME GsiInvariant, NEW request \in {"enable", "disable"}, UpdateStream(request),
           updates' = updates + 1, UNCHANGED <<base, log, history, trimmed, turn>>
    PROVE  GsiInvariant'
<1> DEFINE next == Configured(request)
<1>1. /\ TypeOK /\ CaptureHeld /\ CurrentImageHeld /\ HistoryHeld /\ LogOrdered
      /\ HistoryExact /\ BuildsOrdered /\ RowsTrue /\ SourcesSeen
      /\ frontier.cleaned <= frontier.retired /\ frontier.retired <= Len(log)
  BY Zenon DEF GsiInvariant
<1>2. /\ StreamReleased(request, next, Existing) /\ stream' = next
      /\ frontier' = Stopped(next) /\ pending' = Initialization(next)
      /\ UNCHANGED <<builds, rows, created>>
  BY Zenon DEF UpdateStream
<1>3. request \in {"keep", "enable", "disable"}
  BY Zenon
<1>4. /\ frontier' \in [retired : Nat, cleaned : Nat, sweep : Sweep]
      /\ frontier'.retired = frontier.retired /\ frontier'.cleaned = frontier.cleaned
  BY Zenon, <1>1, <1>2, StoppedKeeps
<1>5. CurrentImageHeld' /\ pending' \in Int
  BY Zenon, <1>1, <1>2, <1>3, SettingsKeepImages
<1>6. next \in [public : BOOLEAN, updating : BOOLEAN, capture : SUBSET Indexes]
  BY Zenon, <1>1, <1>3, ConfiguredSettings
<1>7. TypeOK'
  <2>1. updates' \in Nat
    BY SMTT(60), <1>1 DEF TypeOK
  <2> HIDE DEF next
  <2> QED
    BY Zenon, <1>1, <1>2, <1>4, <1>5, <1>6, <2>1 DEF TypeOK
<1>8. CaptureHeld'
  <2>1. Candidates' = Candidates /\ Candidates \subseteq Existing
    BY Zenon, <1>2 DEF Candidates, Existing, Runnable
  <2>2. next.capture = stream.capture
    BY Zenon, <1>1, <1>3, ConfiguredSettings
  <2>3. \A y \in Candidates : next.public \/ y \in next.capture
    BY Zenon, <1>1, <1>2, <1>3, <2>1, <2>2, SettingsKeepCapture
  <2> QED
    BY Zenon, <1>2, <2>1, <2>3 DEF CaptureHeld
<1>9. HistoryHeld' /\ LogOrdered' /\ HistoryExact'
  BY Zenon, <1>1, <1>4, HistoryHeldFrame, LogFrame, HistoryExactFrame
<1>10. BuildsOrdered' /\ RowsTrue' /\ SourcesSeen'
  BY Zenon, <1>1, <1>2, BuildsFrame, RowsFrame, SeenFrame
<1>11. frontier'.cleaned <= frontier'.retired /\ frontier'.retired <= Len(log')
  BY Zenon, <1>1, <1>4
<1> QED
  BY <1>5, <1>7, <1>8, <1>9, <1>10, <1>11, Zenon DEF GsiInvariant

(* A new index (register_created_index): nothing of the stream before it is its *)
(* build's to read, and its rows are empty.                                 *)
LEMMA CreateIndexKeeps ==
    ASSUME GsiInvariant, NEW request \in {"keep", "enable", "disable"}, CreateIndex(request),
           updates' = updates + 1, UNCHANGED <<base, log, history, trimmed, turn>>
    PROVE  GsiInvariant'
<1>0. PICK x \in Indexes : x = created + 1
  BY Zenon DEF CreateIndex
<1> DEFINE configured == Configured(request)
           next == IF configured.public THEN configured
                   ELSE [configured EXCEPT !.capture = @ \cup {x}]
           started == [phase |-> "scanning", cursor |-> Len(log), bound |-> 0]
<1>1. /\ TypeOK /\ CaptureHeld /\ CurrentImageHeld /\ HistoryHeld /\ LogOrdered
      /\ HistoryExact /\ BuildsOrdered /\ RowsTrue /\ SourcesSeen
      /\ frontier.cleaned <= frontier.retired /\ frontier.retired <= Len(log)
  BY Zenon DEF GsiInvariant
<1>2. /\ x \in Indexes /\ StreamReleased(request, next, Existing \cup {x})
      /\ created' = x /\ builds' = [builds EXCEPT ![x] = started]
      /\ stream' = next /\ frontier' = Stopped(next) /\ pending' = Initialization(next)
      /\ rows' = rows
  BY Zenon, <1>0 DEF CreateIndex
<1>3. /\ created \in Nat /\ x \in Nat /\ Indexes \subseteq Nat /\ created <= x /\ x > created
      /\ Len(log) \in Nat
  BY SMTT(60), <1>0, <1>1, LogTyped, GsiAssumption DEF TypeOK
<1>4. /\ frontier' \in [retired : Nat, cleaned : Nat, sweep : Sweep]
      /\ frontier'.retired = frontier.retired /\ frontier'.cleaned = frontier.cleaned
  BY Zenon, <1>1, <1>2, StoppedKeeps
<1>5. /\ next \in [public : BOOLEAN, updating : BOOLEAN, capture : SUBSET Indexes]
      /\ next.public = configured.public /\ next.updating = configured.updating
      /\ stream.capture \subseteq next.capture /\ (next.public \/ x \in next.capture)
  <2>1. /\ configured \in [public : BOOLEAN, updating : BOOLEAN, capture : SUBSET Indexes]
        /\ configured.capture = stream.capture
    BY Zenon, <1>1, ConfiguredSettings
  <2> HIDE DEF configured
  <2> QED
    BY Zenon, <1>2, <2>1
<1> HIDE DEF next
<1>6. CurrentImageHeld' /\ pending' \in Int
  BY Zenon, <1>1, <1>2, <1>5, SettingsKeepImages
<1>7. /\ builds' \in [Indexes -> Build] /\ builds'[x] = started
      /\ \A y \in Indexes \ {x} : builds'[y] = builds[y]
  <2>1. started \in Build
    BY Zenon, <1>3 DEF Build, Phases
  <2>2. builds \in [Indexes -> Build]
    BY <1>1, Zenon DEF TypeOK
  <2> HIDE DEF started
  <2> QED
    BY Zenon, <1>2, <2>1, <2>2
<1>8. TypeOK'
  <2>1. updates' \in Nat
    BY SMTT(60), <1>1 DEF TypeOK
  <2> QED
    BY Zenon, <1>1, <1>2, <1>3, <1>4, <1>5, <1>6, <1>7, <2>1 DEF TypeOK
<1>9. CaptureHeld'
  <2>1. \A y \in Candidates' : y = x \/ y \in Candidates
    BY Zenon, <1>7 DEF Candidates, Runnable
  <2>2. Candidates \subseteq Existing \cup {x}
    BY Zenon DEF Candidates, Existing, Runnable
  <2>3. \A y \in Candidates : next.public \/ y \in next.capture
    BY Zenon, <1>1, <1>2, <1>5, <2>2, SettingsKeepCapture
  <2> QED
    BY Zenon, <1>2, <1>5, <2>1, <2>3 DEF CaptureHeld
<1>10. HistoryHeld' /\ LogOrdered' /\ HistoryExact'
  BY Zenon, <1>1, <1>4, HistoryHeldFrame, LogFrame, HistoryExactFrame
<1>11. started.phase = "scanning" /\ started.cursor = Len(log) /\ started.bound = 0
  BY Zenon
<1> HIDE DEF started
<1>12. OrderedOf(x)'
  BY SMTT(60), <1>2, <1>3, <1>7, <1>11 DEF OrderedOf
<1>13. RowsTrueOf(x)'
  <2>1. rows[x] = [i \in Items |-> [k \in Keys |-> NoRow]]
    BY Zenon, <1>1, <1>2, <1>3 DEF BuildsOrdered
  <2>2. \A i \in Items, k \in Keys : rows'[x][i][k] = NoRow
    BY <1>2, <2>1
  <2>3. NoRow.rev = 0 /\ NoRow.val = Gone
    BY Zenon DEF NoRow
  <2>4. \A i \in Items : base'[i].rev \in Nat /\ i \in Nat /\ i > 0
    BY <1>1, BaseTyped, GsiAssumption DEF Items
  <2> QED
    BY SMTT(60), <1>7, <1>11, <2>2, <2>3, <2>4 DEF RowsTrueOf
<1>14. SeenOf(x)'
  <2>1. Unread(x)' = {}
    BY <1>3, <1>7, <1>11 DEF Unread
  <2> QED
    BY Zenon, <2>1 DEF SeenOf
<1>15. BuildsOrdered' /\ RowsTrue' /\ SourcesSeen'
  BY Zenon, <1>1, <1>2, <1>3, <1>7, <1>12, <1>13, <1>14, OtherIndexes
<1>16. frontier'.cleaned <= frontier'.retired /\ frontier'.retired <= Len(log')
  BY Zenon, <1>1, <1>4
<1> QED
  BY <1>6, <1>8, <1>9, <1>10, <1>15, <1>16, Zenon DEF GsiInvariant

(* The delete of an index takes its build, its rows and its capture. *)
LEMMA DeleteIndexKeeps ==
    ASSUME GsiInvariant, NEW request \in {"keep", "enable", "disable"}, NEW x \in Indexes,
           DeleteIndex(request, x),
           updates' = updates + 1, UNCHANGED <<base, log, history, trimmed, turn>>
    PROVE  GsiInvariant'
<1> DEFINE configured == Configured(request)
           next == [configured EXCEPT !.capture = @ \ {x}]
           empty == [i \in Items |-> [k \in Keys |-> NoRow]]
<1>1. /\ TypeOK /\ CaptureHeld /\ CurrentImageHeld /\ HistoryHeld /\ LogOrdered
      /\ HistoryExact /\ BuildsOrdered /\ RowsTrue /\ SourcesSeen
      /\ frontier.cleaned <= frontier.retired /\ frontier.retired <= Len(log)
  BY Zenon DEF GsiInvariant
<1>2. /\ StreamReleased(request, next, Existing \ {x})
      /\ builds' = [builds EXCEPT ![x] = NoBuild] /\ rows' = [rows EXCEPT ![x] = empty]
      /\ stream' = next /\ frontier' = Stopped(next) /\ pending' = Initialization(next)
      /\ created' = created
  BY Zenon DEF DeleteIndex
<1>3. created \in Nat /\ Indexes \subseteq Nat /\ Len(log) \in Nat
  BY Zenon, <1>1, LogTyped, GsiAssumption DEF TypeOK
<1>4. /\ frontier' \in [retired : Nat, cleaned : Nat, sweep : Sweep]
      /\ frontier'.retired = frontier.retired /\ frontier'.cleaned = frontier.cleaned
  BY Zenon, <1>1, <1>2, StoppedKeeps
<1>5. /\ next \in [public : BOOLEAN, updating : BOOLEAN, capture : SUBSET Indexes]
      /\ next.public = configured.public /\ next.updating = configured.updating
      /\ next.capture = stream.capture \ {x}
  <2>1. /\ configured \in [public : BOOLEAN, updating : BOOLEAN, capture : SUBSET Indexes]
        /\ configured.capture = stream.capture
    BY Zenon, <1>1, ConfiguredSettings
  <2> HIDE DEF configured
  <2> QED
    BY Zenon, <2>1
<1> HIDE DEF next
<1>6. CurrentImageHeld' /\ pending' \in Int
  BY Zenon, <1>1, <1>2, <1>5, SettingsKeepImages
<1>7. /\ builds' \in [Indexes -> Build] /\ builds'[x] = NoBuild
      /\ \A y \in Indexes \ {x} : builds'[y] = builds[y]
  <2>1. NoBuild \in Build
    BY Zenon DEF NoBuild, Build, Phases
  <2>2. builds \in [Indexes -> Build]
    BY <1>1, Zenon DEF TypeOK
  <2> QED
    BY Zenon, <1>2, <2>1, <2>2
<1>8. /\ rows' \in [Indexes -> [Items -> [Keys -> [rev : Nat, val : Vals \cup {Gone}]]]]
      /\ rows'[x] = empty /\ \A y \in Indexes \ {x} : rows'[y] = rows[y]
  <2> DEFINE R == [rev : Nat, val : Vals \cup {Gone}]
  <2>1. NoRow \in R
    BY Zenon DEF NoRow
  <2>2. rows \in [Indexes -> [Items -> [Keys -> R]]]
    BY <1>1, Zenon DEF TypeOK
  <2> HIDE DEF R
  <2>3. empty \in [Items -> [Keys -> R]]
    BY Zenon, <2>1
  <2> HIDE DEF empty
  <2>4. rows' \in [Indexes -> [Items -> [Keys -> R]]]
    BY Zenon, <1>2, <2>2, <2>3
  <2>5. rows'[x] = empty /\ \A y \in Indexes \ {x} : rows'[y] = rows[y]
    BY Zenon, <1>2, <2>2
  <2> QED
    BY <2>4, <2>5, Zenon DEF R
<1>9. TypeOK'
  <2>1. updates' \in Nat
    BY SMTT(60), <1>1 DEF TypeOK
  <2> QED
    BY <1>1, <1>2, <1>4, <1>5, <1>6, <1>7, <1>8, <2>1, Zenon DEF TypeOK
<1>10. NoBuild.phase = "none"
  BY Zenon DEF NoBuild
<1>11. CaptureHeld'
  <2>1. \A y \in Candidates' : y # x /\ y \in Candidates
    BY Zenon, <1>7, <1>10 DEF Candidates, Runnable
  <2>2. \A y \in Candidates : y # x => y \in Existing \ {x}
    BY Zenon DEF Candidates, Existing, Runnable
  <2>3. \A y \in Candidates : y # x => next.public \/ y \in next.capture
    BY Zenon, <1>1, <1>2, <1>5, <2>2, SettingsKeepCapture
  <2> QED
    BY Zenon, <1>2, <2>1, <2>3 DEF CaptureHeld
<1>12. HistoryHeld' /\ LogOrdered' /\ HistoryExact'
  BY Zenon, <1>1, <1>4, HistoryHeldFrame, LogFrame, HistoryExactFrame
<1>13. OrderedOf(x)' /\ x \notin Targets'
  BY Zenon, <1>7, <1>8, <1>10 DEF OrderedOf, Runnable, Targets, Existing
<1>14. BuildsOrdered' /\ RowsTrue' /\ SourcesSeen'
  BY SMTT(60), <1>1, <1>2, <1>3, <1>7, <1>8, <1>13, OtherIndexes
<1>15. frontier'.cleaned <= frontier'.retired /\ frontier'.retired <= Len(log')
  BY Zenon, <1>1, <1>4
<1> QED
  BY <1>6, <1>9, <1>11, <1>12, <1>14, <1>15, Zenon DEF GsiInvariant

(* A table update keeps the invariant. *)
LEMMA UpdateTableKeeps ==
    ASSUME GsiInvariant, UpdateTable
    PROVE  GsiInvariant'
BY Zenon, UpdateStreamKeeps, CreateIndexKeeps, DeleteIndexKeeps DEF UpdateTable

-----------------------------------------------------------------------------
(* The initialization of a stream                                          *)

(* A page of the initialization keeps the invariant: it anchors the images of  *)
(* items that have none, so no entry changes its meaning, and what it passed   *)
(* is held when the stream is declared initialized.                        *)
LEMMA InitializeStreamKeeps ==
    ASSUME GsiInvariant, PagesInOrder, InitializeStream
    PROVE  GsiInvariant'
<1>1. /\ TypeOK /\ CaptureHeld /\ CurrentImageHeld /\ HistoryHeld /\ LogOrdered
      /\ HistoryExact /\ BuildsOrdered /\ RowsTrue /\ SourcesSeen
      /\ frontier.cleaned <= frontier.retired /\ frontier.retired <= Len(log)
  BY Zenon DEF GsiInvariant
<1>2. UNCHANGED <<base, log, rows, builds, created, updates, frontier, trimmed, turn>>
  BY Zenon DEF InitializeStream
<1>3. LogOrdered' /\ BuildsOrdered' /\ RowsTrue'
  BY Zenon, <1>1, <1>2, LogFrame, BuildsFrame, RowsFrame
<1>4. pending \in Int /\ stream \in [public : BOOLEAN, updating : BOOLEAN, capture : SUBSET Indexes]
  BY <1>1, Zenon DEF TypeOK
<1>5. frontier'.cleaned <= frontier'.retired /\ frontier'.retired <= Len(log')
  BY Zenon, <1>1, <1>2
<1>6. CASE ~ (stream.updating /\ stream.public)
  <2>1. pending' = NoInitialization /\ UNCHANGED <<history, stream>>
    BY Zenon, <1>6 DEF InitializeStream
  <2>2. TypeOK'
    <3>1. pending' \in Int
      BY <2>1 DEF NoInitialization
    <3> QED
      BY Zenon, <1>1, <1>2, <2>1, <3>1 DEF TypeOK
  <2>3. CurrentImageHeld'
    BY Zenon, <1>1, <1>2, <1>6, <2>1 DEF CurrentImageHeld, Live
  <2>4. CaptureHeld' /\ HistoryHeld' /\ HistoryExact' /\ SourcesSeen'
    BY Zenon, <1>1, <1>2, <2>1, CaptureFrame, HistoryHeldFrame, HistoryExactFrame, SeenFrame
  <2> QED
    BY <1>3, <1>5, <2>2, <2>3, <2>4, Zenon DEF GsiInvariant
<1>7. CASE stream.updating /\ stream.public
  <2> DEFINE page == Page(pending)
             anchor(i) == [img |-> base[i].img, pos |-> 0]
             anchors(i) == i \in page /\ history[i][base[i].rev] = NoEntry
             H == [img : Images \cup {Absent}, pos : Int]
  <2>1. /\ history' = [i \in Items |-> IF anchors(i) THEN Anchored(i) ELSE history[i]]
        /\ IF More(pending)
           THEN pending' = Max(page) /\ UNCHANGED stream
           ELSE /\ pending' = NoInitialization
                /\ stream' = [stream EXCEPT !.updating = FALSE, !.capture = {}]
    BY ZenonT(60), <1>7 DEF InitializeStream
  <2>2. /\ page \subseteq Following(pending) /\ Following(pending) \subseteq Items
        /\ More(pending) =>
              /\ Max(page) \in page
              /\ \A i \in Following(pending) : i <= Max(page) => i \in page
    BY Zenon, <1>4 DEF PagesInOrder
  <2> HIDE DEF page
  <2>3. \A i \in page : i \in Items /\ Live(i)
    BY Zenon, <2>2 DEF Following
  <2>4. \A i \in Items : Live(i) => base[i].rev \in Versions
    <3>1. \A i \in Items : base[i].rev \in Nat /\ base[i].rev <= MaxVersion[i]
                           /\ (Live(i) => base[i].rev > 0)
      BY Zenon, <1>1, BaseTyped DEF HistoryExact
    <3> QED
      BY SMTT(60), <3>1, ImageTypes
  <2>5. /\ history' \in [Items -> [Versions -> H]]
        /\ \A i \in Items : anchors(i) => history'[i] = [history[i] EXCEPT ![base[i].rev] = anchor(i)]
        /\ \A i \in Items : ~ anchors(i) => history'[i] = history[i]
    <3>1. history \in [Items -> [Versions -> H]]
      BY <1>1, Zenon DEF TypeOK
    <3>2. \A i \in Items : anchor(i) \in H
      BY <1>1, BaseTyped
    <3> HIDE DEF H, anchor, anchors
    <3>3. \A i \in Items : Anchored(i) = [history[i] EXCEPT ![base[i].rev] = anchor(i)]
      BY Zenon DEF Anchored, anchor
    <3> QED
      BY <2>1, <3>1, <3>2, <3>3
  <2>6. ASSUME NEW i \in Items, NEW v \in Versions
        PROVE  \/ history'[i][v] = history[i][v]
               \/ /\ v = base[i].rev /\ history[i][v] = NoEntry /\ anchors(i)
                  /\ history'[i][v] = anchor(i)
    <3>1. CASE anchors(i) /\ v = base[i].rev
      <4>1. history[i] \in [Versions -> H]
        BY Zenon, <1>1 DEF TypeOK
      <4> HIDE DEF H, anchor
      <4> QED
        BY Zenon, <2>5, <3>1, <4>1
    <3>2. CASE ~ (anchors(i) /\ v = base[i].rev)
      <4>1. history[i] \in [Versions -> H]
        BY Zenon, <1>1 DEF TypeOK
      <4> HIDE DEF H, anchor, anchors
      <4> QED
        BY Zenon, <2>5, <3>2, <4>1
    <3> QED
      BY Zenon, <3>1, <3>2
  <2>7. \A i \in Items : anchor(i).pos = 0 /\ anchor(i).img = base[i].img /\ anchor(i) # NoEntry
    BY DEF NoEntry
  <2>8. \A i \in page : history'[i][base[i].rev] # NoEntry
    <3>1. ASSUME NEW i \in page PROVE history'[i][base[i].rev] # NoEntry
      <4>1. i \in Items /\ base[i].rev \in Versions
        BY Zenon, <2>3, <2>4
      <4>2. CASE history[i][base[i].rev] # NoEntry
        BY Zenon, <2>6, <2>7, <4>1, <4>2
      <4>3. CASE history[i][base[i].rev] = NoEntry
        <5>1. anchors(i) /\ history[i] \in [Versions -> H]
          BY Zenon, <1>1, <4>1, <4>3 DEF TypeOK
        <5>2. history'[i][base[i].rev] = anchor(i)
          <6> HIDE DEF anchors, anchor, H
          <6> QED
            BY SMTT(60), <2>5, <4>1, <5>1
        <5> QED
          BY Zenon, <2>7, <4>1, <5>2
      <4> QED
        BY Zenon, <4>2, <4>3
    <3> QED
      BY Zenon, <3>1
  <2> HIDE DEF anchor, anchors
  <2>9. \A p \in 1 .. Len(log) :
           /\ Held(p)' <=> Held(p)
           /\ Held(p) => \A x : StreamSources(x, p)' = StreamSources(x, p)
    BY Zenon, <1>1, <1>2, <2>6, <2>7, AnchorsKeepEntries
  <2>10. TypeOK'
    <3>1. Max(page) \in Items => Max(page) \in Int
      BY SMTT(60), GsiAssumption DEF Items
    <3>2. pending' \in Int
      BY <2>1, <2>2, <3>1 DEF NoInitialization
    <3>3. stream' \in [public : BOOLEAN, updating : BOOLEAN, capture : SUBSET Indexes]
      BY Zenon, <1>4, <2>1
    <3> QED
      BY <1>1, <1>2, <2>5, <3>2, <3>3, Zenon DEF TypeOK
  <2>11. stream'.public = TRUE /\ (stream'.updating <=> More(pending))
    BY Zenon, <1>4, <1>7, <2>1
  <2>12. CaptureHeld'
    BY Zenon, <2>11 DEF CaptureHeld
  <2>13. CurrentImageHeld'
    <3> SUFFICES ASSUME NEW i \in Items, Live(i), ~ stream'.updating \/ i <= pending'
                 PROVE  history'[i][base[i].rev] # NoEntry
      BY Zenon, <1>2 DEF CurrentImageHeld, Live
    <3>1. CASE i <= pending
      <4>1. history[i][base[i].rev] # NoEntry
        BY Zenon, <1>1, <1>7, <3>1 DEF CurrentImageHeld
      <4> QED
        BY Zenon, <2>4, <2>6, <4>1
    <3>2. CASE ~ (i <= pending)
      <4>1. i \in Following(pending)
        BY <1>4, <3>2, GsiAssumption DEF Following, Items
      <4>2. i \in page
        BY Zenon, <2>1, <2>2, <2>11, <4>1 DEF More, page
      <4> QED
        BY Zenon, <2>8, <4>2
    <3> QED
      BY Zenon, <3>1, <3>2
  <2>14. HistoryHeld'
    <3>1. frontier.retired \in Nat /\ Len(log) \in Nat
      BY Zenon, <1>1, LogTyped, FrontierTyped
    <3>2. \A p \in frontier.retired + 1 .. Len(log) : p \in 1 .. Len(log)
      BY <3>1
    <3> QED
      BY Zenon, <1>1, <1>2, <2>9, <3>2 DEF HistoryHeld
  <2>15. HistoryExact'
    <3>1. Len(log) \in Nat /\ \A i \in Items : base[i].rev \in Nat
      BY Zenon, <1>1, BaseTyped, LogTyped
    <3>2. ASSUME NEW i \in Items, NEW v \in Versions, history'[i][v] # NoEntry
          PROVE  /\ v <= base[i].rev
                 /\ v = base[i].rev => history'[i][v].img = base[i].img
                 /\ history'[i][v].pos \in 0 .. Len(log)
                 /\ history'[i][v].pos > 0 => /\ log[history'[i][v].pos].item = i
                                             /\ log[history'[i][v].pos].ver = v
      <4>1. CASE history'[i][v] = history[i][v]
        BY ZenonT(60), <1>1, <3>2, <4>1 DEF HistoryExact
      <4>2. CASE history'[i][v] # history[i][v]
        <5>1. v = base[i].rev /\ history'[i][v] = anchor(i)
          BY Zenon, <2>6, <4>2
        <5> QED
          BY SMTT(60), <2>7, <3>1, <5>1
      <4> QED
        BY Zenon, <4>1, <4>2
    <3> QED
      BY ZenonT(60), <1>1, <1>2, <3>2 DEF HistoryExact, Live
  <2>16. SourcesSeen'
    <3>1. Targets' = Targets /\ \A x : Unread(x)' = Unread(x) /\ Unread(x) \subseteq 1 .. Len(log)
      BY Zenon, <1>2 DEF Targets, Existing, Unread, Runnable
    <3>2. \A x, row, s : Seen(x, row, s)' <=> Seen(x, row, s)
      BY ZenonT(60), <1>2 DEF Seen
    <3> QED
      BY Zenon, <1>1, <1>2, <2>9, <3>1, <3>2 DEF SourcesSeen
  <2> QED
    BY <1>3, <1>5, <2>10, <2>12, <2>13, <2>14, <2>15, <2>16, Zenon DEF GsiInvariant
<1> QED
  BY Zenon, <1>6, <1>7

-----------------------------------------------------------------------------
(* The build of an index                                                   *)

(* What a turn of the scheduler leaves alone. *)
Unbuilt == <<base, log, history, created, updates, pending, trimmed>>

(* A transition of a build feeds the builds that go on and moves neither the   *)
(* public stream nor what is retired (write_gsi_transition).                 *)
LEMMA TransitionKeeps ==
    ASSUME GsiInvariant, NEW x \in Indexes, Runnable(builds[x]), NEW next \in Build,
           Transition(x, next), UNCHANGED Unbuilt, turn' \in Nat,
           rows' \in [Indexes -> [Items -> [Keys -> [rev : Nat, val : Vals \cup {Gone}]]]],
           \A y \in Indexes \ {x} : rows'[y] = rows[y],
           OrderedOf(x)', x \in Targets' => RowsTrueOf(x)' /\ SeenOf(x)'
    PROVE  GsiInvariant'
<1> DEFINE released == [stream EXCEPT !.capture = @ \ {x}]
<1>1. /\ TypeOK /\ CaptureHeld /\ CurrentImageHeld /\ HistoryHeld /\ LogOrdered
      /\ HistoryExact /\ BuildsOrdered /\ RowsTrue /\ SourcesSeen
      /\ frontier.cleaned <= frontier.retired /\ frontier.retired <= Len(log)
  BY Zenon DEF GsiInvariant
<1>2. UNCHANGED <<base, log, history, created, updates, pending, trimmed>>
  BY Zenon DEF Unbuilt
<1>3. /\ builds' = [builds EXCEPT ![x] = next]
      /\ stream' = IF Runnable(next) THEN stream ELSE released
      /\ frontier' = IF Runnable(next) THEN frontier ELSE Stopped(released)
  BY Zenon DEF Transition
<1>4. /\ builds' \in [Indexes -> Build] /\ builds'[x] = next
      /\ \A y \in Indexes \ {x} : builds'[y] = builds[y]
  <2>1. builds \in [Indexes -> Build]
    BY <1>1, Zenon DEF TypeOK
  <2> QED
    BY Zenon, <1>3, <2>1
<1>5. /\ frontier' \in [retired : Nat, cleaned : Nat, sweep : Sweep]
      /\ frontier'.retired = frontier.retired /\ frontier'.cleaned = frontier.cleaned
  <2>1. frontier \in [retired : Nat, cleaned : Nat, sweep : Sweep]
    BY <1>1, Zenon DEF TypeOK
  <2> HIDE DEF released
  <2> QED
    BY Zenon, <1>1, <1>3, <2>1, StoppedKeeps
<1>6. /\ stream' \in [public : BOOLEAN, updating : BOOLEAN, capture : SUBSET Indexes]
      /\ stream'.public = stream.public /\ stream'.updating = stream.updating
      /\ stream.capture \ {x} \subseteq stream'.capture
      /\ Runnable(next) => stream' = stream
  <2>1. stream \in [public : BOOLEAN, updating : BOOLEAN, capture : SUBSET Indexes]
    BY <1>1, Zenon DEF TypeOK
  <2> QED
    BY Zenon, <1>3, <2>1
<1>7. TypeOK'
  BY <1>1, <1>2, <1>4, <1>5, <1>6, Zenon DEF TypeOK
<1>8. CaptureHeld'
  <2>1. \A y \in Candidates' : y \in Candidates /\ (y = x => Runnable(next))
    BY Zenon, <1>4 DEF Candidates, Runnable
  <2> QED
    BY Zenon, <1>1, <1>6, <2>1 DEF CaptureHeld
<1>9. CurrentImageHeld'
  BY Zenon, <1>1, <1>2, <1>6 DEF CurrentImageHeld, Live
<1>10. HistoryHeld' /\ LogOrdered' /\ HistoryExact'
  BY Zenon, <1>1, <1>2, <1>5, HistoryHeldFrame, LogFrame, HistoryExactFrame
<1>11. BuildsOrdered' /\ RowsTrue' /\ SourcesSeen'
  <2>1. created \in Nat /\ Indexes \subseteq Nat
    BY Zenon, <1>1, GsiAssumption DEF TypeOK
  <2>2. created' \in Nat /\ created <= created'
    BY <1>2, <2>1
  <2> QED
    BY Zenon, <1>1, <1>2, <1>4, <2>1, <2>2, OtherIndexes
<1>12. frontier'.cleaned <= frontier'.retired /\ frontier'.retired <= Len(log')
  BY Zenon, <1>1, <1>2, <1>5
<1> QED
  BY <1>7, <1>8, <1>9, <1>10, <1>11, <1>12, Zenon DEF GsiInvariant

(* What a build that is fed knows of its own index. *)
LEMMA RunnableFacts ==
    ASSUME GsiInvariant, NEW x \in Indexes, Runnable(builds[x])
    PROVE  /\ x \in Targets /\ RowsTrueOf(x) /\ SeenOf(x) /\ OrderedOf(x) /\ ~ (x > created)
           /\ builds[x].cursor \in Nat /\ builds[x].bound \in Nat /\ builds[x].cursor <= Len(log)
           /\ builds[x] = [phase |-> builds[x].phase, cursor |-> builds[x].cursor,
                           bound |-> builds[x].bound]
<1>1. TypeOK /\ BuildsOrdered /\ RowsTrue /\ SourcesSeen
  BY Zenon DEF GsiInvariant
<1>2. x \in Targets
  BY Zenon DEF Runnable, Targets, Existing, Blocked
<1>3. RowsTrueOf(x) /\ SeenOf(x) /\ OrderedOf(x)
  BY Zenon, <1>1, <1>2 DEF RowsTrue, RowsTrueOf, SourcesSeen, SeenOf, BuildsOrdered, OrderedOf
<1>4. builds[x] \in [phase : Phases, cursor : Nat, bound : Nat]
  BY Zenon, <1>1 DEF TypeOK, Build
<1>5. ~ (x > created)
  BY <1>3 DEF OrderedOf, Runnable, NoBuild
<1> QED
  BY Zenon, <1>2, <1>3, <1>4, <1>5 DEF OrderedOf

(* A merged row is a row, of a source or the one before (merge_projection_write): *)
(* with versions of the item that are bounded, the last one that writes.      *)
LEMMA MergedRow ==
    ASSUME LargestExists, NEW row, NEW i, NEW k, NEW sources, NEW b \in Nat,
           \A s \in sources : s.item = i => s.ver \in Nat /\ s.ver <= b
    PROVE  \/ /\ Merged(row, i, k, sources) = row
              /\ \A s \in sources : s.item = i /\ s.key = k => ~ Writes(row, s, sources)
           \/ \E s \in sources : /\ s.item = i /\ s.key = k /\ Writes(row, s, sources)
                                 /\ Merged(row, i, k, sources) = [rev |-> s.ver, val |-> s.val]
<1> DEFINE writing == {s \in sources : s.item = i /\ s.key = k /\ Writes(row, s, sources)}
           last == CHOOSE s \in writing : \A t \in writing : t.ver <= s.ver
           vers == {s.ver : s \in writing}
<1>1. Merged(row, i, k, sources) = IF writing = {} THEN row ELSE [rev |-> last.ver, val |-> last.val]
  BY Zenon DEF Merged
<1>2. CASE writing = {}
  BY Zenon, <1>1, <1>2
<1>3. CASE writing # {}
  <2>1. vers \in SUBSET Nat /\ vers # {} /\ \A n \in vers : n <= b
    BY Zenon, <1>3
  <2>2. Max(vers) \in vers /\ \A n \in vers : n <= Max(vers)
    BY Zenon, <2>1 DEF LargestExists
  <2>3. PICK s \in writing : s.ver = Max(vers)
    BY Zenon, <2>2
  <2>4. \A t \in writing : t.ver <= s.ver
    BY Zenon, <2>2, <2>3
  <2>5. last \in writing
    BY Zenon, <2>4
  <2> QED
    BY Zenon, <1>1, <1>3, <2>5
<1> QED
  BY Zenon, <1>2, <1>3

(* What a page of a build makes of a row: one it has a newer source for is the  *)
(* source's, another stays.                                                 *)
RowMerged(x, sources, i, k) ==
    \/ /\ rows'[x][i][k] = rows[x][i][k]
       /\ \A s \in sources : s.item = i /\ s.key = k => ~ Writes(rows[x][i][k], s, sources)
    \/ \E s \in sources :
          /\ s.item = i /\ s.key = k /\ Writes(rows[x][i][k], s, sources)
          /\ rows'[x][i][k] = [rev |-> s.ver, val |-> s.val]

RowsMerged(x, sources) ==
    /\ rows' \in [Indexes -> [Items -> [Keys -> [rev : Nat, val : Vals \cup {Gone}]]]]
    /\ \A y \in Indexes \ {x} : rows'[y] = rows[y]
    /\ \A i \in Items, k \in Keys : RowMerged(x, sources, i, k)

(* The rows a page leaves are rows, and only those of its index change. *)
LEMMA ProjectedRows ==
    ASSUME LargestExists, TypeOK, NEW x \in Indexes, NEW sources, ProjectSources(x, sources),
           NEW b \in [Items -> Nat],
           \A s \in sources : /\ s.item \in Items /\ s.ver \in Nat /\ s.val \in Vals \cup {Gone}
                              /\ s.ver <= b[s.item]
    PROVE  RowsMerged(x, sources)
<1> DEFINE R == [rev : Nat, val : Vals \cup {Gone}]
           m(i, k) == Merged(rows[x][i][k], i, k, sources)
<1>1. rows \in [Indexes -> [Items -> [Keys -> R]]]
  BY Zenon DEF TypeOK
<1>2. rows' = [rows EXCEPT ![x] = [i \in Items |-> [k \in Keys |-> m(i, k)]]]
  BY Zenon DEF ProjectSources
<1>3. ASSUME NEW i \in Items, NEW k \in Keys
      PROVE  \/ /\ m(i, k) = rows[x][i][k]
                /\ \A s \in sources : s.item = i /\ s.key = k =>
                                         ~ Writes(rows[x][i][k], s, sources)
             \/ \E s \in sources :
                   /\ s.item = i /\ s.key = k /\ Writes(rows[x][i][k], s, sources)
                   /\ m(i, k) = [rev |-> s.ver, val |-> s.val]
  <2>1. PICK n \in Nat : \A s \in sources : s.item = i => s.ver \in Nat /\ s.ver <= n
    OBVIOUS
  <2>2. \A row : \/ /\ Merged(row, i, k, sources) = row
                    /\ \A s \in sources : s.item = i /\ s.key = k => ~ Writes(row, s, sources)
                 \/ \E s \in sources :
                       /\ s.item = i /\ s.key = k /\ Writes(row, s, sources)
                       /\ Merged(row, i, k, sources) = [rev |-> s.ver, val |-> s.val]
    BY <2>1, MergedRow
  <2> QED
    BY <2>2, Zenon
<1>4. \A i \in Items, k \in Keys : m(i, k) \in R
  <2>1. ASSUME NEW i \in Items, NEW k \in Keys PROVE m(i, k) \in R
    <3>1. rows[x][i][k] \in R
      BY <1>1
    <3>2. \A s \in sources : [rev |-> s.ver, val |-> s.val] \in R
      BY Zenon
    <3> HIDE DEF m, R
    <3> QED
      BY SMTT(60), <1>3, <3>1, <3>2
  <2> QED
    BY <2>1, Zenon
<1> HIDE DEF m, R
<1>5. rows' \in [Indexes -> [Items -> [Keys -> R]]]
  BY Zenon, <1>1, <1>2, <1>4
<1>6. \A y \in Indexes \ {x} : rows'[y] = rows[y]
  BY Zenon, <1>1, <1>2
<1>7. \A i \in Items, k \in Keys : rows'[x][i][k] = m(i, k)
  BY Zenon, <1>1, <1>2
<1>8. ASSUME NEW i \in Items, NEW k \in Keys
      PROVE  \/ /\ rows'[x][i][k] = rows[x][i][k]
                /\ \A s \in sources : s.item = i /\ s.key = k =>
                                         ~ Writes(rows[x][i][k], s, sources)
             \/ \E s \in sources :
                   /\ s.item = i /\ s.key = k /\ Writes(rows[x][i][k], s, sources)
                   /\ rows'[x][i][k] = [rev |-> s.ver, val |-> s.val]
  <2>1. rows'[x][i][k] = m(i, k)
    BY <1>7, Zenon
  <2> QED
    BY SMTT(60), <1>3, <2>1
<1> QED
  BY <1>5, <1>6, <1>8, Zenon DEF R, RowsMerged, RowMerged

(* The fields of a row that a merge writes. *)
LEMMA RowFields ==
    ASSUME NEW row, NEW v, NEW w, row = [rev |-> v, val |-> w]
    PROVE  row.rev = v /\ row.val = w
OBVIOUS

(* The scan meets no conflict: a row of an item at its current key is empty or *)
(* live, and a page of the scan has live images only.                      *)
LEMMA ScanKeeps ==
    ASSUME LargestExists, PagesInOrder,
           GsiInvariant, NEW x \in Indexes, AdvanceScan(x), UNCHANGED Unbuilt, turn' \in Nat
    PROVE  /\ GsiInvariant'
           /\ builds'[x].phase \in {"scanning", "catching_up"}
<1> DEFINE b == builds[x]
           after == b.bound
           page == Page(after)
           sources == ScanSources(x, page)
           next == IF More(after) THEN [b EXCEPT !.bound = Max(page)]
                   ELSE [b EXCEPT !.phase = "catching_up", !.bound = Len(log)]
<1>1. b.phase = "scanning" /\ Project(x, sources, next)
  BY Zenon DEF AdvanceScan
<1>2. Runnable(b)
  BY Zenon, <1>1 DEF Runnable
<1>3. /\ x \in Targets /\ RowsTrueOf(x) /\ SeenOf(x) /\ OrderedOf(x) /\ ~ (x > created)
      /\ b.cursor \in Nat /\ after \in Nat /\ b.cursor <= Len(log)
      /\ b = [phase |-> b.phase, cursor |-> b.cursor, bound |-> b.bound]
  BY Zenon, <1>2, RunnableFacts
<1>4. TypeOK /\ HistoryExact /\ LogOrdered
  BY Zenon DEF GsiInvariant
<1>5. /\ page \subseteq Following(after) /\ Following(after) \subseteq Items
      /\ More(after) =>
            /\ Max(page) \in page
            /\ \A i \in Following(after) : i <= Max(page) => i \in page
  <2>1. after \in Int
    <3> HIDE DEF after
    <3> QED
      BY <1>3
  <2> QED
    BY Zenon, <2>1 DEF PagesInOrder
<1>6. UNCHANGED <<base, log, history, created, updates, pending, trimmed>>
  BY Zenon DEF Unbuilt
<1>7. /\ Len(log) \in Nat /\ Items \subseteq Nat
      /\ \A i \in Items : /\ base[i].rev \in Nat /\ base[i].img \in Images \cup {Absent}
                          /\ base[i].img.key # NoKey => Live(i) /\ base[i].rev > 0
  <2>1. \A i \in Items : base[i].img.key # NoKey => Live(i)
    BY SMTT(60) DEF Live, Absent
  <2>2. \A i \in Items : base[i].rev \in Nat /\ base[i].img \in Images \cup {Absent}
    BY Zenon, <1>4, BaseTyped
  <2>3. \A i \in Items : Live(i) => base[i].rev > 0
    BY Zenon, <1>4 DEF HistoryExact
  <2>4. Len(log) \in Nat
    BY Zenon, <1>4, LogTyped
  <2>5. Items \subseteq Nat
    BY GsiAssumption DEF Items
  <2> QED
    BY <2>1, <2>2, <2>3, <2>4, <2>5, Zenon
<1>8. /\ next \in Build /\ next.cursor = b.cursor
      /\ More(after) => next.phase = "scanning" /\ next.bound = Max(page)
      /\ ~ More(after) => next.phase = "catching_up" /\ next.bound = Len(log)
  <2>1. More(after) => Max(page) \in Nat
    BY Zenon, <1>5, <1>7
  <2>2. b \in Build
    BY Zenon, <1>4 DEF TypeOK
  <2> HIDE DEF b, page
  <2> QED
    BY Zenon, <1>1, <1>7, <2>1, <2>2 DEF Build, Phases
<1> HIDE DEF next, page
<1>9. /\ \A s \in sources : /\ s.item \in page /\ s.item \in Items
                            /\ s.key = base[s.item].img.key /\ s.key # NoKey
                            /\ s.ver = base[s.item].rev /\ s.val = Projected(x, base[s.item].img)
      /\ \A i \in page : base[i].img.key # NoKey =>
            \E s \in sources : s.item = i /\ s.key = base[i].img.key
  <2> DEFINE of(i) == Source(i, base[i].img.key, base[i].rev, Projected(x, base[i].img))
  <2>1. \A i : /\ of(i).item = i /\ of(i).key = base[i].img.key
               /\ of(i).ver = base[i].rev /\ of(i).val = Projected(x, base[i].img)
    BY Zenon DEF Source
  <2>2. sources = {of(i) : i \in {j \in page : base[j].img.key # NoKey}}
    BY Zenon DEF ScanSources
  <2> HIDE DEF of, sources
  <2>3. ASSUME NEW s \in sources
        PROVE  \E i \in page : base[i].img.key # NoKey /\ s = of(i)
    BY <2>2, Zenon
  <2>4. \A i \in page : base[i].img.key # NoKey => of(i) \in sources
    BY <2>2, Zenon
  <2>5. \A i \in page : i \in Items
    BY Zenon, <1>5
  <2> QED
    BY SMTT(60), <2>1, <2>3, <2>4, <2>5
<1> HIDE DEF sources
<1>10. \A s \in sources : s.key \in Keys /\ s.val \in Vals /\ s.val # Gone
  <2> SUFFICES ASSUME NEW s \in sources
               PROVE  s.key \in Keys /\ s.val \in Vals /\ s.val # Gone
    BY Zenon
  <2> DEFINE img == base[s.item].img
  <2>1. /\ img \in Images \cup {Absent} /\ img.key # NoKey /\ s.key = img.key
        /\ s.val = Projected(x, img)
    BY ZenonT(60), <1>7, <1>9
  <2> HIDE DEF img
  <2>2. /\ img.key \in Keys \cup {NoKey}
        /\ Projected(x, img) \in Vals /\ Projected(x, img) # Gone
    BY <2>1, ImageTypes, Zenon
  <2> QED
    BY Zenon, <2>1, <2>2
<1>11. ~ Conflicting(x, sources)
  <2>1. ASSUME NEW s \in sources PROVE ~ Conflicts(rows[x][s.item][s.key], s)
    <3>1. rows[x][s.item][s.key].val = Gone => rows[x][s.item][s.key] = NoRow
      <4>1. s.item \in Items /\ s.key \in Keys /\ base[s.item].img.key = s.key
        BY Zenon, <1>9, <1>10, <2>1
      <4> QED
        BY Zenon, <1>3, <4>1 DEF RowsTrueOf
    <3> QED
      BY Zenon, <1>10, <3>1 DEF Conflicts
  <2> QED
    BY Zenon, <2>1 DEF Conflicting
<1>12. ProjectSources(x, sources) /\ Transition(x, next)
  BY Zenon, <1>1, <1>11 DEF Project
<1> HIDE DEF sources
<1>13. /\ rows' \in [Indexes -> [Items -> [Keys -> [rev : Nat, val : Vals \cup {Gone}]]]]
       /\ \A y \in Indexes \ {x} : rows'[y] = rows[y]
       /\ \A i \in Items, k \in Keys : RowMerged(x, sources, i, k)
  <2> DEFINE bounds == [i \in Items |-> base[i].rev]
  <2>1. bounds \in [Items -> Nat]
    BY Zenon, <1>7
  <2>2. \A s \in sources : /\ s.item \in Items /\ s.ver \in Nat /\ s.val \in Vals \cup {Gone}
                           /\ s.ver <= bounds[s.item]
    <3> SUFFICES ASSUME NEW s \in sources
                 PROVE  /\ s.item \in Items /\ s.ver \in Nat /\ s.val \in Vals \cup {Gone}
                        /\ s.ver <= bounds[s.item]
      BY Zenon
    <3>1. s.item \in Items /\ s.ver = base[s.item].rev /\ base[s.item].rev \in Nat /\ s.val \in Vals
      BY <1>7, <1>9, <1>10, Zenon
    <3>2. bounds[s.item] = base[s.item].rev
      BY Zenon, <3>1
    <3> HIDE DEF bounds
    <3> QED
      BY SMTT(60), <3>1, <3>2
  <2> HIDE DEF bounds
  <2>3. RowsMerged(x, sources)
    BY Zenon, <1>4, <1>12, <2>1, <2>2, ProjectedRows
  <2> QED
    BY Zenon, <2>3 DEF RowsMerged
<1>14. builds'[x] = next
  <2>1. builds \in [Indexes -> Build] /\ builds' = [builds EXCEPT ![x] = next]
    BY <1>4, <1>12, Zenon DEF TypeOK, Transition
  <2> QED
    BY Zenon, <2>1
<1>15. ASSUME NEW i \in Items, NEW k \in Keys
       PROVE  \/ /\ rows'[x][i][k] = rows[x][i][k]
                 /\ (i \in page /\ base[i].img.key = k) => ~ (base[i].rev > rows[x][i][k].rev)
              \/ /\ i \in page /\ base[i].img.key = k
                 /\ rows'[x][i][k].rev = base[i].rev
                 /\ rows'[x][i][k].val = Projected(x, base[i].img)
  <2>1. CASE /\ rows'[x][i][k] = rows[x][i][k]
             /\ \A s \in sources : s.item = i /\ s.key = k =>
                                      ~ Writes(rows[x][i][k], s, sources)
    <3>1. ASSUME i \in page, base[i].img.key = k PROVE ~ (base[i].rev > rows[x][i][k].rev)
      <4>1. base[i].img.key # NoKey
        BY Zenon, <3>1, ImageTypes
      <4>2. PICK s \in sources : s.item = i /\ s.key = base[i].img.key
        BY Zenon, <1>9, <3>1, <4>1
      <4>3. s.val # Gone /\ s.ver = base[i].rev /\ ~ Writes(rows[x][i][k], s, sources)
        BY Zenon, <1>9, <1>10, <2>1, <3>1, <4>2
      <4> QED
        BY Zenon, <4>3 DEF Writes
    <3> QED
      BY Zenon, <2>1, <3>1
  <2>2. CASE \E s \in sources :
                   /\ s.item = i /\ s.key = k /\ Writes(rows[x][i][k], s, sources)
                   /\ rows'[x][i][k] = [rev |-> s.ver, val |-> s.val]
    <3>1. PICK s \in sources :
             s.item = i /\ s.key = k /\ rows'[x][i][k] = [rev |-> s.ver, val |-> s.val]
      BY Zenon, <2>2
    <3>2. /\ i \in page /\ base[i].img.key = k
          /\ s.ver = base[i].rev /\ s.val = Projected(x, base[i].img)
      BY Zenon, <1>9, <3>1
    <3>3. rows'[x][i][k].rev = s.ver /\ rows'[x][i][k].val = s.val
      <4> DEFINE row == rows'[x][i][k]
                 v == s.ver
                 w == s.val
      <4>1. row = [rev |-> v, val |-> w]
        BY Zenon, <3>1
      <4> HIDE DEF row, v, w
      <4>2. row.rev = v /\ row.val = w
        BY Zenon, <4>1, RowFields
      <4> QED
        BY Zenon, <4>2 DEF row, v, w
    <3> QED
      BY Zenon, <3>2, <3>3
  <2>3. RowMerged(x, sources, i, k)
    BY Zenon, <1>13
  <2> QED
    BY Zenon, <2>1, <2>2, <2>3 DEF RowMerged
<1>16. OrderedOf(x)'
  <2>1. ~ (x > created') /\ next.cursor <= Len(log')
    BY Zenon, <1>3, <1>6, <1>8
  <2>2. next.phase = "catching_up" => next.bound = Len(log')
    BY Zenon, <1>6, <1>8
  <2>3. Len(log') <= Len(log')
    BY <1>6, <1>7
  <2> QED
    BY Zenon, <1>14, <2>1, <2>2, <2>3 DEF OrderedOf
<1>17. RowsTrueOf(x)'
  <2> SUFFICES ASSUME NEW i \in Items, NEW k \in Keys
               PROVE  /\ rows'[x][i][k].rev <= base[i].rev
                      /\ rows'[x][i][k].val # Gone =>
                            /\ base[i].img.key = k
                            /\ rows'[x][i][k].val = Projected(x, base[i].img)
                      /\ (rows'[x][i][k].val = Gone /\ base[i].img.key = k) =>
                            /\ rows'[x][i][k] = NoRow
                            /\ next.phase = "scanning" /\ i > next.bound
    BY ZenonT(60), <1>6, <1>14 DEF RowsTrueOf, Projected
  <2>1. CASE /\ i \in page /\ base[i].img.key = k
             /\ rows'[x][i][k].rev = base[i].rev
             /\ rows'[x][i][k].val = Projected(x, base[i].img)
    <3>1. base[i].rev \in Nat /\ base[i].img \in Images \cup {Absent}
      BY Zenon, <1>7
    <3>2. Projected(x, base[i].img) # Gone
      BY Zenon, <2>1, <3>1, ImageTypes
    <3>3. base[i].rev <= base[i].rev
      BY <3>1
    <3> QED
      BY Zenon, <2>1, <3>2, <3>3
  <2>2. CASE /\ rows'[x][i][k] = rows[x][i][k]
             /\ (i \in page /\ base[i].img.key = k) => ~ (base[i].rev > rows[x][i][k].rev)
    <3>1. /\ rows[x][i][k].rev <= base[i].rev
          /\ rows[x][i][k].val # Gone =>
                /\ base[i].img.key = k
                /\ rows[x][i][k].val = Projected(x, base[i].img)
          /\ (rows[x][i][k].val = Gone /\ base[i].img.key = k) =>
                /\ rows[x][i][k] = NoRow /\ i > after
      BY ZenonT(60), <1>3 DEF RowsTrueOf
    <3>2. ASSUME rows[x][i][k].val = Gone, base[i].img.key = k
          PROVE  next.phase = "scanning" /\ i > next.bound
      <4>1. i > after /\ Live(i) /\ base[i].rev > 0 /\ rows[x][i][k].rev = 0
        <5>1. rows[x][i][k] = NoRow /\ i > after
          BY Zenon, <3>1, <3>2
        <5>2. k # NoKey
          BY Zenon, ImageTypes
        <5>3. Live(i) /\ base[i].rev > 0
          BY Zenon, <1>7, <3>2, <5>2
        <5>4. NoRow.rev = 0
          BY Zenon DEF NoRow
        <5> QED
          BY Zenon, <5>1, <5>3, <5>4
      <4>2. i \in Following(after) /\ i \notin page
        BY Zenon, <2>2, <3>2, <4>1 DEF Following
      <4>3. More(after)
        BY Zenon, <4>2 DEF More, page
      <4>4. ~ (i <= Max(page)) /\ Max(page) \in Nat /\ i \in Nat
        BY Zenon, <1>5, <1>7, <4>2, <4>3
      <4> QED
        BY <1>8, <4>3, <4>4
    <3> QED
      BY Zenon, <2>2, <3>1, <3>2
  <2> QED
    BY ZenonT(60), <1>15, <2>1, <2>2
<1>18. SeenOf(x)'
  <2>1. Unread(x)' = Unread(x)
    BY Zenon, <1>2, <1>6, <1>8, <1>14 DEF Unread, Runnable
  <2> SUFFICES ASSUME NEW p \in Unread(x), Held(p), NEW s \in StreamSources(x, p)
               PROVE  Seen(x, rows'[x][s.item][s.key], s)
    <3>1. \A row, s : Seen(x, row, s)' <=> Seen(x, row, s)
      BY Zenon, <1>6 DEF Seen
    <3> QED
      BY Zenon, <1>6, <2>1, <3>1, SourcesFrame DEF SeenOf
  <2>2. p \in 1 .. Len(log)
    BY Zenon DEF Unread
  <2>3. /\ s.item = log[p].item /\ s.ver = log[p].ver /\ s.key \in Keys
        /\ s.val = Gone => s.key # NewImage(p).key
    BY Zenon, <1>4, <2>2, SourceTypes
  <2>4. log[p].item \in Items /\ log[p].ver \in Versions /\ log[p].ver <= base[log[p].item].rev
    BY Zenon, <1>4, <2>2, EntryVersions
  <2>5. Seen(x, rows[x][s.item][s.key], s)
    BY Zenon, <1>3 DEF SeenOf
  <2>6. CASE rows'[x][s.item][s.key] = rows[x][s.item][s.key]
    BY Zenon, <2>5, <2>6
  <2>7. CASE /\ base[s.item].img.key = s.key
             /\ rows'[x][s.item][s.key].rev = base[s.item].rev
             /\ rows'[x][s.item][s.key].val = Projected(x, base[s.item].img)
    <3>1. rows'[x][s.item][s.key].val # Gone
      <4> DEFINE img == base[s.item].img
      <4>1. img \in Images \cup {Absent} /\ img.key \in Keys
        BY Zenon, <1>7, <2>3, <2>4, <2>7
      <4> HIDE DEF img
      <4>2. Projected(x, img) # Gone
        BY Zenon, <4>1, ImageTypes
      <4> QED
        BY Zenon, <2>7, <4>2 DEF img
    <3>2. ~ (rows'[x][s.item][s.key].rev < s.ver)
      <4>1. s.ver \in Nat /\ base[s.item].rev \in Nat /\ s.ver <= base[s.item].rev
        BY Zenon, <1>7, <2>3, <2>4, ImageTypes
      <4> QED
        BY SMTT(60), <2>7, <4>1
    <3>3. s.ver = base[s.item].rev => s.val # Gone
      <4>1. history[s.item][s.ver] # NoEntry
        <5>1. history[s.item][s.ver].pos = p
          BY Zenon, <2>3 DEF Held
        <5>2. NoEntry.pos = -1
          BY Zenon DEF NoEntry
        <5>3. p # -1
          BY <2>2
        <5> QED
          BY Zenon, <5>1, <5>2, <5>3
      <4>2. s.ver = base[s.item].rev => NewImage(p) = base[s.item].img
        BY ZenonT(60), <1>4, <2>3, <2>4, <4>1 DEF HistoryExact, NewImage
      <4> QED
        BY Zenon, <2>3, <2>7, <4>2
    <3> QED
      BY Zenon, <2>7, <3>1, <3>2, <3>3 DEF Seen
  <2> QED
    BY ZenonT(60), <1>15, <2>3, <2>4, <2>6, <2>7
<1>19. GsiInvariant'
  BY Zenon, <1>2, <1>8, <1>12, <1>13, <1>16, <1>17, <1>18, TransitionKeeps
<1> QED
  BY Zenon, <1>8, <1>14, <1>19

(* A page of the catch-up meets no conflict: its rows have seen every source,  *)
(* so it writes only the live projections the scan was left to write.       *)
LEMMA CatchUpKeeps ==
    ASSUME LargestExists, GsiInvariant, NEW x \in Indexes, builds[x].phase = "catching_up",
           NEW through \in Nat, builds[x].cursor < through, through <= builds[x].bound,
           \A p \in builds[x].cursor + 1 .. through : Held(p),
           Project(x, UNION {StreamSources(x, p) : p \in builds[x].cursor + 1 .. through},
                   [builds[x] EXCEPT !.cursor = through]),
           UNCHANGED Unbuilt, turn' \in Nat
    PROVE  GsiInvariant' /\ builds'[x].phase = "catching_up"
<1> DEFINE b == builds[x]
           read == b.cursor + 1 .. through
           sources == UNION {StreamSources(x, p) : p \in read}
           next == [b EXCEPT !.cursor = through]
<1>1. Runnable(b)
  BY Zenon DEF Runnable
<1>2. /\ x \in Targets /\ RowsTrueOf(x) /\ SeenOf(x) /\ OrderedOf(x) /\ ~ (x > created)
      /\ b.cursor \in Nat /\ b.bound \in Nat /\ b.bound <= Len(log)
  BY Zenon, <1>1, RunnableFacts DEF OrderedOf
<1>3. TypeOK /\ HistoryExact /\ LogOrdered
  BY Zenon DEF GsiInvariant
<1>4. UNCHANGED <<base, log, history, created, updates, pending, trimmed>>
  BY Zenon DEF Unbuilt
<1>5. Len(log) \in Nat /\ \A i \in Items : base[i].rev \in Nat
  BY Zenon, <1>3, BaseTyped, LogTyped
<1>6. \A p \in read : p \in Nat /\ p \in 1 .. Len(log) /\ p <= through /\ p \in Unread(x) /\ Held(p)
  BY SMTT(60), <1>1, <1>2, <1>5 DEF Unread
<1>7. /\ next \in Build /\ next.phase = "catching_up" /\ next.cursor = through
      /\ next.bound = b.bound
  <2>1. b \in Build
    BY Zenon, <1>3 DEF TypeOK
  <2> QED
    BY Zenon, <2>1 DEF Build
<1> HIDE DEF read, next
<1>8. ASSUME NEW s \in sources
      PROVE  /\ \E p \in read : s.item = log[p].item /\ s.ver = log[p].ver
             /\ s.item \in Items /\ s.key \in Keys
             /\ s.ver \in Nat /\ s.ver > 0 /\ s.ver <= base[s.item].rev
             /\ s.val \in Vals \cup {Gone}
             /\ x \notin ProjectsAll /\ s.val # Gone => s.val = Projected(x, base[s.item].img)
             /\ Seen(x, rows[x][s.item][s.key], s)
  <2>1. PICK p \in read : s \in StreamSources(x, p)
    BY Zenon
  <2>2. p \in 1 .. Len(log) /\ p \in Unread(x) /\ Held(p)
    BY Zenon, <1>6
  <2>3. /\ s.item = log[p].item /\ s.ver = log[p].ver /\ s.key \in Keys
        /\ \/ s.val = Gone
           \/ s.key = NewImage(p).key /\ s.val = Projected(x, NewImage(p))
    BY Zenon, <1>3, <2>1, <2>2, SourceTypes
  <2>4. /\ log[p].item \in Items /\ log[p].ver \in Versions
        /\ log[p].ver <= base[log[p].item].rev
    BY Zenon, <1>3, <2>2, EntryVersions
  <2>5. NewImage(p) \in Images \cup {Absent}
    <3>1. history \in [Items -> [Versions -> [img : Images \cup {Absent}, pos : Int]]]
      BY <1>3, Zenon DEF TypeOK
    <3>2. history[log[p].item][log[p].ver] \in [img : Images \cup {Absent}, pos : Int]
      BY Zenon, <2>4, <3>1
    <3> QED
      BY Zenon, <3>2 DEF NewImage
  <2>6. s.val \in Vals \cup {Gone}
    BY Zenon, <2>3, <2>5, ImageTypes
  <2>7. x \notin ProjectsAll /\ s.val # Gone => s.val = Projected(x, base[s.item].img)
    BY Zenon, <2>3 DEF Projected
  <2>8. Seen(x, rows[x][s.item][s.key], s)
    BY Zenon, <1>2, <2>1, <2>2 DEF SeenOf
  <2>9. s.ver \in Nat /\ s.ver > 0
    BY <2>3, <2>4, ImageTypes
  <2> QED
    BY Zenon, <2>3, <2>4, <2>6, <2>7, <2>8, <2>9
<1>9. Project(x, sources, next)
  BY Zenon DEF next, read
<1> HIDE DEF sources
<1>10. ~ Conflicting(x, sources)
  BY Zenon, <1>8 DEF Conflicting, Conflicts, Seen
<1>11. ProjectSources(x, sources) /\ Transition(x, next)
  BY Zenon, <1>9, <1>10 DEF Project
<1>12. /\ rows' \in [Indexes -> [Items -> [Keys -> [rev : Nat, val : Vals \cup {Gone}]]]]
       /\ \A y \in Indexes \ {x} : rows'[y] = rows[y]
       /\ \A i \in Items, k \in Keys :
             \/ rows'[x][i][k] = rows[x][i][k]
             \/ \E s \in sources :
                   /\ s.item = i /\ s.key = k /\ Writes(rows[x][i][k], s, sources)
                   /\ rows'[x][i][k] = [rev |-> s.ver, val |-> s.val]
  <2> DEFINE bounds == [i \in Items |-> base[i].rev]
  <2>1. bounds \in [Items -> Nat]
    BY Zenon, <1>5
  <2>2. \A s \in sources : /\ s.item \in Items /\ s.ver \in Nat /\ s.val \in Vals \cup {Gone}
                           /\ s.ver <= bounds[s.item]
    BY Zenon, <1>8
  <2> HIDE DEF bounds
  <2>3. RowsMerged(x, sources)
    BY Zenon, <1>3, <1>11, <2>1, <2>2, ProjectedRows
  <2>4. ASSUME NEW i \in Items, NEW k \in Keys
        PROVE  \/ rows'[x][i][k] = rows[x][i][k]
               \/ \E s \in sources :
                     /\ s.item = i /\ s.key = k /\ Writes(rows[x][i][k], s, sources)
                     /\ rows'[x][i][k] = [rev |-> s.ver, val |-> s.val]
    <3>1. RowMerged(x, sources, i, k)
      BY Zenon, <2>3 DEF RowsMerged
    <3> QED
      BY Zenon, <3>1 DEF RowMerged
  <2> QED
    BY Zenon, <2>3, <2>4 DEF RowsMerged
<1>13. builds'[x] = next
  <2>1. builds \in [Indexes -> Build] /\ builds' = [builds EXCEPT ![x] = next]
    BY <1>3, <1>11, Zenon DEF TypeOK, Transition
  <2> QED
    BY Zenon, <2>1
<1>14. ASSUME NEW s \in sources, Writes(rows[x][s.item][s.key], s, sources)
       PROVE  /\ s.val # Gone /\ x \notin ProjectsAll /\ base[s.item].img.key = s.key
              /\ rows[x][s.item][s.key].rev < s.ver
  <2> DEFINE row == rows[x][s.item][s.key]
  <2>1. /\ s.item \in Items /\ s.key \in Keys /\ s.ver \in Nat /\ s.ver > 0
        /\ Seen(x, row, s)
    BY Zenon, <1>8
  <2>2. row.rev \in Nat
    BY Zenon, <1>3, <2>1, BaseTyped, RowsTyped
  <2>3. NoRow.rev = 0
    BY Zenon DEF NoRow
  <2> HIDE DEF row
  <2>4. CASE s.val = Gone
    <3>1. ~ (row.rev < s.ver)
      BY Zenon, <2>1, <2>4 DEF Seen, row
    <3>2. row # NoRow
      BY Zenon, <2>1, <2>3, <3>1
    <3>3. s.ver > row.rev
      BY Zenon, <1>14, <2>4, <3>2 DEF Writes, row
    <3> QED
      BY Zenon, <2>1, <2>2, <3>1, <3>3
  <2>5. CASE s.val # Gone
    <3>1. row.rev < s.ver
      BY Zenon, <1>14, <2>1, <2>2, <2>5 DEF Writes, row
    <3> QED
      BY Zenon, <2>1, <2>5, <3>1 DEF Seen, row
  <2> QED
    BY Zenon, <2>4, <2>5
<1>15. OrderedOf(x)'
  <2>1. through <= Len(log)
    BY <1>2, <1>5
  <2> QED
    BY Zenon, <1>2, <1>4, <1>7, <1>13, <2>1 DEF OrderedOf, Runnable
<1>16. RowsTrueOf(x)'
  <2> SUFFICES ASSUME NEW i \in Items, NEW k \in Keys
               PROVE  /\ rows'[x][i][k].rev <= base[i].rev
                      /\ rows'[x][i][k].val # Gone =>
                            /\ base[i].img.key = k
                            /\ rows'[x][i][k].val = Projected(x, base[i].img)
                      /\ ~ (rows'[x][i][k].val = Gone /\ base[i].img.key = k)
    BY ZenonT(60), <1>4, <1>13 DEF RowsTrueOf, Projected
  <2>1. CASE rows'[x][i][k] = rows[x][i][k]
    BY ZenonT(60), <1>2, <2>1 DEF RowsTrueOf
  <2>2. ASSUME NEW s \in sources, s.item = i, s.key = k, Writes(rows[x][i][k], s, sources),
               rows'[x][i][k] = [rev |-> s.ver, val |-> s.val]
        PROVE  /\ rows'[x][i][k].rev <= base[i].rev /\ base[i].img.key = k
               /\ rows'[x][i][k].val # Gone /\ rows'[x][i][k].val = Projected(x, base[i].img)
    <3>1. rows'[x][i][k].rev = s.ver /\ rows'[x][i][k].val = s.val
      BY SMTT(60), <2>2
    <3> QED
      BY Zenon, <1>8, <1>14, <2>2, <3>1
  <2>3. \/ rows'[x][i][k] = rows[x][i][k]
        \/ \E s \in sources : /\ s.item = i /\ s.key = k /\ Writes(rows[x][i][k], s, sources)
                              /\ rows'[x][i][k] = [rev |-> s.ver, val |-> s.val]
    BY SMTT(60), <1>12
  <2> QED
    BY <2>1, <2>2, <2>3, Zenon
<1>17. SeenOf(x)'
  <2>1. \A p \in Unread(x)' : p \in Unread(x) /\ p > through
    BY <1>1, <1>2, <1>4, <1>5, <1>7, <1>13 DEF Unread
  <2> SUFFICES ASSUME NEW p \in Unread(x), p > through, Held(p), NEW s \in StreamSources(x, p)
               PROVE  Seen(x, rows'[x][s.item][s.key], s)
    <3>1. \A row, s : Seen(x, row, s)' <=> Seen(x, row, s)
      BY Zenon, <1>4 DEF Seen
    <3> QED
      BY Zenon, <1>4, <2>1, <3>1, SourcesFrame DEF SeenOf
  <2>2. p \in 1 .. Len(log) /\ p \in Nat
    BY DEF Unread
  <2>3. s.item = log[p].item /\ s.ver = log[p].ver /\ s.key \in Keys
    BY Zenon, <1>3, <2>2, SourceTypes
  <2>4. log[p].item \in Items /\ log[p].ver \in Nat
    BY Zenon, <1>3, <2>2, EntryVersions, ImageTypes
  <2>5. Seen(x, rows[x][s.item][s.key], s)
    BY Zenon, <1>2 DEF SeenOf
  <2>6. CASE rows'[x][s.item][s.key] = rows[x][s.item][s.key]
    BY Zenon, <2>5, <2>6
  <2>7. ASSUME NEW t \in sources, t.item = s.item, t.key = s.key,
               Writes(rows[x][s.item][s.key], t, sources),
               rows'[x][s.item][s.key] = [rev |-> t.ver, val |-> t.val]
        PROVE  Seen(x, rows'[x][s.item][s.key], s)
    <3>1. /\ t.val # Gone /\ x \notin ProjectsAll /\ base[s.item].img.key = s.key
          /\ rows[x][s.item][s.key].rev < t.ver
      BY Zenon, <1>14, <2>7
    <3>2. PICK q \in read : t.item = log[q].item /\ t.ver = log[q].ver
      BY Zenon, <1>8
    <3>3. q \in 1 .. Len(log) /\ q < p
      BY <1>6, <2>2
    <3>4. t.ver < s.ver
      BY Zenon, <1>3, <2>2, <2>3, <2>7, <3>2, <3>3 DEF LogOrdered
    <3>5. rows[x][s.item][s.key].rev \in Nat /\ t.ver \in Nat /\ s.ver \in Nat
      BY Zenon, <1>3, <1>8, <2>3, <2>4, BaseTyped, RowsTyped
    <3>6. rows[x][s.item][s.key].rev < s.ver
      BY SMTT(60), <3>1, <3>4, <3>5
    <3>7. s.val # Gone
      BY Zenon, <2>5, <3>6 DEF Seen
    <3>8. rows'[x][s.item][s.key].rev = t.ver /\ rows'[x][s.item][s.key].val = t.val
      BY <2>7
    <3> QED
      BY Zenon, <3>1, <3>7, <3>8 DEF Seen
  <2>8. PICK i \in Items, k \in Keys : i = s.item /\ k = s.key
    BY Zenon, <2>3, <2>4
  <2>9. \/ rows'[x][i][k] = rows[x][i][k]
        \/ \E t \in sources : /\ t.item = i /\ t.key = k /\ Writes(rows[x][i][k], t, sources)
                              /\ rows'[x][i][k] = [rev |-> t.ver, val |-> t.val]
    BY SMTT(60), <1>12
  <2> QED
    BY <2>6, <2>7, <2>8, <2>9, Zenon
<1>18. GsiInvariant'
  BY Zenon, <1>1, <1>7, <1>11, <1>12, <1>15, <1>16, <1>17, TransitionKeeps
<1> QED
  BY ZenonT(60), <1>7, <1>13, <1>18

(* A build that ends without projecting keeps the rows and reads no more. *)
LEMMA EndKeeps ==
    ASSUME GsiInvariant, NEW x \in Indexes, builds[x].phase = "catching_up",
           NEW next \in Build, next.phase \in {"active", "history_unavailable"},
           Transition(x, next), UNCHANGED rows, UNCHANGED Unbuilt, turn' \in Nat
    PROVE  GsiInvariant' /\ builds'[x] = next
<1>1. Runnable(builds[x]) /\ ~ Runnable(next) /\ next.phase # "catching_up"
  BY Zenon DEF Runnable
<1>2. RowsTrueOf(x) /\ ~ (x > created)
  BY Zenon, <1>1, RunnableFacts
<1>3. UNCHANGED <<base, log, history, created, updates, pending, trimmed>>
  BY Zenon DEF Unbuilt
<1>4. TypeOK
  BY Zenon DEF GsiInvariant
<1>5. builds'[x] = next
  <2>1. builds \in [Indexes -> Build] /\ builds' = [builds EXCEPT ![x] = next]
    BY <1>4, Zenon DEF TypeOK, Transition
  <2> QED
    BY Zenon, <2>1
<1>6. rows' \in [Indexes -> [Items -> [Keys -> [rev : Nat, val : Vals \cup {Gone}]]]]
  BY <1>4, Zenon DEF TypeOK
<1>7. OrderedOf(x)'
  BY Zenon, <1>1, <1>2, <1>3, <1>5 DEF OrderedOf, Runnable
<1>8. RowsTrueOf(x)'
  BY ZenonT(60), <1>2, <1>3 DEF RowsTrueOf, Projected
<1>9. SeenOf(x)'
  <2>1. Unread(x)' = {}
    BY Zenon, <1>1, <1>5 DEF Unread, Runnable
  <2> QED
    BY Zenon, <2>1 DEF SeenOf
<1>10. GsiInvariant'
  BY Zenon, <1>1, <1>6, <1>7, <1>8, <1>9, TransitionKeeps
<1> QED
  BY Zenon, <1>5, <1>10

(* The scheduler picks a build that runs. *)
LEMMA CandidateRuns ==
    ASSUME SmallestExists, Candidates # {}
    PROVE  Candidate \in Candidates
<1>1. Candidates \in SUBSET Nat
  BY Zenon, GsiAssumption DEF Candidates
<1>2. {x \in Candidates : x > turn} \in SUBSET Nat
  BY Zenon, <1>1
<1> QED
  BY Zenon, <1>1, <1>2 DEF SmallestExists, Candidate

(* A turn of the scheduler keeps the invariant, stops no build at a conflict,  *)
(* and stops one for its history only when an entry it had yet to read is not  *)
(* held or was trimmed.                                                    *)
LEMMA AdvanceBuildKeeps ==
    ASSUME SmallestExists, LargestExists, PagesInOrder, GsiInvariant, AdvanceBuild
    PROVE  /\ GsiInvariant'
           /\ \A x \in Indexes :
                 \/ builds'[x] = builds[x]
                 \/ builds'[x].phase \in {"scanning", "catching_up", "active"}
                 \/ /\ builds'[x].phase = "history_unavailable"
                    /\ \/ builds[x].cursor < trimmed
                       \/ \E p \in 1 .. Len(log) : builds[x].cursor < p /\ ~ Held(p)
<1>1. UNCHANGED Unbuilt
  BY Zenon DEF AdvanceBuild, Unbuilt
<1>2. TypeOK
  BY Zenon DEF GsiInvariant
<1>3. CASE UNCHANGED <<rows, builds, stream, frontier>> /\ turn' \in Nat
  <2>1. UNCHANGED <<base, log, history, created, updates, pending, trimmed>>
    BY Zenon, <1>1 DEF Unbuilt
  <2>2. /\ CaptureHeld /\ CurrentImageHeld /\ HistoryHeld /\ LogOrdered
        /\ HistoryExact /\ BuildsOrdered /\ RowsTrue /\ SourcesSeen
        /\ frontier.cleaned <= frontier.retired /\ frontier.retired <= Len(log)
    BY Zenon DEF GsiInvariant
  <2>3. TypeOK'
    BY Zenon, <1>2, <1>3, <2>1 DEF TypeOK
  <2>4. CaptureHeld' /\ CurrentImageHeld' /\ HistoryHeld' /\ LogOrdered'
    BY Zenon, <1>3, <2>1, <2>2, CaptureFrame, CurrentImageFrame, HistoryHeldFrame, LogFrame
  <2>5. HistoryExact' /\ BuildsOrdered' /\ RowsTrue' /\ SourcesSeen'
    BY Zenon, <1>3, <2>1, <2>2, HistoryExactFrame, BuildsFrame, RowsFrame, SeenFrame
  <2>6. GsiInvariant'
    BY Zenon, <1>3, <2>1, <2>2, <2>3, <2>4, <2>5 DEF GsiInvariant
  <2> QED
    BY Zenon, <1>3, <2>6
<1>4. CASE ~ UNCHANGED <<rows, builds, stream, frontier>>
  <2> DEFINE x == Candidate
  <2>1. /\ Candidates # {} /\ turn' = x
        /\ AdvanceScan(x) \/ AdvanceCatchUp(x) \/ Activate(x)
    BY Zenon, <1>4 DEF AdvanceBuild
  <2>2. x \in Indexes /\ Runnable(builds[x]) /\ turn' \in Nat
    BY Zenon, <2>1, CandidateRuns, GsiAssumption DEF Candidates
  <2> HIDE DEF x
  <2>3. \A y \in Indexes \ {x} : builds'[y] = builds[y]
    <3>1. \E next : Transition(x, next)
      BY Zenon, <2>1 DEF AdvanceScan, AdvanceCatchUp, Activate, Project, Block
    <3>2. \E next : builds' = [builds EXCEPT ![x] = next]
      BY Zenon, <3>1 DEF Transition
    <3> QED
      BY Zenon, <1>2, <3>2 DEF TypeOK
  <2>4. builds[x].cursor \in Nat /\ builds[x].bound \in Nat
    BY Zenon, <1>2, <2>2, BuildsTyped
  <2>5. CASE AdvanceScan(x)
    BY Zenon, <1>1, <2>2, <2>3, <2>5, ScanKeeps
  <2>6. CASE AdvanceCatchUp(x)
    <3>1. builds[x].phase = "catching_up"
      BY Zenon, <2>6 DEF AdvanceCatchUp
    <3>2. PICK n \in 1 .. TailPage :
             LET through == builds[x].cursor + n
             IN  /\ through <= builds[x].bound
                 /\ IF HistoryUnavailable(x, through)
                    THEN Block(x, "history_unavailable")
                    ELSE Project(x, UNION {StreamSources(x, p) : p \in builds[x].cursor + 1 .. through},
                                 [builds[x] EXCEPT !.cursor = through])
      BY <2>6, Zenon DEF AdvanceCatchUp
    <3> DEFINE through == builds[x].cursor + n
    <3>3. n \in Nat /\ n > 0
      BY GsiAssumption
    <3>4. through \in Nat /\ builds[x].cursor < through /\ through <= builds[x].bound
      BY <2>4, <3>2, <3>3
    <3>5. CASE HistoryUnavailable(x, through)
      <4> DEFINE next == [builds[x] EXCEPT !.phase = "history_unavailable"]
      <4>1. Transition(x, next) /\ UNCHANGED rows
        BY <3>2, <3>5, Zenon DEF Block
      <4>2. next \in Build /\ next.phase = "history_unavailable"
        BY ZenonT(60), <1>2, <2>2 DEF TypeOK, Build, Phases
      <4> HIDE DEF next
      <4>3. GsiInvariant' /\ builds'[x] = next
        BY Zenon, <1>1, <2>2, <3>1, <4>1, <4>2, EndKeeps
      <4>4. builds[x].bound <= Len(log) /\ Len(log) \in Nat
        BY Zenon, <1>2, <2>2, <3>1, LogTyped, BuildsTyped DEF GsiInvariant, BuildsOrdered
      <4>5. \/ builds[x].cursor < trimmed
            \/ \E p \in 1 .. Len(log) : builds[x].cursor < p /\ ~ Held(p)
        <5>1. CASE builds[x].cursor < trimmed
          BY Zenon, <5>1
        <5>2. ASSUME NEW p \in builds[x].cursor + 1 .. through, ~ Held(p)
              PROVE  \E q \in 1 .. Len(log) : builds[x].cursor < q /\ ~ Held(q)
          <6>1. p \in 1 .. Len(log) /\ builds[x].cursor < p
            BY SMTT(60), <2>4, <3>4, <4>4
          <6> QED
            BY Zenon, <5>2, <6>1
        <5> QED
          BY ZenonT(60), <3>5, <5>1, <5>2 DEF HistoryUnavailable
      <4> QED
        BY Zenon, <2>3, <4>2, <4>3, <4>5
    <3>6. CASE ~ HistoryUnavailable(x, through)
      <4>1. \A p \in builds[x].cursor + 1 .. through : Held(p)
        BY Zenon, <3>6 DEF HistoryUnavailable
      <4>2. Project(x, UNION {StreamSources(x, p) : p \in builds[x].cursor + 1 .. through},
                    [builds[x] EXCEPT !.cursor = through])
        BY <3>2, <3>6, Zenon
      <4> HIDE DEF through
      <4>3. GsiInvariant' /\ builds'[x].phase = "catching_up"
        BY Zenon, <1>1, <2>2, <3>1, <3>4, <4>1, <4>2, CatchUpKeeps
      <4> QED
        BY Zenon, <2>3, <4>3
    <3> QED
      BY Zenon, <3>5, <3>6
  <2>7. CASE Activate(x)
    <3> DEFINE next == [phase |-> "active", cursor |-> 0, bound |-> 0]
    <3>1. builds[x].phase = "catching_up" /\ Transition(x, next) /\ UNCHANGED rows
      BY Zenon, <2>7 DEF Activate
    <3>2. next \in Build /\ next.phase = "active"
      BY Zenon DEF Build, Phases
    <3> HIDE DEF next
    <3>3. GsiInvariant' /\ builds'[x] = next
      BY Zenon, <1>1, <2>2, <3>1, <3>2, EndKeeps
    <3> QED
      BY Zenon, <2>3, <3>2, <3>3
  <2> QED
    BY ZenonT(60), <2>1, <2>5, <2>6, <2>7
<1>5. turn' \in Nat
  <2>1. Candidates # {} => Candidate \in Nat
    BY Zenon, CandidateRuns, GsiAssumption DEF Candidates
  <2> QED
    BY <2>1 DEF AdvanceBuild
<1> QED
  BY Zenon, <1>3, <1>4, <1>5
=============================================================================
