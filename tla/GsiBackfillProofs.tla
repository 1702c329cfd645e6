------------------------- MODULE GsiBackfillProofs --------------------------
(***************************************************************************)
(* That the cleanup keeps GsiInvariant, and so that it is an invariant of   *)
(* every table, for any number of items, versions and indexes and any page *)
(* sizes; and what follows from it for the queries of an index and for the *)
(* builds.                                                                 *)
(***************************************************************************)
EXTENDS GsiStepProofs, FiniteSetTheorems

-----------------------------------------------------------------------------
(* The cleanup                                                             *)

(* An entry is held in the histories h. *)
HeldIn(h, p) ==
    /\ h[log[p].item][log[p].ver].pos = p
    /\ log[p].prev # 0 => h[log[p].item][log[p].prev] # NoEntry

(* What a cleanup that has retired entries up to r leaves: histories with      *)
(* nothing new, which keep the image of every live item of a table that        *)
(* records its writes, and both images of every later entry.                 *)
Kept(h, r) ==
    /\ h \in [Items -> [Versions -> [img : Images \cup {Absent}, pos : Int]]]
    /\ \A i \in Items, v \in Versions : h[i][v] \in {history[i][v], NoEntry}
    /\ \A i \in Items : (/\ Live(i) /\ RequiresStreamEntry(stream)
                         /\ history[i][base[i].rev] # NoEntry) => h[i][base[i].rev] # NoEntry
    /\ \A p \in r + 1 .. Len(log) : HeldIn(h, p)

(* A plan removes at most the oldest entry of a history, never the current     *)
(* image of a live item whose writes are recorded, and never an image of an    *)
(* entry that is not retired (plan_cleanup and protected_version).           *)
LEMMA PlanKeepsEntries ==
    ASSUME SmallestExists, OldestFirst, TypeOK, LogOrdered, HistoryExact,
           NEW r \in Nat, NEW h, Kept(h, r), NEW i \in Items
    PROVE  LET left == Plan(i, h[i], r).left
           IN  /\ left \in [Versions -> [img : Images \cup {Absent}, pos : Int]]
               /\ \A v \in Versions : left[v] \in {h[i][v], NoEntry}
               /\ (Live(i) /\ RequiresStreamEntry(stream)) => left[base[i].rev] = h[i][base[i].rev]
               /\ \A p \in r + 1 .. Len(log) : log[p].item = i =>
                     /\ left[log[p].ver] = h[i][log[p].ver]
                     /\ log[p].prev # 0 => left[log[p].prev] = h[i][log[p].prev]
<1> DEFINE g == h[i]
           H == [img : Images \cup {Absent}, pos : Int]
           entries == Entries(g)
           oldest == Min(entries)
           page == {v \in entries : Cardinality({u \in entries : u < v}) < 2}
           unretired == {v \in page : g[v].pos > r}
           protected == Protected(i, g, entries, page, unretired)
           deletes == entries # {} /\ \A v \in protected : oldest < v
           left == Plan(i, g, r).left
<1>1. left = IF deletes THEN [g EXCEPT ![oldest] = NoEntry] ELSE g
  BY Zenon DEF Plan
<1>2. g \in [Versions -> H] /\ NoEntry \in H
  BY DEF Kept, NoEntry
<1>3. CASE ~ deletes
  BY Zenon, <1>1, <1>2, <1>3
<1>4. CASE deletes
  <2>1. entries \in SUBSET Nat /\ entries \subseteq Versions /\ entries # {}
    BY Zenon, <1>4, ImageTypes DEF Entries
  <2>2. oldest \in entries /\ \A w \in entries : oldest <= w
    BY Zenon, <2>1 DEF SmallestExists
  <2>3. /\ Cardinality({w \in entries : w < oldest}) < 2
        /\ \A n \in entries : n = oldest + 1 => Cardinality({w \in entries : w < n}) < 2
    BY Zenon, <2>1, <2>2 DEF OldestFirst
  <2>4. oldest \in page /\ \A n \in entries : n = oldest + 1 => n \in page
    BY Zenon, <2>2, <2>3
  <2>5. \A v \in Versions : g[v] # NoEntry => v \in entries
    BY Zenon DEF Entries
  <2>6. page \subseteq entries /\ unretired \in SUBSET Nat /\ unretired \subseteq page
    BY Zenon, <2>1
  <2>7. \A v \in protected : oldest < v
    BY Zenon, <1>4
  <2>8. unretired # {} => /\ Min(unretired) \in unretired
                          /\ \A w \in unretired : Min(unretired) <= w
                          /\ (IF Previous(g, Min(unretired)) # 0 THEN Previous(g, Min(unretired))
                              ELSE Min(unretired)) \in protected
    BY Zenon, <2>6 DEF SmallestExists, Protected
  <2>9. (Live(i) /\ RequiresStreamEntry(stream)) => base[i].rev \in protected
    BY Zenon DEF Protected
  <2>10. \A v : v \in unretired <=> v \in page /\ g[v].pos > r
    BY Zenon
  <2>11. \A v \in unretired : Previous(g, v) \in {0, v - 1} /\ oldest <= v /\ v \in Nat
    <3>1. ASSUME NEW v \in unretired PROVE Previous(g, v) \in {0, v - 1}
      <4>1. v \in Versions /\ g[v] # NoEntry /\ g[v].pos > r /\ g[v] \in H
        BY Zenon, <1>2, <2>1, <2>6, <2>10 DEF Entries
      <4>2. g[v] = history[i][v]
        BY ZenonT(60), <4>1 DEF Kept
      <4>3. /\ history[i][v].pos \in 0 .. Len(log)
            /\ history[i][v].pos > 0 => log[history[i][v].pos].ver = v
        BY Zenon, <4>1, <4>2 DEF HistoryExact
      <4>4. Len(log) \in Nat
        BY ZenonT(60), LogTyped
      <4>5. g[v].pos \in 1 .. Len(log) /\ log[g[v].pos].ver = v
        BY SMTT(60), <4>1, <4>2, <4>3, <4>4
      <4> HIDE DEF g
      <4> QED
        BY ZenonT(60), <4>5 DEF LogOrdered, Previous
    <3>2. \A v \in unretired : v \in entries
      BY ZenonT(60), <2>6
    <3> QED
      BY Zenon, <2>1, <2>2, <3>1, <3>2
  <2> HIDE DEF g, entries, oldest, page, unretired, protected, left, H
  <2>12. /\ left \in [Versions -> H] /\ \A v \in Versions : left[v] \in {g[v], NoEntry}
         /\ \A v : v # oldest /\ v \in Versions => left[v] = g[v]
    BY Zenon, <1>1, <1>2, <1>4
  <2>13. (Live(i) /\ RequiresStreamEntry(stream)) => left[base[i].rev] = g[base[i].rev]
    <3> SUFFICES ASSUME Live(i), RequiresStreamEntry(stream) PROVE left[base[i].rev] = g[base[i].rev]
      BY ZenonT(60)
    <3>1. base[i].rev \in Versions /\ base[i].rev \in Nat
      <4>1. base[i].rev \in Nat /\ base[i].rev > 0 /\ base[i].rev <= MaxVersion[i]
        BY Zenon, BaseTyped DEF HistoryExact
      <4> QED
        BY <4>1, ImageTypes
    <3>2. oldest < base[i].rev
      BY Zenon, <2>7, <2>9
    <3>3. oldest # base[i].rev
      BY SMTT(60), <3>1, <3>2
    <3> QED
      BY ZenonT(60), <2>12, <3>1, <3>3
  <2>14. ASSUME NEW p \in r + 1 .. Len(log), log[p].item = i
         PROVE  /\ left[log[p].ver] = g[log[p].ver]
                /\ log[p].prev # 0 => left[log[p].prev] = g[log[p].prev]
    <3> DEFINE v == log[p].ver
               u == log[p].prev
    <3>1. p \in 1 .. Len(log) /\ p \in Nat /\ p > r
      BY SMTT(60), LogTyped
    <3>2. /\ v \in Versions /\ v \in Nat
          /\ u # 0 => u \in Versions /\ u = v - 1 /\ u \in Nat
      BY Zenon, <3>1, EntryVersions, ImageTypes
    <3>3. g[v].pos = p /\ (u # 0 => g[u] # NoEntry)
      BY ZenonT(60), <2>14 DEF Kept, HeldIn, g
    <3>4. g[v] # NoEntry
      BY SMTT(60), <3>1, <3>3 DEF NoEntry
    <3>5. v \in entries /\ (u # 0 => u \in entries)
      BY Zenon, <2>5, <3>2, <3>3, <3>4
    <3>6. v \in page => v \in unretired /\ Previous(g, v) = u
      BY ZenonT(60), <2>10, <3>1, <3>3 DEF Previous
    <3> HIDE DEF u, v
    <3>7. v # oldest
      <4> SUFFICES ASSUME v = oldest PROVE FALSE
        BY ZenonT(60)
      <4>1. v \in unretired /\ Previous(g, v) = u
        BY Zenon, <2>4, <3>6
      <4>2. Min(unretired) = v
        BY SMTT(60), <2>8, <2>11, <4>1
      <4> QED
        BY SMTT(60), <2>7, <2>8, <3>2, <4>1, <4>2
    <3>8. u # 0 => u # oldest
      <4> SUFFICES ASSUME u # 0, u = oldest PROVE FALSE
        BY ZenonT(60)
      <4>1. v \in unretired /\ Previous(g, v) = u
        BY <2>4, <3>2, <3>5, <3>6
      <4>2. Min(unretired) \in Nat /\ oldest <= Min(unretired) /\ Min(unretired) <= v
        BY ZenonT(60), <2>8, <2>11, <4>1
      <4>3. CASE Min(unretired) = v
        BY SMTT(60), <2>7, <2>8, <3>2, <4>1, <4>3
      <4>4. CASE Min(unretired) = u
        <5>1. Previous(g, u) \in {0, u - 1} /\ u \in unretired
          BY ZenonT(60), <2>8, <2>11, <4>1, <4>4
        <5>2. CASE Previous(g, u) = 0
          BY SMTT(60), <2>7, <2>8, <3>2, <4>1, <4>4, <5>2
        <5>3. CASE Previous(g, u) # 0
          BY SMTT(60), <2>7, <2>8, <3>2, <4>1, <4>4, <5>1, <5>3
        <5> QED
          BY ZenonT(60), <5>2, <5>3
      <4> QED
        BY SMTT(60), <3>2, <4>2, <4>3, <4>4
    <3> QED
      BY Zenon, <2>12, <3>2, <3>7, <3>8 DEF u, v
  <2> QED
    BY Zenon, <2>12, <2>13, <2>14 DEF left, g, H
<1> QED
  BY Zenon, <1>3, <1>4

(* The plans of some items keep what the cleanup has to keep. *)
LEMMA PlansKeep ==
    ASSUME SmallestExists, OldestFirst, TypeOK, LogOrdered, HistoryExact,
           NEW r \in Nat, NEW h, Kept(h, r), NEW g, g = [i \in Items |-> g[i]],
           \A i \in Items : g[i] = h[i] \/ g[i] = Plan(i, h[i], r).left
    PROVE  Kept(g, r)
<1> DEFINE H == [img : Images \cup {Absent}, pos : Int]
<1>1. ASSUME NEW i \in Items
      PROVE  /\ g[i] \in [Versions -> H]
             /\ \A v \in Versions : g[i][v] \in {h[i][v], NoEntry}
             /\ (Live(i) /\ RequiresStreamEntry(stream)) => g[i][base[i].rev] = h[i][base[i].rev]
             /\ \A p \in r + 1 .. Len(log) : log[p].item = i =>
                   /\ g[i][log[p].ver] = h[i][log[p].ver]
                   /\ log[p].prev # 0 => g[i][log[p].prev] = h[i][log[p].prev]
  <2>1. CASE g[i] = h[i]
    BY ZenonT(60), <2>1 DEF Kept
  <2>2. CASE g[i] = Plan(i, h[i], r).left
    BY SMTT(60), <2>2, PlanKeepsEntries
  <2> QED
    BY ZenonT(60), <2>1, <2>2
<1> HIDE DEF H
<1>2. g \in [Items -> [Versions -> H]]
  BY ZenonT(60), <1>1
<1>3. \A i \in Items, v \in Versions : g[i][v] \in {history[i][v], NoEntry}
  BY Zenon, <1>1 DEF Kept
<1>4. \A i \in Items : (/\ Live(i) /\ RequiresStreamEntry(stream)
                        /\ history[i][base[i].rev] # NoEntry) => g[i][base[i].rev] # NoEntry
  BY ZenonT(60), <1>1 DEF Kept
<1>5. \A p \in r + 1 .. Len(log) : HeldIn(g, p)
  <2>1. \A p \in r + 1 .. Len(log) : log[p].item \in Items
    <3>1. \A p \in r + 1 .. Len(log) : p \in 1 .. Len(log)
      BY SMTT(60), LogTyped
    <3> QED
      BY ZenonT(60), <3>1, LogTyped
  <2> QED
    BY ZenonT(60), <1>1, <2>1 DEF Kept, HeldIn
<1> QED
  BY ZenonT(60), <1>2, <1>3, <1>4, <1>5 DEF Kept, H

(* The positions a pointer wave reaches (observe_lane, apply_lane): it retires  *)
(* no entry that is not in the stream, and cleans none that is not retired.   *)
LEMMA WaveFrontier ==
    ASSUME LargestExists, GsiInvariant, NEW expired
    PROVE  LET wave == PointerWave(expired)
           IN  /\ wave.retired \in Nat /\ wave.cleaned \in Nat
               /\ frontier.retired <= wave.retired /\ wave.retired <= Len(log)
               /\ wave.cleaned <= wave.retired
<1> DEFINE candidates == Retirable(expired)
           retired == Retired(candidates)
           plans == [i \in {log[p].item : p \in candidates} |-> Plan(i, history[i], retired)]
           open == {p \in candidates : ~ plans[log[p].item].complete}
           visited == {p \in candidates : \A q \in open : p <= q}
           wave == PointerWave(expired)
           done == (visited \ open) \cup {frontier.cleaned}
<1>1. /\ wave.retired = retired
      /\ wave.cleaned = IF PointerPage = {} THEN retired ELSE Max(done)
  BY ZenonT(60) DEF PointerWave
<1>2. /\ frontier.retired \in Nat /\ frontier.cleaned \in Nat /\ Len(log) \in Nat
      /\ frontier.cleaned <= frontier.retired /\ frontier.retired <= Len(log)
  BY Zenon, LogTyped, FrontierTyped DEF GsiInvariant
<1>3. candidates \in SUBSET Nat /\ \A p \in candidates : p <= Len(log)
  BY SMTT(60), <1>2 DEF Retirable, PointerPage
<1>4. candidates # {} => PointerPage # {}
  BY Zenon DEF Retirable
<1> DEFINE reached == candidates \cup {frontier.retired}
<1>5. reached \in SUBSET Nat /\ reached # {} /\ \A n \in reached : n <= Len(log)
  BY Zenon, <1>2, <1>3
<1>6. Max(reached) \in reached /\ \A n \in reached : n <= Max(reached)
  BY ZenonT(60), <1>2, <1>5 DEF LargestExists
<1>7. retired = IF PointerPage = {} /\ ~ Forever THEN Len(log) ELSE Max(reached)
  BY ZenonT(60) DEF Retired
<1>8. done \subseteq candidates \cup {frontier.cleaned}
  BY Zenon
<1> HIDE DEF candidates, retired, done, wave, reached
<1>9. /\ retired \in Nat /\ frontier.retired <= retired /\ retired <= Len(log)
      /\ \A p \in candidates : p <= retired
  <2>1. \A n \in reached : n \in Nat /\ n <= Max(reached) /\ n <= Len(log)
    BY ZenonT(60), <1>5, <1>6
  <2>2. frontier.retired \in reached /\ candidates \subseteq reached /\ Max(reached) \in reached
    BY ZenonT(60), <1>6 DEF reached
  <2>3. CASE retired = Len(log)
    BY <1>2, <1>3, <2>3
  <2>4. CASE retired = Max(reached)
    BY ZenonT(60), <2>1, <2>2, <2>4
  <2> QED
    BY Zenon, <1>7, <2>3, <2>4
<1>10. done \in SUBSET Nat /\ \A n \in done : n <= retired
  BY SMTT(60), <1>2, <1>3, <1>8, <1>9
<1>11. done # {}
  BY ZenonT(60) DEF done
<1>12. Max(done) \in done
  BY Zenon, <1>9, <1>10, <1>11 DEF LargestExists
<1>13. wave.cleaned \in Nat /\ wave.cleaned <= wave.retired
  <2>1. CASE wave.cleaned = retired
    BY SMTT(60), <1>1, <1>9, <2>1
  <2>2. CASE wave.cleaned = Max(done)
    <3>1. wave.cleaned \in done
      BY ZenonT(60), <1>12, <2>2
    <3>2. wave.cleaned \in Nat /\ wave.cleaned <= retired
      BY ZenonT(60), <1>10, <3>1
    <3> QED
      BY ZenonT(60), <1>1, <3>2
  <2> QED
    BY ZenonT(60), <1>1, <2>1, <2>2
<1> QED
  BY Zenon, <1>1, <1>9, <1>13 DEF wave

(* The histories a pointer wave leaves are kept. *)
LEMMA WaveKeeps ==
    ASSUME SmallestExists, LargestExists, OldestFirst, GsiInvariant, NEW expired
    PROVE  Kept(PointerWave(expired).history, PointerWave(expired).retired)
<1> DEFINE candidates == Retirable(expired)
           retired == Retired(candidates)
           plans == [i \in {log[p].item : p \in candidates} |-> Plan(i, history[i], retired)]
           open == {p \in candidates : ~ plans[log[p].item].complete}
           visited == {p \in candidates : \A q \in open : p <= q}
           swept == [i \in Items |-> IF \E p \in visited : log[p].item = i
                                     THEN plans[i].left ELSE history[i]]
<1>1. PointerWave(expired).history = swept /\ PointerWave(expired).retired = retired
  BY ZenonT(60) DEF PointerWave
<1>2. TypeOK /\ LogOrdered /\ HistoryExact /\ HistoryHeld
  BY Zenon DEF GsiInvariant
<1>3. retired \in Nat /\ frontier.retired <= retired /\ frontier.retired \in Nat /\ Len(log) \in Nat
  <2>1. PointerWave(expired).retired \in Nat /\ frontier.retired <= PointerWave(expired).retired
    BY ZenonT(60), WaveFrontier
  <2>2. frontier.retired \in Nat /\ Len(log) \in Nat
    BY <1>2, LogTyped, FrontierTyped, Zenon
  <2> QED
    BY <1>1, <2>1, <2>2, Zenon
<1>4. Kept(history, retired)
  <2>1. history \in [Items -> [Versions -> [img : Images \cup {Absent}, pos : Int]]]
    BY ZenonT(60), <1>2 DEF TypeOK
  <2> HIDE DEF retired
  <2>2. \A p \in retired + 1 .. Len(log) : p \in frontier.retired + 1 .. Len(log)
    BY SMTT(60), <1>3
  <2>3. \A p \in retired + 1 .. Len(log) : HeldIn(history, p)
    BY Zenon, <1>2, <2>2 DEF HistoryHeld, Held, HeldIn
  <2> QED
    BY ZenonT(60), <2>1, <2>3 DEF Kept
<1>5. ASSUME NEW i \in Items
      PROVE  swept[i] = history[i] \/ swept[i] = Plan(i, history[i], retired).left
  <2>1. CASE \E p \in visited : log[p].item = i
    <3>1. i \in {log[p].item : p \in candidates}
      BY ZenonT(60), <2>1
    <3>2. plans[i] = Plan(i, history[i], retired)
      BY Zenon, <3>1
    <3> QED
      BY Zenon, <2>1, <3>2
  <2>2. CASE ~ \E p \in visited : log[p].item = i
    BY Zenon, <2>2
  <2> QED
    BY Zenon, <2>1, <2>2
<1>6. swept = [i \in Items |-> swept[i]]
  BY Zenon
<1> HIDE DEF retired, swept
<1>7. Kept(swept, retired)
  BY Zenon, <1>2, <1>3, <1>4, <1>5, <1>6, PlansKeep
<1> QED
  BY ZenonT(60), <1>1, <1>7

(* A step that leaves histories that are kept, up to an end of the stream that  *)
(* is retired, keeps the invariant.                                        *)
LEMMA KeptKeeps ==
    ASSUME GsiInvariant, NEW r \in Nat, frontier.retired <= r, r <= Len(log), Kept(history', r),
           frontier' \in [retired : Nat, cleaned : Nat, sweep : Sweep],
           frontier'.retired = r, frontier'.cleaned <= r,
           UNCHANGED <<base, log, rows, builds, created, updates, stream, pending, trimmed, turn>>
    PROVE  GsiInvariant'
<1>1. /\ TypeOK /\ CaptureHeld /\ CurrentImageHeld /\ HistoryHeld /\ LogOrdered
      /\ HistoryExact /\ BuildsOrdered /\ RowsTrue /\ SourcesSeen
  BY ZenonT(60) DEF GsiInvariant
<1>2. /\ history' \in [Items -> [Versions -> [img : Images \cup {Absent}, pos : Int]]]
      /\ \A i \in Items, v \in Versions : history'[i][v] \in {history[i][v], NoEntry}
      /\ \A i \in Items : (/\ Live(i) /\ RequiresStreamEntry(stream)
                           /\ history[i][base[i].rev] # NoEntry) => history'[i][base[i].rev] # NoEntry
      /\ \A p \in r + 1 .. Len(log) : HeldIn(history', p)
  BY Zenon DEF Kept
<1>3. TypeOK'
  BY <1>1, <1>2, Zenon DEF TypeOK
<1>4. CaptureHeld' /\ LogOrdered' /\ BuildsOrdered' /\ RowsTrue'
  BY ZenonT(60), <1>1, CaptureFrame, LogFrame, BuildsFrame, RowsFrame
<1>5. CurrentImageHeld'
  BY ZenonT(60), <1>1, <1>2 DEF CurrentImageHeld, Live, RequiresStreamEntry
<1>6. HistoryHeld'
  BY ZenonT(60), <1>2 DEF HistoryHeld, Held, HeldIn
<1>7. HistoryExact'
  <2>1. \A i \in Items, v \in Versions : history'[i][v] # NoEntry => history'[i][v] = history[i][v]
    BY ZenonT(60), <1>2
  <2> QED
    BY SMTT(60), <1>1, <2>1 DEF HistoryExact, Live
<1>8. SourcesSeen'
  <2>1. Targets' = Targets /\ \A x : Unread(x)' = Unread(x) /\ Unread(x) \subseteq 1 .. Len(log)
    BY ZenonT(60) DEF Targets, Existing, Unread, Runnable
  <2>2. \A x, row, s : Seen(x, row, s)' <=> Seen(x, row, s)
    BY ZenonT(60) DEF Seen
  <2>3. ASSUME NEW p \in 1 .. Len(log), Held(p)'
        PROVE  Held(p) /\ \A x : StreamSources(x, p)' = StreamSources(x, p)
    <3> DEFINE i == log[p].item
               v == log[p].ver
               u == log[p].prev
    <3>1. i \in Items /\ v \in Versions /\ (u # 0 => u \in Versions)
      BY ZenonT(60), <1>1, EntryVersions
    <3>2. history'[i][v].pos = p /\ (u # 0 => history'[i][u] # NoEntry)
      BY ZenonT(60), <2>3 DEF Held
    <3>3. NoEntry.pos # p
      BY DEF NoEntry
    <3>4. history'[i][v] = history[i][v] /\ (u # 0 => history'[i][u] = history[i][u])
      BY Zenon, <1>2, <3>1, <3>2, <3>3
    <3>5. Held(p)
      BY ZenonT(60), <3>2, <3>4 DEF Held
    <3>6. OldImage(p)' = OldImage(p) /\ NewImage(p)' = NewImage(p)
      BY ZenonT(60), <3>4 DEF OldImage, NewImage
    <3> QED
      BY ZenonT(60), <3>5, <3>6 DEF StreamSources, Source, Projected
  <2> QED
    BY ZenonT(60), <1>1, <2>1, <2>2, <2>3 DEF SourcesSeen
<1> QED
  BY ZenonT(60), <1>3, <1>4, <1>5, <1>6, <1>7, <1>8 DEF GsiInvariant

(* A cleanup wave, with the step of a sweep or without, keeps the invariant. *)
LEMMA CleanupWaveKeeps ==
    ASSUME SmallestExists, LargestExists, OldestFirst, GsiInvariant, CleanupWave
    PROVE  GsiInvariant'
<1>1. UNCHANGED <<base, log, rows, builds, created, updates, stream, pending, trimmed, turn>>
  BY ZenonT(60) DEF CleanupWave
<1>2. PICK e : LET wave == PointerWave(e)
               IN  \/ /\ history' = wave.history
                      /\ frontier' = [frontier EXCEPT !.retired = wave.retired,
                                                      !.cleaned = wave.cleaned]
                   \/ /\ frontier.sweep.on /\ wave.cleaned = wave.retired
                      /\ SweepHistories(wave.history, wave.retired)
  BY Zenon DEF CleanupWave
<1> DEFINE wave == PointerWave(e)
           r == wave.retired
<1>3. /\ r \in Nat /\ wave.cleaned \in Nat /\ frontier.retired <= r /\ r <= Len(log)
      /\ wave.cleaned <= r
  BY Zenon, WaveFrontier
<1>4. Kept(wave.history, r)
  BY Zenon, WaveKeeps
<1>5. /\ TypeOK /\ LogOrdered /\ HistoryExact
      /\ frontier \in [retired : Nat, cleaned : Nat, sweep : Sweep]
  BY ZenonT(60) DEF GsiInvariant, TypeOK
<1> HIDE DEF wave
<1>6. CASE /\ history' = wave.history
           /\ frontier' = [frontier EXCEPT !.retired = wave.retired, !.cleaned = wave.cleaned]
  <2>1. /\ frontier' \in [retired : Nat, cleaned : Nat, sweep : Sweep]
        /\ frontier'.retired = r /\ frontier'.cleaned <= r
    BY ZenonT(60), <1>3, <1>5, <1>6
  <2>2. Kept(history', r)
    BY ZenonT(60), <1>4, <1>6
  <2> QED
    BY Zenon, <1>1, <1>3, <2>1, <2>2, KeptKeeps
<1>7. CASE SweepHistories(wave.history, wave.retired)
  <2> DEFINE h == wave.history
  <2>1. CASE Swept(h) = {}
    <3>1. /\ history' = h
          /\ frontier' = [retired |-> r, cleaned |-> r,
                          sweep |-> IF frontier.sweep.retry THEN NewSweep ELSE NoSweep]
      BY ZenonT(60), <1>7, <2>1 DEF SweepHistories
    <3>2. NewSweep \in Sweep /\ NoSweep \in Sweep
      BY ZenonT(60) DEF NewSweep, NoSweep, Sweep
    <3>3. /\ frontier' \in [retired : Nat, cleaned : Nat, sweep : Sweep]
          /\ frontier'.retired = r /\ frontier'.cleaned <= r
      BY <1>3, <3>1, <3>2
    <3> QED
      BY Zenon, <1>1, <1>3, <1>4, <3>1, <3>3, KeptKeeps
  <2>2. CASE Swept(h) # {}
    <3> DEFINE i == Min(Swept(h))
               plan == Plan(i, h[i], r)
               sweep == [frontier.sweep EXCEPT !.after = IF plan.complete THEN i ELSE @,
                                               !.retry = @ \/ plan.retries]
    <3>1. /\ history' = [h EXCEPT ![i] = plan.left]
          /\ frontier' = [retired |-> r, cleaned |-> r, sweep |-> sweep]
      BY ZenonT(60), <1>7, <2>2 DEF SweepHistories
    <3>2. i \in Items /\ i \in Nat
      <4>1. Swept(h) \in SUBSET Nat /\ Swept(h) \subseteq Items
        BY SMTT(60), GsiAssumption DEF Swept, Items
      <4> QED
        BY ZenonT(60), <2>2, <4>1 DEF SmallestExists
    <3>3. sweep \in Sweep
      <4>1. frontier.sweep \in [on : BOOLEAN, after : Nat, retry : BOOLEAN]
        BY ZenonT(60), <1>5 DEF Sweep
      <4> HIDE DEF plan, i
      <4>2. (frontier.sweep.retry \/ plan.retries) \in BOOLEAN
        BY Zenon
      <4> QED
        BY Zenon, <3>2, <4>1, <4>2 DEF Sweep
    <3> HIDE DEF sweep
    <3>4. /\ frontier' \in [retired : Nat, cleaned : Nat, sweep : Sweep]
          /\ frontier'.retired = r /\ frontier'.cleaned <= r
      BY <1>3, <3>1, <3>3
    <3>5. h \in [Items -> [Versions -> [img : Images \cup {Absent}, pos : Int]]]
      BY ZenonT(60), <1>4 DEF Kept
    <3> HIDE DEF plan, i, h
    <3>6. /\ history' = [j \in Items |-> history'[j]]
          /\ \A j \in Items \ {i} : history'[j] = h[j]
          /\ history'[i] = plan.left
      BY Zenon, <3>1, <3>2, <3>5
    <3>7. \A j \in Items : history'[j] = h[j] \/ history'[j] = Plan(j, h[j], r).left
      BY ZenonT(60), <3>6 DEF plan
    <3>8. Kept(history', r)
      BY ZenonT(60), <1>3, <1>4, <1>5, <3>6, <3>7, PlansKeep DEF h
    <3> QED
      BY Zenon, <1>1, <1>3, <3>4, <3>8, KeptKeeps
  <2> QED
    BY Zenon, <2>1, <2>2
<1> QED
  BY Zenon, <1>2, <1>6, <1>7 DEF wave

(* The trim of the system stream touches no history of the table. *)
LEMMA TrimSystemKeeps ==
    ASSUME GsiInvariant, TrimSystem
    PROVE  GsiInvariant'
<1>1. /\ TypeOK /\ CaptureHeld /\ CurrentImageHeld /\ HistoryHeld /\ LogOrdered
      /\ HistoryExact /\ BuildsOrdered /\ RowsTrue /\ SourcesSeen
      /\ frontier.cleaned <= frontier.retired /\ frontier.retired <= Len(log)
  BY ZenonT(60) DEF GsiInvariant
<1>2. UNCHANGED <<base, log, history, rows, builds, created, updates, stream, pending,
                  frontier, turn>>
  BY Zenon DEF TrimSystem
<1>3. trimmed' \in Nat
  <2>1. trimmed \in Nat /\ Len(log) \in Nat
    BY Zenon, <1>1, LogTyped DEF TypeOK
  <2> QED
    BY SMTT(60), <2>1 DEF TrimSystem
<1>4. TypeOK'
  BY ZenonT(60), <1>1, <1>2, <1>3 DEF TypeOK
<1>5. CaptureHeld' /\ CurrentImageHeld' /\ HistoryHeld' /\ LogOrdered'
  BY ZenonT(60), <1>1, <1>2, CaptureFrame, CurrentImageFrame, HistoryHeldFrame, LogFrame
<1>6. HistoryExact' /\ BuildsOrdered' /\ RowsTrue' /\ SourcesSeen'
  BY ZenonT(60), <1>1, <1>2, HistoryExactFrame, BuildsFrame, RowsFrame, SeenFrame
<1> QED
  BY ZenonT(60), <1>1, <1>2, <1>4, <1>5, <1>6 DEF GsiInvariant

-----------------------------------------------------------------------------
(* New tables, item writes and table updates                               *)

(* A new table, with items or without, satisfies the invariant. *)
LEMMA InitHolds ==
    ASSUME Init
    PROVE  GsiInvariant
<1> DEFINE H == [img : Images \cup {Absent}, pos : Int]
           R == [rev : Nat, val : Vals \cup {Gone}]
<1>1. /\ log = <<>> /\ Len(log) = 0
      /\ history = [i \in Items |-> [v \in Versions |-> NoEntry]]
      /\ rows = [x \in Indexes |-> [i \in Items |-> [k \in Keys |-> NoRow]]]
      /\ builds = [x \in Indexes |-> NoBuild]
      /\ created = 0 /\ updates = 0
      /\ stream = [public |-> FALSE, updating |-> FALSE, capture |-> {}]
      /\ pending = NoInitialization
      /\ frontier = [retired |-> 0, cleaned |-> 0, sweep |-> NoSweep]
      /\ trimmed = 0 /\ turn = 0
  BY ZenonT(60) DEF Init
<1>2. \A i \in Items : \/ base[i] = [rev |-> 0, img |-> Absent]
                       \/ base[i].rev = 1 /\ base[i].img \in Images
  <2>1. base \in [Items -> {[rev |-> 0, img |-> Absent]} \cup [rev : {1}, img : Images]]
    BY ZenonT(60) DEF Init
  <2> QED
    BY Zenon, <2>1
<1>3. base \in [Items -> [rev : Nat, img : Images \cup {Absent}]]
  <2>1. base \in [Items -> {[rev |-> 0, img |-> Absent]} \cup [rev : {1}, img : Images]]
    BY Zenon DEF Init
  <2> QED
    BY <2>1
<1>4. NoEntry \in H /\ NoRow \in R /\ NoBuild \in Build /\ NoSweep \in Sweep
  BY SMTT(60) DEF NoEntry, NoRow, NoBuild, Build, Phases, NoSweep, Sweep
<1>5. TypeOK
  <2> HIDE DEF H, R
  <2>1. history \in [Items -> [Versions -> H]] /\ builds \in [Indexes -> Build]
    BY ZenonT(60), <1>1, <1>4
  <2>2. rows \in [Indexes -> [Items -> [Keys -> R]]]
    BY ZenonT(60), <1>1, <1>4
  <2>3. log \in Seq([item : Items, ver : Nat \ {0}, prev : Nat])
    BY SMTT(60), <1>1
  <2>4. /\ stream \in [public : BOOLEAN, updating : BOOLEAN, capture : SUBSET Indexes]
        /\ frontier \in [retired : Nat, cleaned : Nat, sweep : Sweep]
        /\ pending \in Int /\ created \in Nat /\ updates \in Nat /\ trimmed \in Nat /\ turn \in Nat
    BY SMTT(60), <1>1, <1>4 DEF NoInitialization
  <2> QED
    BY <1>3, <2>1, <2>2, <2>3, <2>4, Zenon DEF TypeOK, H, R
<1>6. \A x \in Indexes : builds[x] = NoBuild /\ builds[x].phase = "none"
  BY ZenonT(60), <1>1 DEF NoBuild
<1>7. Candidates = {} /\ Targets = {}
  BY ZenonT(60), <1>6 DEF Candidates, Targets, Existing, Runnable
<1>8. CaptureHeld /\ CurrentImageHeld /\ RowsTrue /\ SourcesSeen
  BY ZenonT(60), <1>1, <1>7 DEF CaptureHeld, CurrentImageHeld, RowsTrue, SourcesSeen
<1>9. HistoryHeld /\ LogOrdered
  <2>1. 1 .. Len(log) = {} /\ frontier.retired + 1 .. Len(log) = {}
    BY SMTT(60), <1>1
  <2> QED
    BY ZenonT(60), <2>1 DEF HistoryHeld, LogOrdered
<1>10. HistoryExact
  <2>1. \A i \in Items : MaxVersion[i] \in Nat \ {0}
    BY ZenonT(60), GsiAssumption
  <2>2. \A i \in Items : base[i].rev <= MaxVersion[i] /\ (Live(i) => base[i].rev > 0)
    BY SMTT(60), <1>2, <2>1 DEF Live
  <2>3. \A i \in Items, v \in Versions : history[i][v] = NoEntry
    BY Zenon, <1>1
  <2> QED
    BY Zenon, <2>2, <2>3 DEF HistoryExact
<1>11. BuildsOrdered
  BY ZenonT(60), <1>1, <1>6 DEF BuildsOrdered, Runnable
<1>12. frontier.cleaned <= frontier.retired /\ frontier.retired <= Len(log)
  BY SMTT(60), <1>1
<1> QED
  BY ZenonT(60), <1>5, <1>8, <1>9, <1>10, <1>11, <1>12 DEF GsiInvariant

(* The put of an image and the delete of an item keep the invariant. *)
LEMMA ItemWritesKeep ==
    ASSUME GsiInvariant, NEW i \in Items, Put(i) \/ Delete(i)
    PROVE  GsiInvariant' /\ UNCHANGED builds
<1>1. UNCHANGED Unwritten
  BY ZenonT(60) DEF Put, Delete
<1>2. \E new \in Images \cup {Absent} : Write(i, new)
  BY Zenon DEF Put, Delete
<1> QED
  BY ZenonT(60), <1>1, <1>2, WriteKeeps DEF Unwritten

(* The builds a table update leaves are those before it, a new one or none. *)
LEMMA UpdatedBuilds ==
    ASSUME TypeOK, UpdateTable
    PROVE  \A x \in Indexes : builds'[x] = builds[x] \/ builds'[x].phase \in {"scanning", "none"}
<1>1. builds \in [Indexes -> Build]
  BY ZenonT(60) DEF TypeOK
<1>2. CASE \E request \in {"enable", "disable"} : UpdateStream(request)
  BY Zenon, <1>2 DEF UpdateStream
<1>3. CASE \E request \in {"keep", "enable", "disable"} : CreateIndex(request)
  <2> DEFINE started == [phase |-> "scanning", cursor |-> Len(log), bound |-> 0]
  <2>1. builds' = [builds EXCEPT ![created + 1] = started]
    BY ZenonT(60), <1>3 DEF CreateIndex
  <2>2. started.phase = "scanning"
    BY Zenon
  <2> HIDE DEF started
  <2> QED
    BY Zenon, <1>1, <2>1, <2>2
<1>4. CASE \E request \in {"keep", "enable", "disable"}, x \in Indexes : DeleteIndex(request, x)
  <2>1. PICK x \in Indexes : builds' = [builds EXCEPT ![x] = NoBuild]
    BY ZenonT(60), <1>4 DEF DeleteIndex
  <2>2. NoBuild.phase = "none"
    BY Zenon DEF NoBuild
  <2> QED
    BY Zenon, <1>1, <2>1, <2>2
<1> QED
  BY Zenon, <1>2, <1>3, <1>4 DEF UpdateTable

-----------------------------------------------------------------------------
(* Smallest and largest members                                            *)



(* A set of numbers has a smallest member (the first candidate of a turn, the *)
(* oldest entry of a history).                                             *)
LEMMA SmallestMember ==
    ASSUME NEW S \in SUBSET Nat, S # {}
    PROVE  Min(S) \in S /\ \A n \in S : Min(S) <= n
<1>1. PICK m \in S : \A n \in S : <<n, m>> \notin OpToRel(<, Nat)
  BY Zenon, NatLessThanWellFounded, WFMin
<1>2. m \in Nat /\ \A n \in S : n \in Nat /\ ~ (n < m)
  BY ZenonT(60), <1>1 DEF OpToRel
<1>3. \A n \in S : m <= n
  BY <1>2
<1> QED
  BY Zenon, <1>3 DEF Min

(* A bounded set of numbers has a largest member (the last item of a page, the *)
(* last entry that is retired).                                            *)
LEMMA LargestMember ==
    ASSUME NEW S \in SUBSET Nat, S # {}, NEW b \in Nat, \A n \in S : n <= b
    PROVE  Max(S) \in S /\ \A n \in S : n <= Max(S)
<1> DEFINE bounds == {c \in Nat : \A n \in S : n <= c}
           m == Min(bounds)
<1>1. bounds \in SUBSET Nat /\ bounds # {}
  BY Zenon
<1>2. m \in bounds /\ \A c \in bounds : m <= c
  BY Zenon, <1>1, SmallestMember
<1>3. m \in S
  <2>1. SUFFICES ASSUME m \notin S PROVE FALSE
    BY ZenonT(60)
  <2>2. m \in Nat /\ \A n \in S : n \in Nat /\ n <= m /\ n # m
    BY Zenon, <1>2, <2>1
  <2> HIDE DEF m
  <2>3. m - 1 \in Nat /\ \A n \in S : n <= m - 1
    <3>1. PICK n \in S : TRUE
      BY ZenonT(60)
    <3>2. m > 0
      BY <2>2, <3>1
    <3> QED
      BY SMTT(60), <2>2, <3>2
  <2>4. m - 1 \in bounds
    BY ZenonT(60), <2>3
  <2> QED
    BY SMTT(60), <1>2, <2>2, <2>4
<1>4. \A n \in S : n <= m /\ n \in Nat
  BY ZenonT(60), <1>2
<1>5. m \in S /\ \A n \in S : m >= n
  BY ZenonT(60), <1>3, <1>4
<1> HIDE DEF m, bounds
<1> QED
  BY Zenon, <1>5 DEF Max

(* A page of live items starts where the last one ended and leaves none out up *)
(* to its own last item (scan_primary_items and its continuation).           *)
LEMMA PageTakesFirst ==
    ASSUME NEW after \in Int
    PROVE  /\ Page(after) \subseteq Following(after)
           /\ Following(after) \subseteq Items
           /\ More(after) =>
                /\ Max(Page(after)) \in Page(after)
                /\ \A i \in Following(after) : i <= Max(Page(after)) => i \in Page(after)
<1> DEFINE F == Following(after)
           before(i) == {j \in F : j < i}
<1>1. Page(after) \subseteq F /\ F \subseteq Items
  BY ZenonT(60) DEF Page, Following
<1>0. \A i : i \in Page(after) <=> i \in F /\ Cardinality(before(i)) < ScanPage
  BY Zenon DEF Page
<1>2. Items \subseteq Nat /\ LastItem \in Nat /\ ScanPage \in Nat \ {0}
  BY GsiAssumption DEF Items
<1>3. IsFiniteSet(Items)
  BY <1>2, FS_Interval DEF Items
<1>4. \A i \in Items : IsFiniteSet(before(i)) /\ Cardinality(before(i)) \in Nat
  <2>1. TAKE i \in Items
  <2>2. before(i) \in SUBSET Items
    BY Zenon, <1>1
  <2> HIDE DEF before
  <2> QED
    BY Zenon, <1>3, <2>2, FS_Subset, FS_CardinalityType
<1>5. ASSUME NEW i \in F, NEW m \in Page(after), i <= m PROVE i \in Page(after)
  <2>1. i \in Items /\ m \in Items /\ Cardinality(before(m)) < ScanPage
    <3> HIDE DEF before, F
    <3> QED
      BY Zenon, <1>0, <1>1, <1>5
  <2>2. before(i) \in SUBSET before(m)
    <3>1. i \in Nat /\ m \in Nat /\ F \subseteq Nat
      BY Zenon, <1>1, <1>2, <2>1
    <3> HIDE DEF F
    <3>2. ASSUME NEW j \in F, j < i PROVE j < m
      BY SMTT(60), <1>5, <3>1, <3>2
    <3> QED
      BY Zenon, <3>2
  <2>3. Cardinality(before(i)) <= Cardinality(before(m))
    <3> HIDE DEF before
    <3> QED
      BY Zenon, <1>4, <2>1, <2>2, FS_Subset
  <2>4. Cardinality(before(i)) < ScanPage
    <3> HIDE DEF before
    <3> QED
      BY SMTT(60), <1>2, <1>4, <2>1, <2>3
  <2> QED
    <3> HIDE DEF before
    <3> QED
      BY Zenon, <1>0, <2>4
<1>6. ASSUME More(after) PROVE Page(after) # {}
  <2>1. F \in SUBSET Nat /\ F # {}
    BY ZenonT(60), <1>1, <1>2, <1>6 DEF More
  <2>2. Min(F) \in F /\ \A i \in F : Min(F) <= i
    BY ZenonT(60), <2>1, SmallestMember
  <2>3. before(Min(F)) = {}
    BY SMTT(60), <2>1, <2>2
  <2>4. Cardinality(before(Min(F))) < ScanPage
    BY <1>2, <2>3, FS_EmptySet
  <2> QED
    <3> HIDE DEF before
    <3> QED
      BY ZenonT(60), <1>0, <2>2, <2>4
<1>7. ASSUME More(after)
      PROVE  Max(Page(after)) \in Page(after)
  <2>1. Page(after) \in SUBSET Nat /\ \A n \in Page(after) : n <= LastItem
    BY SMTT(60), <1>1, <1>2 DEF Items
  <2> QED
    BY ZenonT(60), <1>2, <1>6, <1>7, <2>1, LargestMember
<1> QED
  BY ZenonT(60), <1>1, <1>5, <1>7

(* The two oldest entries of a history: its oldest, and the next version.     *)
LEMMA OldestPage ==
    ASSUME NEW entries \in SUBSET Nat, NEW v \in entries,
           \A w \in entries : v <= w
    PROVE  /\ Cardinality({w \in entries : w < v}) < 2
           /\ \A n \in entries : n = v + 1 => Cardinality({w \in entries : w < n}) < 2
<1>1. {w \in entries : w < v} = {}
  <2>1. \A w \in entries : ~ (w < v)
    OBVIOUS
  <2> QED
    BY ZenonT(60), <2>1
<1>2. \A n \in entries : n = v + 1 => {w \in entries : w < n} = {v}
  <2>1. \A n \in entries : n = v + 1 => \A w \in entries : w < n <=> w = v
    OBVIOUS
  <2> QED
    BY <2>1, Zenon
<1>3. Cardinality({}) = 0 /\ Cardinality({v}) = 1
  BY Zenon, FS_EmptySet, FS_Singleton
<1>4. Cardinality({w \in entries : w < v}) < 2
  BY SMTT(60), <1>1, <1>3
<1>5. ASSUME NEW n \in entries, n = v + 1 PROVE Cardinality({w \in entries : w < n}) < 2
  BY <1>2, <1>3, <1>5
<1> QED
  BY ZenonT(60), <1>4, <1>5

(* Each of them holds. *)
LEMMA SetFactsHold == SetFacts
<1>1. SmallestExists
  BY ZenonT(60), SmallestMember DEF SmallestExists
<1>2. LargestExists
  BY Zenon, LargestMember DEF LargestExists
<1>3. PagesInOrder
  BY Zenon, PageTakesFirst DEF PagesInOrder
<1>4. OldestFirst
  <2> USE DEF OldestFirst
  <2> TAKE entries \in SUBSET Nat
  <2> TAKE v \in entries
  <2> HAVE \A w \in entries : v <= w
  <2> QED
    BY OldestPage, Zenon
<1> QED
  BY Zenon, <1>1, <1>2, <1>3, <1>4 DEF SetFacts

-----------------------------------------------------------------------------
(* What holds of every table                                               *)

(* Every step keeps the invariant. *)
LEMMA StepKeeps ==
    ASSUME GsiInvariant, [Next]_vars
    PROVE  GsiInvariant'
<1>1. CASE UNCHANGED vars
  <2>1. UNCHANGED <<base, log, history, rows, builds, created, updates, stream, pending,
                    frontier, trimmed, turn>>
    BY ZenonT(60), <1>1 DEF vars
  <2>2. /\ TypeOK /\ CaptureHeld /\ CurrentImageHeld /\ HistoryHeld /\ LogOrdered
        /\ HistoryExact /\ BuildsOrdered /\ RowsTrue /\ SourcesSeen
        /\ frontier.cleaned <= frontier.retired /\ frontier.retired <= Len(log)
    BY ZenonT(60) DEF GsiInvariant
  <2>3. TypeOK'
    BY <2>1, <2>2, Zenon DEF TypeOK
  <2>4. CaptureHeld' /\ CurrentImageHeld' /\ HistoryHeld' /\ LogOrdered' /\ HistoryExact'
    BY ZenonT(60), <2>1, <2>2, CaptureFrame, CurrentImageFrame, HistoryHeldFrame, LogFrame, HistoryExactFrame
  <2>5. BuildsOrdered' /\ RowsTrue' /\ SourcesSeen'
    BY ZenonT(60), <2>1, <2>2, BuildsFrame, RowsFrame, SeenFrame
  <2>6. frontier'.cleaned <= frontier'.retired /\ frontier'.retired <= Len(log')
    BY ZenonT(60), <2>1, <2>2
  <2> QED
    BY ZenonT(60), <2>3, <2>4, <2>5, <2>6 DEF GsiInvariant
<1>2. ASSUME NEW i \in Items, Put(i) \/ Delete(i) PROVE GsiInvariant'
  BY ZenonT(60), <1>2, ItemWritesKeep
<1>3. ASSUME NEW i \in Items, DeleteAbsent(i) PROVE GsiInvariant'
  BY ZenonT(60), <1>3, DeleteAbsentKeeps
<1>4. CASE UpdateTable
  BY ZenonT(60), <1>4, UpdateTableKeeps
<1>5. CASE InitializeStream
  BY ZenonT(60), <1>5, InitializeStreamKeeps, SetFactsHold DEF SetFacts
<1>6. CASE AdvanceBuild
  BY ZenonT(60), <1>6, AdvanceBuildKeeps, SetFactsHold DEF SetFacts
<1>7. CASE TrimSystem
  BY ZenonT(60), <1>7, TrimSystemKeeps
<1>8. CASE CleanupWave
  BY ZenonT(60), <1>8, CleanupWaveKeeps, SetFactsHold DEF SetFacts
<1> QED
  BY Zenon, <1>1, <1>2, <1>3, <1>4, <1>5, <1>6, <1>7, <1>8 DEF Next

(* What the index builds, the live writes and the cleanup rely on holds of       *)
(* every table at every moment (write_gsi_transition, live projections,        *)
(* capture_initial_predecessor, plan_cleanup): no unretired entry loses an     *)
(* image, every build is fed, and the rows have seen what the replay brings.   *)
THEOREM GsiInvariance == Spec => []GsiInvariant
<1>1. Init => GsiInvariant
  BY ZenonT(60), InitHolds
<1>2. GsiInvariant /\ [Next]_vars => GsiInvariant'
  BY Zenon, StepKeeps
<1> QED
  BY <1>1, <1>2, PTL DEF Spec

(* An index that is active holds exactly the projection of the table, whatever  *)
(* writes, scans, replays, table updates and cleanups came before             *)
(* (decide_activation_change is right to open the index to queries).          *)
THEOREM IndexesStayExact == Spec => []IndexesExact
<1>1. GsiInvariant => IndexesExact
  <2> SUFFICES ASSUME GsiInvariant, NEW x \in Indexes, builds[x].phase = "active",
                      NEW i \in Items, NEW k \in Keys
               PROVE  rows[x][i][k].val =
                         IF base[i].img.key = k THEN Projected(x, base[i].img) ELSE Gone
    BY Zenon DEF IndexesExact
  <2>1. x \in Targets
    BY Zenon DEF Targets, Existing, Blocked
  <2>2. /\ rows[x][i][k].val # Gone =>
              /\ base[i].img.key = k
              /\ rows[x][i][k].val = Projected(x, base[i].img)
        /\ (rows[x][i][k].val = Gone /\ base[i].img.key = k) => builds[x].phase = "scanning"
    BY ZenonT(60), <2>1 DEF GsiInvariant, RowsTrue
  <2> QED
    BY ZenonT(60), <2>2
<1> QED
  BY <1>1, GsiInvariance, PTL

(* The steps of a build, of whatever action. *)
LEMMA BuildSteps ==
    ASSUME GsiInvariant, [Next]_vars
    PROVE  \A x \in Indexes :
              \/ builds'[x] = builds[x]
              \/ builds'[x].phase \in {"none", "scanning", "catching_up", "active"}
              \/ /\ builds'[x].phase = "history_unavailable"
                 /\ \/ builds[x].cursor < trimmed
                    \/ \E p \in 1 .. Len(log) : builds[x].cursor < p /\ ~ Held(p)
<1>1. CASE UNCHANGED builds
  BY ZenonT(60), <1>1
<1>2. CASE UpdateTable
  <2>1. TypeOK
    BY ZenonT(60) DEF GsiInvariant
  <2> QED
    BY ZenonT(60), <1>2, <2>1, UpdatedBuilds
<1>3. CASE AdvanceBuild
  BY ZenonT(60), <1>3, AdvanceBuildKeeps, SetFactsHold DEF SetFacts
<1>4. UNCHANGED builds \/ UpdateTable \/ AdvanceBuild
  <2>1. \A i \in Items : (Put(i) \/ Delete(i) \/ DeleteAbsent(i)) => UNCHANGED builds
    BY ZenonT(60) DEF Put, Delete, DeleteAbsent, Unwritten
  <2>2. (InitializeStream \/ TrimSystem \/ CleanupWave) => UNCHANGED builds
    BY Zenon DEF InitializeStream, TrimSystem, CleanupWave
  <2>3. UNCHANGED vars => UNCHANGED builds
    BY Zenon DEF vars
  <2> QED
    BY ZenonT(60), <2>1, <2>2, <2>3 DEF Next
<1> QED
  BY ZenonT(60), <1>1, <1>2, <1>3, <1>4

(* No build ever stops at a projection conflict: decide_missing and            *)
(* decide_present never see two images of one version.                        *)
THEOREM ProjectionsNeverConflict == Spec => []NoProjectionConflict
<1>1. Init => NoProjectionConflict
  BY SMTT(60) DEF Init, NoProjectionConflict, NoBuild
<1>2. GsiInvariant /\ NoProjectionConflict /\ [Next]_vars => NoProjectionConflict'
  BY Zenon, BuildSteps DEF NoProjectionConflict
<1> QED
  BY <1>1, <1>2, GsiInvariance, PTL DEF Spec

(* A build is blocked only when the table or the system retired an entry it     *)
(* had yet to read: no race of the cleanup with a build that keeps up takes an  *)
(* image from it (GsiStreamHistory::finish, validate_observation).            *)
THEOREM BuildsBlockedOnlyByRetention == Spec => BlockedOnlyByRetention
<1>1. GsiInvariant /\ [Next]_vars =>
         [\A x \in Indexes :
             (Runnable(builds[x]) /\ builds'[x].phase = "history_unavailable") =>
                 builds[x].cursor < Max({trimmed, frontier.retired})]_vars
  <2> SUFFICES ASSUME GsiInvariant, [Next]_vars, NEW x \in Indexes, Runnable(builds[x]),
                      builds'[x].phase = "history_unavailable"
               PROVE  builds[x].cursor < Max({trimmed, frontier.retired})
    BY Zenon
  <2>1. TypeOK /\ HistoryHeld
    BY Zenon DEF GsiInvariant
  <2>2. /\ trimmed \in Nat /\ frontier.retired \in Nat /\ Len(log) \in Nat
        /\ builds[x].cursor \in Nat
    BY Zenon, <2>1, LogTyped, BuildsTyped, FrontierTyped DEF TypeOK
  <2>3. builds'[x] # builds[x]
    BY ZenonT(60) DEF Runnable
  <2>4. \/ builds[x].cursor < trimmed
        \/ \E p \in 1 .. Len(log) : builds[x].cursor < p /\ ~ Held(p)
    BY Zenon, <2>3, BuildSteps
  <2>5. \A p \in 1 .. Len(log) : ~ Held(p) => p <= frontier.retired
    <3>1. \A p \in 1 .. Len(log) : p <= frontier.retired \/ p \in frontier.retired + 1 .. Len(log)
      BY SMTT(60), <2>2
    <3>2. \A p \in frontier.retired + 1 .. Len(log) : Held(p)
      BY ZenonT(60), <2>1 DEF HistoryHeld
    <3> QED
      BY ZenonT(60), <3>1, <3>2
  <2>6. builds[x].cursor < trimmed \/ builds[x].cursor < frontier.retired
    BY SMTT(60), <2>2, <2>4, <2>5
  <2> DEFINE ends == {trimmed, frontier.retired}
  <2>7. ends \in SUBSET Nat /\ ends # {} /\ \A n \in ends : n <= trimmed + frontier.retired
    BY SMTT(60), <2>2
  <2>8. trimmed + frontier.retired \in Nat
    BY SMTT(60), <2>2
  <2> HIDE DEF ends
  <2>9. Max(ends) \in ends /\ \A n \in ends : n <= Max(ends)
    BY Zenon, <2>7, <2>8, LargestMember
  <2>10. Max(ends) \in Nat /\ trimmed <= Max(ends) /\ frontier.retired <= Max(ends)
    BY ZenonT(60), <2>7, <2>9 DEF ends
  <2>11. builds[x].cursor < Max(ends)
    BY SMTT(60), <2>2, <2>6, <2>10
  <2> QED
    BY ZenonT(60), <2>11 DEF ends
<1> QED
  BY <1>1, GsiInvariance, PTL DEF Spec, BlockedOnlyByRetention
=============================================================================
