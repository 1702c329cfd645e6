---------------------------- MODULE NativeStore ----------------------------
(***************************************************************************)
(* What a native store promises the services above it, whichever engine    *)
(* runs it: the retried attempts of a request commit at most once, the     *)
(* commits are in a serial order, and a request that was answered ok is    *)
(* not lost in a crash.  The queue and pub/sub services read and write in  *)
(* such attempts.                                                          *)
(***************************************************************************)
EXTENDS Integers, Sequences

CONSTANTS
    Requests,
    Readers,   \* the requests that only read
    Keys, Values

VARIABLES
    commits,   \* the commits that a reader can see, in order
    answers    \* what each request was told, NoAnswer if nothing yet

NoValue == 0
NoAnswer == "none"

Stored == Values \cup {NoValue}
Contents == [Keys -> Stored]
Partial == UNION {[keys -> Stored] : keys \in SUBSET Keys}

(* What an attempt read of others and what it wrote, and the store after it. *)
Commit == [request : Requests, reads : Partial, writes : Partial, db : Contents]

Overlay(db, writes) ==
    [k \in DOMAIN db \cup DOMAIN writes |-> IF k \in DOMAIN writes THEN writes[k] ELSE db[k]]

(* The store after the first n commits. *)
ContentsAfter(n) == IF n = 0 THEN [k \in Keys |-> NoValue] ELSE commits[n].db

HasCommitted(c) == \E i \in 1 .. Len(commits) : commits[i].request = c

Init ==
    /\ commits = <<>>
    /\ answers = [c \in Requests |-> NoAnswer]

(* A request commits once, before it is answered, and what it read is still  *)
(* what the store holds.                                                    *)
CommitRequest(c) ==
    LET db == ContentsAfter(Len(commits))
        e == commits'[Len(commits')]
    IN
    /\ answers[c] = NoAnswer
    /\ ~ HasCommitted(c)
    /\ Len(commits') = Len(commits) + 1
    /\ commits' = Append(commits, e)
    /\ e \in Commit
    /\ e.request = c
    /\ \A k \in DOMAIN e.reads : e.reads[k] = db[k]
    /\ e.db = Overlay(db, e.writes)
    /\ UNCHANGED answers

(* A request is refused only if it did not commit, so its caller may retry;  *)
(* ok is for committed requests and for those that only read; unknown says   *)
(* nothing.                                                                 *)
Answer(requests, answer) ==
    /\ \A c \in requests :
          /\ answers[c] = NoAnswer
          /\ answer = "ok" => HasCommitted(c) \/ c \in Readers
          /\ answer = "refused" => ~ HasCommitted(c)
    /\ answers' = [c \in Requests |-> IF c \in requests THEN answer ELSE answers[c]]
    /\ UNCHANGED commits

(* A crash loses some of the last commits, none that was acknowledged. *)
Crash ==
    \E n \in 0 .. Len(commits) :
        /\ \A i \in n + 1 .. Len(commits) : answers[commits[i].request] # "ok"
        /\ commits' = SubSeq(commits, 1, n)
        /\ UNCHANGED answers

Next ==
    \/ \E c \in Requests : CommitRequest(c)
    \/ \E requests \in SUBSET Requests, answer \in {"ok", "refused", "unknown"} :
          Answer(requests, answer)
    \/ Crash

Spec == Init /\ [][Next]_<<commits, answers>>
=============================================================================
