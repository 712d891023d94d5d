------------------------------ MODULE Bandwidth ------------------------------
(***************************************************************************)
(* The quota tracker of one proxy: internal/bandwidth/tracker.go.          *)
(*                                                                         *)
(* Connection handlers record bytes and re-evaluate the quota, the cleanup *)
(* loop prunes and re-evaluates it every hour, and the API may reset the   *)
(* tracker, all concurrently.  Each lock section and each access to an     *)
(* atomic variable is a step.                                              *)
(***************************************************************************)
EXTENDS Naturals, FiniteSets, FiniteSetsExt

CONSTANTS
    Recorders,   \* goroutines that call RecordIn / RecordOut
    Cleaner,     \* the goroutine of cleanupLoop
    Sizes,       \* byte counts handed to one Record call
    Windows,     \* the quota windows: hourly, daily, weekly, monthly
    Length,      \* hours in each window
    Quota,       \* bytes allowed in each window, 0 for unlimited
    Retention,   \* hours pruneOldBuckets keeps (31 days)
    MaxHour,     \* bound on the clock
    MaxBytes,    \* bound on the bytes recorded
    MaxResets    \* bound on the Reset calls

ASSUME LengthAssumption == Length \in [Windows -> Nat \ {0}]
ASSUME QuotaAssumption == Quota \in [Windows -> Nat]
\* A window may be longer than the retention: with the 25-hour day of a clock
\* change, a month of 31 days lasts 745 hours, and 744 are kept.
ASSUME RetentionAssumption == Retention \in Nat \ {0}
ASSUME CleanerAssumption == Cleaner \notin Recorders
\* Byte counts are those that reads and writes report.
ASSUME BoundsAssumption == Sizes \subseteq Nat /\ MaxHour \in Nat /\ MaxBytes \in Nat

VARIABLES
    now,        \* the current hour
    buckets,    \* Tracker.buckets: bytes, in and out together, by hour
    total,      \* Tracker.inbound + Tracker.outbound
    suspended,  \* Tracker.suspended
    pc, local,  \* each goroutine's position and locals
    resetPc,    \* the position of Reset
    generation, \* which map Tracker.buckets is: Reset replaces it
    pruned,     \* history: bytes dropped by pruneOldBuckets
    raced,      \* history: a Reset or the clock interleaved with another call
    healed      \* history: FALSE from the end of a Reset to the next Record

vars == <<now, buckets, total, suspended, pc, local, resetPc, generation, pruned, raced, healed>>

Procs == Recorders \union {Cleaner}
Hours == 0 .. MaxHour

Idle(p) == pc[p] = "idle"
Quiet == resetPc = "idle" /\ \A p \in Procs : Idle(p)

NoLocal == [n |-> 0, hour |-> 0, gen |-> 0]

TypeOK ==
    /\ now \in Hours
    /\ buckets \in [Hours -> Nat]
    /\ total \in 0 .. MaxBytes
    /\ suspended \in BOOLEAN
    /\ pc \in [Procs -> {"idle", "bucket", "add", "maybe", "clock", "snapshot", "suspend"}]
    /\ local \in [Procs -> [n : Nat, hour : Hours, gen : Nat]]
    /\ resetPc \in {"idle", "totals", "flag"}
    /\ generation \in Nat
    /\ pruned \in Nat
    /\ raced \in BOOLEAN /\ healed \in BOOLEAN

Init ==
    /\ now = 0
    /\ buckets = [h \in Hours |-> 0]
    /\ total = 0
    /\ suspended = FALSE
    /\ pc = [p \in Procs |-> "idle"]
    /\ local = [p \in Procs |-> NoLocal]
    /\ resetPc = "idle"
    /\ generation = 0
    /\ pruned = 0
    /\ raced = FALSE /\ healed = TRUE

-----------------------------------------------------------------------------
(* snapshot: the usage of each window as of hour h *)

Bytes(S) == MapThenSumSet(LAMBDA h : buckets[h], S)

Start(w, h) == h - (h % Length[w])

\* A window has no upper end in the code: it counts every bucket from its start.
Used(w, h) == Bytes({b \in Hours : b >= Start(w, h)})

Over(h) == \E w \in Windows : Quota[w] > 0 /\ Used(w, h) >= Quota[w]

Unlimited == \A w \in Windows : Quota[w] = 0

-----------------------------------------------------------------------------
(* RecordIn and RecordOut *)

Goto(p, l) == pc' = [pc EXCEPT ![p] = l]

\* A call is under way that another one may disturb.
Busy == \E p \in Procs : ~ Idle(p)

\* inbound.Add(n), then the hour is read.
Record(p, n) ==
    /\ Idle(p) /\ p \in Recorders
    /\ total + n + pruned <= MaxBytes
    /\ total' = total + n
    /\ local' = [local EXCEPT ![p] = [n |-> n, hour |-> now, gen |-> generation]]
    /\ Goto(p, "bucket")
    /\ healed' = TRUE
    /\ raced' = (raced \/ resetPc # "idle")
    /\ UNCHANGED <<now, buckets, suspended, resetPc, generation, pruned>>

\* Under the lock: find or create the hour's bucket in the current map.
FindBucket(p) ==
    /\ pc[p] = "bucket"
    /\ local' = [local EXCEPT ![p].gen = generation]
    /\ Goto(p, "add")
    /\ UNCHANGED <<now, buckets, total, suspended, resetPc, generation, pruned, raced, healed>>

\* Faults (operators named Fault...) are plausible bugs of the operator after
\* them; each breaks a property below.  No specification uses them.
FaultSubtractBytes(p) ==
    /\ pc[p] = "add"
    /\ buckets' = [buckets EXCEPT ![local[p].hour] = @ - local[p].n]
    /\ local' = [local EXCEPT ![p] = NoLocal]
    /\ Goto(p, "maybe")
    /\ UNCHANGED <<now, total, suspended, resetPc, generation, pruned, raced, healed>>

\* bp.In.Add(n): lost on a bucket that is no longer in the map.
AddBytes(p) ==
    /\ pc[p] = "add"
    /\ buckets' = IF local[p].gen = generation
                  THEN [buckets EXCEPT ![local[p].hour] = @ + local[p].n]
                  ELSE buckets
    /\ local' = [local EXCEPT ![p] = NoLocal]
    /\ Goto(p, "maybe")
    /\ UNCHANGED <<now, total, suspended, resetPc, generation, pruned, raced, healed>>

\* maybeCheckQuota returns at once when the proxy is suspended already.
MaybeCheck(p) ==
    /\ pc[p] = "maybe"
    /\ Goto(p, IF suspended \/ Unlimited THEN "idle" ELSE "clock")
    /\ UNCHANGED <<now, buckets, total, suspended, local, resetPc, generation, pruned, raced, healed>>

-----------------------------------------------------------------------------
(* CheckQuota, called by a recorder or by the cleanup loop *)

ReadClock(p) ==
    /\ pc[p] = "clock"
    /\ local' = [local EXCEPT ![p].hour = now]
    /\ Goto(p, "snapshot")
    /\ UNCHANGED <<now, buckets, total, suspended, resetPc, generation, pruned, raced, healed>>

FaultSnapshotStrict(p) ==
    /\ pc[p] = "snapshot"
    /\ Goto(p, IF \E w \in Windows : Quota[w] > 0 /\ Used(w, local[p].hour) > Quota[w]
               THEN "suspend" ELSE "idle")
    /\ local' = [local EXCEPT ![p] = NoLocal]
    /\ UNCHANGED <<now, buckets, total, suspended, resetPc, generation, pruned, raced, healed>>

FaultSnapshotWholeHistory(p) ==
    /\ pc[p] = "snapshot"
    /\ Goto(p, IF \E w \in Windows : Quota[w] > 0 /\ Bytes(Hours) >= Quota[w]
               THEN "suspend" ELSE "idle")
    /\ local' = [local EXCEPT ![p] = NoLocal]
    /\ UNCHANGED <<now, buckets, total, suspended, resetPc, generation, pruned, raced, healed>>

TakeSnapshot(p) ==
    /\ pc[p] = "snapshot"
    /\ Goto(p, IF Over(local[p].hour) THEN "suspend" ELSE "idle")
    /\ local' = [local EXCEPT ![p] = NoLocal]
    /\ UNCHANGED <<now, buckets, total, suspended, resetPc, generation, pruned, raced, healed>>

FaultSuspendForgotten(p) ==
    /\ pc[p] = "suspend"
    /\ Goto(p, "idle")
    /\ UNCHANGED <<now, buckets, total, suspended, local, resetPc, generation, pruned, raced, healed>>

SuspendNow(p) ==
    /\ pc[p] = "suspend"
    /\ suspended' = TRUE
    /\ Goto(p, "idle")
    /\ UNCHANGED <<now, buckets, total, local, resetPc, generation, pruned, raced, healed>>

FaultCleanupTooEager ==
    LET Old == {h \in Hours : h + Retention <= now + 1} IN
    /\ Idle(Cleaner)
    /\ buckets' = [h \in Hours |-> IF h \in Old THEN 0 ELSE buckets[h]]
    /\ pruned' = pruned + Bytes(Old)
    /\ Goto(Cleaner, IF Unlimited THEN "idle" ELSE "clock")
    /\ raced' = (raced \/ resetPc # "idle")
    /\ UNCHANGED <<now, total, suspended, local, resetPc, generation, healed>>

\* A tick of cleanupLoop, which comes at any minute of the hour: pruneOldBuckets
\* under the lock, then CheckQuota.
Cleanup ==
    LET Old == {h \in Hours : h + Retention <= now} IN
    /\ Idle(Cleaner)
    /\ buckets' = [h \in Hours |-> IF h \in Old THEN 0 ELSE buckets[h]]
    /\ pruned' = pruned + Bytes(Old)
    /\ Goto(Cleaner, IF Unlimited THEN "idle" ELSE "clock")
    /\ raced' = (raced \/ resetPc # "idle")
    /\ UNCHANGED <<now, total, suspended, local, resetPc, generation, healed>>

-----------------------------------------------------------------------------
(* Reset, called by the API *)

ResetBuckets ==
    /\ resetPc = "idle" /\ generation < MaxResets
    /\ generation' = generation + 1
    /\ buckets' = [h \in Hours |-> 0]
    /\ pruned' = 0
    /\ resetPc' = "totals"
    /\ raced' = (raced \/ Busy)
    /\ UNCHANGED <<now, total, suspended, pc, local, healed>>

ResetTotals ==
    /\ resetPc = "totals"
    /\ total' = 0
    /\ resetPc' = "flag"
    /\ UNCHANGED <<now, buckets, suspended, pc, local, generation, pruned, raced, healed>>

ResetFlag ==
    /\ resetPc = "flag"
    /\ suspended' = FALSE
    /\ resetPc' = "idle"
    /\ healed' = FALSE
    /\ UNCHANGED <<now, buckets, total, pc, local, generation, pruned, raced>>

-----------------------------------------------------------------------------
\* The clock reaches the next hour; no Record call takes as long as Retention.
Tick ==
    /\ now < MaxHour
    /\ \A p \in Procs : pc[p] \in {"bucket", "add"} => now + 1 < local[p].hour + Retention
    /\ now' = now + 1
    /\ raced' = (raced \/ Busy \/ resetPc # "idle")
    /\ UNCHANGED <<buckets, total, suspended, pc, local, resetPc, generation, pruned, healed>>

Step(p) ==
    \/ FindBucket(p) \/ AddBytes(p) \/ MaybeCheck(p)
    \/ ReadClock(p) \/ TakeSnapshot(p) \/ SuspendNow(p)

Next ==
    \/ \E p \in Recorders, n \in Sizes : Record(p, n)
    \/ \E p \in Procs : Step(p)
    \/ Cleanup
    \/ ResetBuckets \/ ResetTotals \/ ResetFlag
    \/ Tick

Spec == Init /\ [][Next]_vars

\* A call that has begun goes on, and the ticker of cleanupLoop keeps firing.
FairSpec ==
    /\ Spec
    /\ \A p \in Procs : WF_vars(Step(p))
    /\ WF_vars(Cleanup)
    /\ WF_vars(ResetTotals) /\ WF_vars(ResetFlag)

-----------------------------------------------------------------------------
(* Properties *)

\* With no call under way, a proxy over its quota is suspended: of several
\* concurrent Record calls the last to add its bytes sees them all (tracker.go
\* 104-106).  Only right after a Reset, whose last store may undo the
\* suspension of a concurrent Record (tracker.go 272), is one more Record needed.
OverQuotaIsSuspended == Quiet /\ Over(now) /\ ~ suspended => ~ healed

\* A suspended proxy did fill some window, unless a Reset or the hour's change
\* fell into a check: the check then acts on a snapshot or a clock of before.
\* The window is bounded above here; in snapshot it is not.
SuspensionJustified ==
    suspended /\ resetPc = "idle" /\ ~ raced /\ pruned = 0 =>
        \E w \in Windows, h \in 0 .. now :
            /\ Quota[w] > 0
            /\ Bytes({b \in Hours : b - (b % Length[w]) = Start(w, h)}) >= Quota[w]

\* The running totals are the bytes of the buckets and of those pruned, unless a
\* Reset, which clears the two in separate steps, met a Record.
TotalsAgree ==
    (~ raced /\ resetPc = "idle" /\ \A p \in Procs : pc[p] \notin {"bucket", "add"}) =>
        total = Bytes(Hours) + pruned

\* No byte gets lost (tracker.go 95-122, 296-308): the totals agree; pruning
\* leaves each window its bytes of the last Retention hours, and so takes nothing
\* from a window that is no longer than that.  From a longer one, a month of 745
\* hours, it takes the first hour while the month still counts it.
BytesAreKept ==
    [][/\ TotalsAgree'
       /\ pruned' > pruned => \A w \in Windows :
            /\ Used(w, now)' = Bytes({b \in Hours : b >= Start(w, now) /\ b + Retention > now})
            /\ Length[w] <= Retention => Used(w, now)' = Used(w, now)]_vars

\* Exceeding a quota ends in suspension, whoever recorded the bytes and even if
\* nobody records again: the hourly check is the fallback.
OverQuotaSuspends == Over(now) ~> suspended \/ ~ Over(now)

\* docs/API.md 430: the proxy refuses new traffic "until the window resets (or
\* `reset` is called)": when no window is full any more, it resumes.
WindowResetResumes == suspended ~> ~ suspended \/ Over(now)
=============================================================================
