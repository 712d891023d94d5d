---------------------------- MODULE HealthChecker ----------------------------
(***************************************************************************)
(* Active health checks: internal/health/checker.go, the balancer's flags  *)
(* that its callback sets (SetHealth in internal/lb/balancer.go) and the   *)
(* API handlers that set the same flags (internal/api/routes.go).          *)
(*                                                                         *)
(* One probe loop per target; a dial runs outside the lock, its result is  *)
(* applied and announced in one critical section.  (The names are not      *)
(* those of Balancer, so that one module can reason about both.)           *)
(***************************************************************************)
EXTENDS Naturals, Sequences

CONSTANTS
    Probed,              \* targets, each with an address of its own
    FailuresBeforeEject, \* Config
    PassesBeforeReadmit

ASSUME ThresholdsAssumption ==
    FailuresBeforeEject \in Nat \ {0} /\ PassesBeforeReadmit \in Nat \ {0}

VARIABLES
    up,         \* targets that answer a dial within the timeout
    cancelled,  \* the checker's context is done
    stop,       \* the caller of Stop
    loop,       \* each target's goroutine
    dialled,    \* the outcome of its dial
    fail, pass, \* Checker.fail and Checker.pass, capped where they stop mattering
    healthySn,  \* Checker.healthySn, as a set: the announced state
    flagged,    \* targets whose flag in the balancer is set
    recent,     \* history: the outcomes of the last probes of each target
    overridden  \* history: targets the API set since their last announcement

checkerVars ==
    <<up, cancelled, stop, loop, dialled, fail, pass, healthySn, flagged, recent, overridden>>

counts == <<fail, pass, healthySn>>

Window == IF FailuresBeforeEject > PassesBeforeReadmit
          THEN FailuresBeforeEject ELSE PassesBeforeReadmit

CheckerTypeOK ==
    /\ up \subseteq Probed /\ healthySn \subseteq Probed /\ flagged \subseteq Probed
    /\ cancelled \in BOOLEAN
    /\ stop \in {"running", "waiting", "stopped"}
    /\ loop \in [Probed -> {"waiting", "dialling", "result", "ended"}]
    /\ dialled \in [Probed -> BOOLEAN]
    /\ fail \in [Probed -> 0 .. FailuresBeforeEject]
    /\ pass \in [Probed -> 0 .. PassesBeforeReadmit]
    /\ \A t \in Probed : recent[t] \in Seq(BOOLEAN) /\ Len(recent[t]) <= Window
    /\ overridden \subseteq Probed

\* After New and Start; every target is taken for healthy.
CheckerInit ==
    /\ up \in SUBSET Probed
    /\ cancelled = FALSE /\ stop = "running"
    /\ loop = [t \in Probed |-> "waiting"]
    /\ dialled = [t \in Probed |-> FALSE]
    /\ fail = [t \in Probed |-> 0] /\ pass = [t \in Probed |-> 0]
    /\ healthySn = Probed /\ flagged = Probed
    /\ recent = [t \in Probed |-> <<>>]
    /\ overridden = {}

-----------------------------------------------------------------------------
(* The probe loop *)

MoveTo(t, l) == loop' = [loop EXCEPT ![t] = l]

\* The stagger is over, or the ticker fires; if the context is done as well,
\* the select may still choose the ticker.
Probe(t) ==
    /\ loop[t] = "waiting"
    /\ MoveTo(t, "dialling")
    /\ UNCHANGED <<up, cancelled, stop, dialled, counts, flagged, recent, overridden>>

LoopEnds(t) ==
    /\ loop[t] = "waiting" /\ cancelled
    /\ MoveTo(t, "ended")
    /\ UNCHANGED <<up, cancelled, stop, dialled, counts, flagged, recent, overridden>>

\* Faults (operators named Fault...) are plausible bugs of the operator after
\* them; each breaks a property below.  No specification uses them.
FaultDialWithoutTimeout(t) ==
    /\ loop[t] = "dialling" /\ (t \in up \/ cancelled)
    /\ dialled' = [dialled EXCEPT ![t] = ~ cancelled]
    /\ MoveTo(t, "result")
    /\ UNCHANGED <<up, cancelled, stop, counts, flagged, recent, overridden>>

FaultDialWithoutContext(t) ==
    /\ loop[t] = "dialling" /\ t \in up
    /\ dialled' = [dialled EXCEPT ![t] = TRUE]
    /\ MoveTo(t, "result")
    /\ UNCHANGED <<up, cancelled, stop, counts, flagged, recent, overridden>>

\* The dial succeeds, or times out, or is aborted by the context - which counts
\* as a failure too.
DialEnds(t) ==
    /\ loop[t] = "dialling"
    /\ dialled' = [dialled EXCEPT ![t] = t \in up /\ ~ cancelled]
    /\ MoveTo(t, "result")
    /\ UNCHANGED <<up, cancelled, stop, counts, flagged, recent, overridden>>

\* SetHealth: the flag of the target with that address.
SetFlag(t, ok) == flagged' = IF ok THEN flagged \union {t} ELSE flagged \ {t}

Remember(t) ==
    LET all == Append(recent[t], dialled[t]) IN
    recent' = [recent EXCEPT ![t] = IF Len(all) > Window THEN Tail(all) ELSE all]

AtMost(n, cap) == IF n > cap THEN cap ELSE n

FaultFailuresDecay(t) ==
    /\ pass' = [pass EXCEPT ![t] = AtMost(@ + 1, PassesBeforeReadmit)]
    /\ fail' = [fail EXCEPT ![t] = @ - 1]
    /\ healthySn' = IF pass'[t] >= PassesBeforeReadmit THEN healthySn \union {t} ELSE healthySn

FaultPassKeepsFailures(t) ==
    /\ pass' = [pass EXCEPT ![t] = AtMost(@ + 1, PassesBeforeReadmit)]
    /\ UNCHANGED fail
    /\ healthySn' = IF pass'[t] >= PassesBeforeReadmit THEN healthySn \union {t} ELSE healthySn

\* One more pass in a row; enough of them readmit the target.
CountPass(t) ==
    /\ pass' = [pass EXCEPT ![t] = AtMost(@ + 1, PassesBeforeReadmit)]
    /\ fail' = [fail EXCEPT ![t] = 0]
    /\ healthySn' = IF pass'[t] >= PassesBeforeReadmit THEN healthySn \union {t} ELSE healthySn

\* One more failure in a row; enough of them eject the target.
CountFailure(t) ==
    /\ fail' = [fail EXCEPT ![t] = AtMost(@ + 1, FailuresBeforeEject)]
    /\ pass' = [pass EXCEPT ![t] = 0]
    /\ healthySn' = IF fail'[t] >= FailuresBeforeEject THEN healthySn \ {t} ELSE healthySn

FaultAnnounceEjectionsOnly(t) ==
    IF t \in healthySn /\ t \notin healthySn'
    THEN SetFlag(t, FALSE) /\ overridden' = overridden \ {t}
    ELSE UNCHANGED <<flagged, overridden>>

\* onChange, called inside the critical section, on a transition only.
Announce(t) ==
    IF healthySn' # healthySn
    THEN SetFlag(t, t \in healthySn') /\ overridden' = overridden \ {t}
    ELSE UNCHANGED <<flagged, overridden>>

\* The critical section of probeOnce.
Result(t) ==
    /\ loop[t] = "result"
    /\ IF dialled[t] THEN CountPass(t) ELSE CountFailure(t)
    /\ Announce(t)
    /\ Remember(t)
    /\ dialled' = [dialled EXCEPT ![t] = FALSE]
    /\ MoveTo(t, "waiting")
    /\ UNCHANGED <<up, cancelled, stop>>

-----------------------------------------------------------------------------
(* The API, Stop, and the network *)

\* handleEjectUpstream and handleReadmitUpstream, one target of theirs: the
\* checker's own state is not told.
Override(t, ok) ==
    /\ SetFlag(t, ok)
    /\ overridden' = overridden \union {t}
    /\ UNCHANGED <<up, cancelled, stop, loop, dialled, counts, recent>>

Stop ==
    /\ stop = "running"
    /\ cancelled' = TRUE
    /\ stop' = "waiting"
    /\ UNCHANGED <<up, loop, dialled, counts, flagged, recent, overridden>>

\* wg.Wait: the probes under way finish first.
LoopsJoined ==
    /\ stop = "waiting" /\ \A t \in Probed : loop[t] = "ended"
    /\ stop' = "stopped"
    /\ UNCHANGED <<up, cancelled, loop, dialled, counts, flagged, recent, overridden>>

TargetChanges(t) ==
    /\ up' = IF t \in up THEN up \ {t} ELSE up \union {t}
    /\ UNCHANGED <<cancelled, stop, loop, dialled, counts, flagged, recent, overridden>>

-----------------------------------------------------------------------------
Loop(t) == Probe(t) \/ LoopEnds(t) \/ DialEnds(t) \/ Result(t)

CheckerNext ==
    \/ \E t \in Probed : Loop(t) \/ TargetChanges(t) \/ \E ok \in BOOLEAN : Override(t, ok)
    \/ Stop \/ LoopsJoined

CheckerSpec == CheckerInit /\ [][CheckerNext]_checkerVars

\* Tickers fire and dials end; a select that finds the context done time and
\* again chooses it some day.
FairCheckerSpec ==
    /\ CheckerSpec
    /\ \A t \in Probed : WF_checkerVars(Loop(t)) /\ SF_checkerVars(LoopEnds(t))
    /\ WF_checkerVars(LoopsJoined)

-----------------------------------------------------------------------------
(* Properties *)

\* The last n outcomes of t are known, and all are ok.
Run(t, n, ok) == Len(recent[t]) >= n /\ \A k \in 0 .. n - 1 : recent[t][Len(recent[t]) - k] = ok

\* The hysteresis: a target counts as healthy until FailuresBeforeEject probes
\* in a row have failed, and as ejected until PassesBeforeReadmit in a row have
\* passed (checker.go 192-215).
NoLateFlip ==
    \A t \in Probed : IF t \in healthySn THEN ~ Run(t, FailuresBeforeEject, FALSE)
                                         ELSE ~ Run(t, PassesBeforeReadmit, TRUE)

\* The flips are exact: none comes late, and each follows its full run of probes.
FlipsAreExact ==
    [][NoLateFlip' /\ \A t \in Probed :
        /\ (t \in healthySn \ healthySn') => Run(t, FailuresBeforeEject, FALSE)'
        /\ (t \in healthySn' \ healthySn) => Run(t, PassesBeforeReadmit, TRUE)']_checkerVars

\* The balancer's flag is the announced state, except on targets the API has
\* set since the last announcement (checker.go 226-228, routes.go 391-438).
BalancerIsTold == \A t \in Probed \ overridden : t \in flagged <=> t \in healthySn

\* The checker goes on following the network whatever the API did: a target that
\* stays down is announced as ejected in the end, and one that stays up as readmitted,
\* and the balancer's flag agrees unless the API set it after the announcement.  In
\* that one case nothing corrects the flag: a single readmit of an ejected target
\* that stays down holds it in rotation (routes.go 433, checker.go 215-228).  The
\* next change of the announced state ends any override.
FlagFollowsTarget ==
    \A t \in Probed :
        /\ <>[](t \notin up /\ ~ cancelled) =>
               <>[](t \notin healthySn /\ (t \in flagged => t \in overridden))
        /\ <>[](t \in up /\ ~ cancelled) =>
               <>[](t \in healthySn /\ (t \notin flagged => t \in overridden))
        /\ []<>(t \in healthySn) /\ []<>(t \notin healthySn) =>
               []<>(t \in flagged) /\ []<>(t \notin flagged)

\* Stop returns: a loop is either waiting, where it sees the context, or in a
\* dial that the context aborts (checker.go 123-131, 165-176).
StopReturns == cancelled ~> stop = "stopped"
=============================================================================
