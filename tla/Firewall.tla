------------------------------ MODULE Firewall ------------------------------
(***************************************************************************)
(* The iptables rules of the proxies: internal/iptables/manager.go and     *)
(* rules.go.  Every operation of the manager holds its mutex throughout,   *)
(* so each is one step of its caller (the hooks of main.go, the API).      *)
(*                                                                         *)
(* The kernel is external: Append adds a copy of a rule to the chain,      *)
(* Delete removes one whose whole specification is the one given, and      *)
(* either may fail.  All the rules drop what they match, so the chain is a *)
(* bag of them.  Rules that do not carry the comment prefix are never      *)
(* touched and are left out.                                               *)
(***************************************************************************)
EXTENDS Naturals, Sequences, FiniteSets, Bags

CONSTANTS
    Names,        \* proxy names
    None,         \* the absent value
    IPv6,         \* iptables.ipv6_enabled, and ip6tables is there
    MaxFailures   \* bound: calls in which a command of iptables fails

ASSUME FirewallAssumption ==
    IsFiniteSet(Names) /\ IPv6 \in BOOLEAN /\ MaxFailures \in Nat

VARIABLES
    kernel,       \* the bag of rules of the INPUT chain with our comment prefix
    kernel6,      \* those ip6tables has been given; nothing ever deletes one
    activeRules,  \* Manager.activeRules: proxy name -> rules, or None
    strays,       \* history: copies a Delete has missed or an unfinished append has left
    failures      \* how many calls have met a failing command

fwVars == <<kernel, kernel6, activeRules, strays, failures>>

FirewallInit ==
    /\ kernel = EmptyBag /\ kernel6 = {} /\ strays = EmptyBag
    /\ activeRules = [n \in Names |-> None]
    /\ failures = 0

-----------------------------------------------------------------------------
(* Rules *)

\* The kinds of rule in the order BuildRules appends them; those it makes for a
\* tcp listener only, and those whose hashlimit or recent table is named after
\* the proxy.
Kinds == <<"TCP-PPS", "UDP-PPS", "NewConn-PerIP", "MaxSimul-PerIP", "MaxTotal", "FragDrop",
           "SYN-Rate", "Invalid-State", "RST-Rate">>
FirstKinds(k) == {Kinds[i] : i \in 1 .. k}
AllKinds == FirstKinds(Len(Kinds))
OnTCP == {"TCP-PPS", "SYN-Rate", "Invalid-State", "RST-Rate"}
NamedAfterProxy == {"TCP-PPS", "UDP-PPS", "NewConn-PerIP", "SYN-Rate", "RST-Rate"}

\* cf.limits maps each kind to its limit, 0 if the configuration asks for none
\* (a flag is 0 or 1); a rule's comment is its kind and ports.
Asked(cf, kind) ==
    /\ cf.limits[kind] > 0
    /\ kind \in OnTCP => cf.protocol \in {"tcp", "tcp-udp"}
    /\ kind = "UDP-PPS" => cf.protocol \in {"udp", "tcp-udp"}

\* Only two kinds of rule ever match udp packets, whatever the listener is.
ProtocolOf(cf, kind) ==
    IF kind = "UDP-PPS" \/ (kind = "FragDrop" /\ cf.protocol = "udp") THEN "udp" ELSE "tcp"

RuleOf(cf, kind) ==
    [kind |-> kind, proto |-> ProtocolOf(cf, kind), ports |-> cf.ports,
     limit |-> cf.limits[kind], target |-> "DROP",
     table |-> IF kind \in NamedAfterProxy THEN cf.name ELSE None]

BuildRules(cf) == {RuleOf(cf, kind) : kind \in {k \in AllKinds : Asked(cf, k)}}

\* What deleteRuleByComment rebuilds from a listed rule and asks iptables to
\* delete: protocol, port and comment, without the match or the target.  That is
\* when comments are listed as iptables -L prints them; as -S prints them,
\* extractComment finds none and nothing is deleted either.
Reparsed(rule) == [rule EXCEPT !.limit = None, !.table = None, !.target = None]

DeleteListed(found) == kernel (-) SetToBag({Reparsed(rule) : rule \in found})

\* deleteProxyRules: the rules known to be applied, of which some are kept since
\* the error of a Delete is dropped, or else whatever in the chain mentions the
\* proxy's name.
Recorded(n) == IF activeRules[n] = None THEN {} ELSE activeRules[n]

DeleteProxyRules(n, kept) ==
    IF activeRules[n] # None
    THEN kernel (-) SetToBag(activeRules[n] \ kept)
    ELSE DeleteListed({rule \in BagToSet(kernel) : rule.table = n})

-----------------------------------------------------------------------------
(* Operations *)

Copies(rule, chain) == IF BagIn(rule, chain) THEN chain[rule] ELSE 0

Commands(succeed) ==
    IF succeed THEN UNCHANGED failures
    ELSE failures < MaxFailures /\ failures' = failures + 1

\* The rules appended before one fails, or all of them.
Beginnings(rules) ==
    {{rule \in rules : rule.kind \in FirstKinds(k)} : k \in 0 .. Len(Kinds)} \union {rules}

\* ip6tables is given each rule that iptables has taken, and its errors are
\* dropped: a fragment rule, for one, it always refuses.
Append6(appended) ==
    IF IPv6 THEN \E given \in SUBSET appended : kernel6' = kernel6 \union given
    ELSE UNCHANGED kernel6

\* Delete what is there, append one rule after another; an append that fails
\* leaves those before it in the kernel and nothing in activeRules.
ApplyRules(n, rules) ==
    \E kept \in SUBSET Recorded(n), appended \in Beginnings(rules) :
        LET done == appended = rules IN
        /\ kernel' = DeleteProxyRules(n, kept) (+) SetToBag(appended)
        /\ activeRules' = [activeRules EXCEPT ![n] = IF done THEN rules ELSE None]
        /\ strays' = (strays (+) SetToBag(kept)) (+) SetToBag(IF done THEN {} ELSE appended)
        /\ Append6(appended)
        /\ Commands(done /\ kept = {})

FlushProxy(n) ==
    \E kept \in SUBSET Recorded(n) :
        /\ kernel' = DeleteProxyRules(n, kept)
        /\ activeRules' = [activeRules EXCEPT ![n] = None]
        /\ strays' = strays (+) SetToBag(kept)
        /\ Commands(kept = {})
        /\ UNCHANGED kernel6

\* Every rule whose ports are not among those the caller says are active; the
\* API, its only caller, says that none is.
OrphanSweep(activePorts) ==
    /\ kernel' = DeleteListed({rule \in BagToSet(kernel) : rule.ports \notin activePorts})
    /\ UNCHANGED <<kernel6, activeRules, strays, failures>>
=============================================================================
