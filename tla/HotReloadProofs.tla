-------------------------- MODULE HotReloadProofs --------------------------
(***************************************************************************)
(* Proofs about HotReload, for any files, names, configurations, users and *)
(* API requests.                                                           *)
(*                                                                         *)
(* Three layers.  BaseInv says what an actor's place means for its job and *)
(* which names files have had.  RuleInv is the firewall's part: the copies *)
(* of a rule in the chain are those activeRules and the failures account   *)
(* for, and for a name no two actors have met at, how far a call has       *)
(* brought the rules behind or ahead of the running proxy.  FileInv is the watcher's part: a file   *)
(* is settled when no event about its present text is under way and        *)
(* nothing has set it apart from its proxy; a proxy that runs from a       *)
(* settled file runs what the file says, or is about to be stopped.        *)
(***************************************************************************)
EXTENDS HotReload, FiniteSetTheorems, TLAPS

-----------------------------------------------------------------------------
(* Actors, jobs and names *)

Resting == {"idle", "consume", "watch"}
Sweeping == {"boot", "reloadAll", "reloadSweep"}
AtManager == {"stop", "flush", "start"}

\* An item of work with a configuration names the file it came from.
ItemOK(w) ==
    w.cf # None => w.path # None /\ w.cf.name = w.name /\ w.name \in named[w.path.file]

JobOK(a) ==
    /\ pc[a] \in Resting => job[a] = NoJob
    /\ pc[a] = "next" \/ job[a].todo # {} => job[a].op \in Sweeping
    /\ \A w \in job[a].todo : ItemOK(w)
    /\ pc[a] \in AtManager => ItemOK(job[a])
    /\ pc[a] = "save" => /\ job[a].save \in ConfigTexts /\ job[a].save.name = job[a].name
                         /\ job[a].cf \in {None, job[a].save} /\ job[a].path # None
    /\ pc[a] \in {"start", "apply"} => job[a].cf # None
    /\ pc[a] = "apply" => job[a].cf.name = job[a].name
    /\ pc[a] = "unlink" \/ job[a].op = "delete" => job[a].path # None

JobInv == \A a \in Actors : JobOK(a)

\* A file's present name and that of a proxy that runs from it are among those
\* it has had.
NameInv ==
    /\ \A f \in Paths : IsConfig(disk[f]) => disk[f].name \in named[f]
    /\ \A n \in Names : running[n] # None => n \in named[running[n].path.file]

\* Two actors at one name have met, and that has been noted.
AloneInv ==
    \A a, b \in Actors : a # b => Touches(a) \intersect Touches(b) \subseteq overlapped

BaseInv == TypeOK /\ JobInv /\ NameInv /\ AloneInv

-----------------------------------------------------------------------------
(* The chain *)

RuleSets(n) == {BuildRules(cf) : cf \in {c \in Configs : c.name = n}}
Rules == UNION {BuildRules(cf) : cf \in Configs}

\* A chain of such rules, and the proxies recorded as having one.
IsChain(chain) ==
    /\ chain = [rule \in DOMAIN chain |-> chain[rule]] /\ DOMAIN chain \subseteq Rules
    /\ \A rule \in DOMAIN chain : chain[rule] \in Nat \ {0}
Holders(rule) == {n \in Names : rule \in Recorded(n)}

ChainShape ==
    /\ IsChain(kernel) /\ IsChain(strays)
    /\ activeRules = [n \in Names |-> activeRules[n]]
    /\ \A n \in Names : activeRules[n] \in OrNone(RuleSets(n))

\* What the record and the failures account for is what the chain holds.
ChainInv ==
    \A rule \in Rules : Copies(rule, kernel) = Cardinality(Holders(rule)) + Copies(rule, strays)

Believed(n) ==
    IF running[n] # None /\ n \notin bare THEN BuildRules(running[n].cf) ELSE None

\* An actor between the change of the map and its hook.
Hooking(a, n) == pc[a] \in {"flush", "apply"} /\ job[a].name = n

PhaseOK(n) ==
    /\ (\A a \in Actors : ~ Hooking(a, n)) => activeRules[n] = Believed(n)
    /\ \A a \in Actors : Hooking(a, n) =>
        IF pc[a] = "flush" THEN running[n] = None
        ELSE running[n] # None /\ running[n].cf = job[a].cf

PhaseInv == \A n \in Names \ overlapped : PhaseOK(n)

RuleInv == ChainShape /\ ChainInv /\ PhaseInv

-----------------------------------------------------------------------------
(* Files *)

Queued(q, change) == \E i \in DOMAIN q : q[i] = change
Update(f) == [path |-> f, op |-> "update"]
Removal(f) == [path |-> f, op |-> "remove"]

UpdateComing(f) ==
    f \in pending \/ emitting[f] > 0 \/ Queued(events, Update(f)) \/ Queued(out, Update(f))
RemovalComing(f) == Queued(events, Removal(f)) \/ Queued(out, Removal(f))

\* No event about the file's present text is under way.
Seen(f) ==
    \/ disk[f] = None /\ ~ RemovalComing(f)
    \/ IsConfig(disk[f]) /\ ~ UpdateComing(f)

Settled(f) == Seen(f) /\ ~ Excused(f)

Matches(cf, f) == Settled(f) => SameButSwitch(cf, disk[f])

AboutToStop(n) == \E a \in Actors : pc[a] = "stop" /\ job[a].name = n

ItemMatches(w) == w.cf # None => Matches(w.cf, w.path.file)

\* Every path in use is spelled as the watcher spells it.
AsWatched(path) == path # None => path = Watched(path.file)

RunOK(n) ==
    running[n] # None =>
        /\ AsWatched(running[n].path)
        /\ Matches(running[n].cf, running[n].path.file) \/ AboutToStop(n)

TextOK(a) ==
    /\ AsWatched(job[a].path) /\ \A w \in job[a].todo : AsWatched(w.path) /\ ItemMatches(w)
    /\ pc[a] \in AtManager => ItemMatches(job[a])
    /\ pc[a] = "save" /\ job[a].op = "toggle" =>
        Matches(job[a].save, job[a].path.file) /\ job[a].name \in named[job[a].path.file]

FileInv == (\A n \in Names : RunOK(n)) /\ \A a \in Actors : TextOK(a)

-----------------------------------------------------------------------------
(* Configurations *)

\* Switching a configuration changes its switch and nothing else.
LEMMA SwitchedFields ==
    ASSUME NEW cf \in ConfigType, NEW on \in BOOLEAN
    PROVE  /\ Switched(cf, on) \in ConfigType /\ Switched(cf, on).enabled = on
           /\ Switched(cf, on).name = cf.name /\ Switched(cf, on).ports = cf.ports
           /\ Switched(cf, on).protocol = cf.protocol /\ Switched(cf, on).limits = cf.limits
           /\ Switched(cf, on).good = cf.good
    BY DEF Switched, ConfigType

\* A switch that is set twice keeps the second setting.
LEMMA SwitchedTwice ==
    ASSUME NEW cf \in ConfigType, NEW on \in BOOLEAN, NEW off \in BOOLEAN
    PROVE  /\ Switched(Switched(cf, on), off) = Switched(cf, off)
           /\ cf = Switched(cf, cf.enabled) /\ cf.enabled \in BOOLEAN
    BY DEF Switched, ConfigType

\* The rules do not depend on the switch.
LEMMA SwitchedRules ==
    ASSUME NEW cf \in ConfigType, NEW on \in BOOLEAN
    PROVE  BuildRules(Switched(cf, on)) = BuildRules(cf)
<1>1. \A kind \in AllKinds : /\ Asked(Switched(cf, on), kind) <=> Asked(cf, kind)
                             /\ RuleOf(Switched(cf, on), kind) = RuleOf(cf, kind)
    BY SwitchedFields DEF Asked, RuleOf, ProtocolOf
<1> QED
    BY <1>1 DEF BuildRules

\* A configuration of a file is one of Configs, switched on or off.
LEMMA TextIsConfig ==
    ASSUME NEW text \in ConfigTexts
    PROVE  /\ text \in ConfigType /\ IsConfig(text) /\ text \in Texts /\ text # None
           /\ \E cf \in Configs : /\ cf \in ConfigType /\ BuildRules(text) = BuildRules(cf)
                                  /\ cf.name = text.name /\ cf.ports = text.ports
                                  /\ \E on \in BOOLEAN : text = Switched(cf, on)
<1>1. PICK cf \in Configs : text \in {cf, Switched(cf, TRUE), Switched(cf, FALSE)}
    <2>1. text \in Texts /\ text \notin {Broken, None}
        BY DEF ConfigTexts, IsConfig
    <2> QED
        BY <2>1 DEF Texts
<1>2. cf \in ConfigType
    BY ConfigsAssumption
<1>3. PICK on \in BOOLEAN : text = Switched(cf, on)
    BY <1>1, <1>2, SwitchedTwice
<1>4. text \in Texts /\ IsConfig(text) /\ text # None
    BY DEF ConfigTexts, IsConfig
<1> QED
    BY <1>2, <1>3, <1>4, SwitchedFields, SwitchedRules

\* A file's text stays one under a switch, and keeps its name.
LEMMA SwitchedText ==
    ASSUME NEW text \in ConfigTexts, NEW on \in BOOLEAN
    PROVE  Switched(text, on) \in ConfigTexts /\ Switched(text, on).name = text.name
<1>1. PICK cf \in Configs, was \in BOOLEAN : text = Switched(cf, was)
    BY TextIsConfig
<1>2. cf \in ConfigType /\ Switched(text, on) = Switched(cf, on)
    BY <1>1, ConfigsAssumption, SwitchedTwice
<1>3. Switched(cf, on) \in Texts
    <2>1. Switched(cf, on) \in {cf, Switched(cf, TRUE), Switched(cf, FALSE)}
        BY on \in {TRUE, FALSE}
    <2> QED
        BY <2>1 DEF Texts
<1>4. Switched(cf, on) \in ConfigType
    BY <1>2, SwitchedFields
<1>5. IsConfig(Switched(cf, on))
    BY <1>4, NoneAssumption DEF IsConfig
<1> QED
    BY <1>1, <1>2, <1>3, <1>5, SwitchedFields DEF ConfigTexts

\* Whatever the switch of a configuration, it matches the text or does not.
LEMMA SwitchIsImmaterial ==
    ASSUME NEW cf \in ConfigTexts, NEW text \in Texts, SameButSwitch(cf, text), NEW on \in BOOLEAN
    PROVE  SameButSwitch(Switched(cf, on), text)
<1>1. text \in ConfigTexts /\ Switched(text, cf.enabled) = cf
    BY DEF SameButSwitch, ConfigTexts
<1>2. text \in ConfigType /\ cf \in ConfigType /\ cf.enabled \in BOOLEAN
    BY <1>1, TextIsConfig, SwitchedTwice
<1>3. Switched(cf, on).enabled = on /\ Switched(cf, on) = Switched(text, on)
    BY <1>1, <1>2, SwitchedFields, SwitchedTwice
<1> QED
    BY <1>1, <1>3 DEF SameButSwitch

\* A text matches itself.
LEMMA SameMatches ==
    ASSUME NEW text \in ConfigTexts
    PROVE  SameButSwitch(text, text)
    BY TextIsConfig, SwitchedTwice DEF SameButSwitch

-----------------------------------------------------------------------------
(* Chains *)

\* The rules of a proxy's configuration.
LEMMA RulesOfProxy ==
    ASSUME NEW n \in Names, NEW rules \in RuleSets(n)
    PROVE  rules # None /\ rules \subseteq Rules
<1>1. PICK cf \in Configs : cf.name = n /\ rules = BuildRules(cf)
    BY DEF RuleSets
<1> QED
    BY <1>1, NoneAssumption DEF Rules

\* What is rebuilt from a listed rule is no rule of the chain.
LEMMA ReparsedIsNoRule ==
    ASSUME NEW rule \in Rules
    PROVE  Reparsed(rule) \notin Rules
<1>1. \A r \in Rules : r.target = "DROP"
    BY DEF Rules, BuildRules, RuleOf
<1>2. Reparsed(rule).target = None
    <2>1. PICK cf \in Configs, kind \in AllKinds : rule = RuleOf(cf, kind)
        BY DEF Rules, BuildRules
    <2> QED
        BY <2>1 DEF RuleOf, Reparsed
<1> QED
    BY <1>1, <1>2, NoneAssumption

\* With no re-parsed rule in the chain, deleting what a listing found deletes nothing.
LEMMA ListedStay ==
    ASSUME IsChain(kernel), NEW found \in SUBSET DOMAIN kernel
    PROVE  DeleteListed(found) = kernel
<1> DEFINE gone == SetToBag({Reparsed(rule) : rule \in found})
<1>1. DOMAIN gone \intersect DOMAIN kernel = {}
    BY ReparsedIsNoRule DEF SetToBag, IsChain
<1>2. {rule \in DOMAIN kernel : kernel[rule] > 0} = DOMAIN kernel
    BY DEF IsChain
<1>3. kernel (-) gone = [rule \in DOMAIN kernel |-> kernel[rule]]
    BY <1>1, <1>2 DEF (-)
<1> QED
    BY <1>3 DEF DeleteListed, IsChain

\* How many copies there are, and that it is a number.
LEMMA CopiesOf ==
    ASSUME NEW chain, IsChain(chain), NEW rule
    PROVE  /\ rule \in DOMAIN chain => Copies(rule, chain) = chain[rule] /\ Copies(rule, chain) \in Nat \ {0}
           /\ rule \notin DOMAIN chain => Copies(rule, chain) = 0
           /\ Copies(rule, chain) \in Nat
    BY DEF IsChain, Copies, BagIn, BagToSet

\* Taking a set of rules out of a chain takes one copy of each.
LEMMA TakingOut ==
    ASSUME NEW chain, IsChain(chain), NEW rules
    PROVE  LET left == chain (-) SetToBag(rules) IN
           /\ IsChain(left)
           /\ \A rule : rule \notin rules => Copies(rule, left) = Copies(rule, chain)
           /\ \A rule \in rules : Copies(rule, chain) # 0 => Copies(rule, left) = Copies(rule, chain) - 1
<1> DEFINE taken == [rule \in DOMAIN chain |-> IF rule \in rules THEN chain[rule] - 1 ELSE chain[rule]]
           left == [rule \in {r \in DOMAIN chain : taken[r] > 0} |-> taken[rule]]
<1>1. taken = [rule \in DOMAIN chain |-> IF rule \in DOMAIN SetToBag(rules)
                                         THEN chain[rule] - SetToBag(rules)[rule] ELSE chain[rule]]
    BY DEF SetToBag
<1>2. chain (-) SetToBag(rules) = left
    BY <1>1 DEF (-)
<1>3. \A rule \in DOMAIN chain : chain[rule] \in Nat \ {0} /\ chain[rule] > 0 /\ chain[rule] - 1 \in Nat
    BY DEF IsChain
<1>4. IsChain(left) /\ DOMAIN left \subseteq DOMAIN chain
    BY <1>3 DEF IsChain
<1>5. \A rule \in DOMAIN chain \ rules : rule \in DOMAIN left /\ left[rule] = chain[rule]
    BY <1>3
<1>6. \A rule \in DOMAIN left : rule \in rules => left[rule] = chain[rule] - 1
    BY <1>3
<1>7. \A rule \in DOMAIN chain \ DOMAIN left : chain[rule] = 1
    BY <1>3
<1> HIDE DEF left, taken
<1>8. ASSUME NEW rule, rule \notin rules
      PROVE  Copies(rule, left) = Copies(rule, chain)
    <2>1. CASE rule \in DOMAIN chain
        BY <1>4, <1>5, <1>8, <2>1, CopiesOf
    <2>2. CASE rule \notin DOMAIN chain
        BY <1>4, <2>2, CopiesOf
    <2> QED
        BY <2>1, <2>2
<1>9. ASSUME NEW rule \in rules, Copies(rule, chain) # 0
      PROVE  Copies(rule, left) = Copies(rule, chain) - 1
    <2>1. rule \in DOMAIN chain /\ Copies(rule, chain) = chain[rule]
        BY <1>9, CopiesOf
    <2>2. CASE rule \in DOMAIN left
        BY <1>4, <1>6, <2>1, <2>2, CopiesOf
    <2>3. CASE rule \notin DOMAIN left
        <3>1. Copies(rule, left) = 0 /\ chain[rule] = 1
            BY <1>4, <1>7, <2>1, <2>3, CopiesOf
        <3> QED
            BY <2>1, <3>1
    <2> QED
        BY <2>2, <2>3
<1> QED
    BY <1>2, <1>4, <1>8, <1>9

\* Putting a set of rules into a chain adds one copy of each.
LEMMA PuttingIn ==
    ASSUME NEW chain, IsChain(chain), NEW rules \in SUBSET Rules
    PROVE  LET more == chain (+) SetToBag(rules) IN
           /\ IsChain(more)
           /\ \A rule : rule \notin rules => Copies(rule, more) = Copies(rule, chain)
           /\ \A rule \in rules : Copies(rule, more) = Copies(rule, chain) + 1
<1> DEFINE more == [rule \in DOMAIN chain \union rules |->
                       (IF rule \in DOMAIN chain THEN chain[rule] ELSE 0)
                         + (IF rule \in rules THEN 1 ELSE 0)]
<1>1. chain (+) SetToBag(rules) = more
    BY DEF (+), SetToBag
<1>2. \A rule \in DOMAIN chain : chain[rule] \in Nat \ {0} /\ chain[rule] + 0 = chain[rule]
    BY DEF IsChain
<1>3. IsChain(more)
    BY <1>2 DEF IsChain
<1>4. /\ DOMAIN more = DOMAIN chain \union rules
      /\ \A rule \in DOMAIN chain \ rules : more[rule] = chain[rule]
      /\ \A rule \in rules \ DOMAIN chain : more[rule] = 1
      /\ \A rule \in rules \intersect DOMAIN chain : more[rule] = chain[rule] + 1
    BY <1>2
<1> HIDE DEF more
<1>5. ASSUME NEW rule, rule \notin rules
      PROVE  Copies(rule, more) = Copies(rule, chain)
    <2>1. CASE rule \in DOMAIN chain
        BY <1>3, <1>4, <1>5, <2>1, CopiesOf
    <2>2. CASE rule \notin DOMAIN chain
        BY <1>3, <1>4, <1>5, <2>2, CopiesOf
    <2> QED
        BY <2>1, <2>2
<1>6. ASSUME NEW rule \in rules
      PROVE  Copies(rule, more) = Copies(rule, chain) + 1
    <2>1. CASE rule \in DOMAIN chain
        BY <1>3, <1>4, <1>6, <2>1, CopiesOf
    <2>2. CASE rule \notin DOMAIN chain
        <3>1. Copies(rule, chain) = 0 /\ Copies(rule, more) = 1
            BY <1>3, <1>4, <1>6, <2>2, CopiesOf
        <3> QED
            BY <3>1
    <2> QED
        BY <2>1, <2>2
<1> QED
    BY <1>1, <1>3, <1>5, <1>6

\* The proxies recorded as having a rule can be counted, with and without one.
LEMMA HoldersCounted ==
    ASSUME NEW rule, NEW n \in Names
    PROVE  /\ IsFiniteSet(Holders(rule)) /\ Cardinality(Holders(rule)) \in Nat
           /\ IsFiniteSet(Holders(rule) \ {n}) /\ Cardinality(Holders(rule) \ {n}) \in Nat
           /\ n \in Holders(rule) => Cardinality(Holders(rule)) = Cardinality(Holders(rule) \ {n}) + 1
           /\ n \notin Holders(rule) => Holders(rule) \ {n} = Holders(rule)
<1> DEFINE H == Holders(rule)
<1>1. IsFiniteSet(H)
    BY FirewallAssumption, FS_Subset DEF Holders
<1> HIDE DEF H
<1>2. /\ Cardinality(H) \in Nat /\ IsFiniteSet(H \ {n}) /\ Cardinality(H \ {n}) \in Nat
      /\ n \in H => Cardinality(H \ {n}) = Cardinality(H) - 1
    BY <1>1, FS_CardinalityType, FS_RemoveElement
<1>3. /\ n \in H => Cardinality(H) = Cardinality(H \ {n}) + 1
      /\ n \notin H => H \ {n} = H
    BY <1>2
<1> QED
    BY <1>1, <1>2, <1>3 DEF H

\* Deleting what is recorded of a proxy leaves the copies of the others, and those
\* that the failing deletions have kept.
LEMMA Deleting ==
    ASSUME ChainShape, ChainInv, NEW n \in Names, NEW kept \in SUBSET Recorded(n)
    PROVE  /\ IsChain(DeleteProxyRules(n, kept)) /\ kept \subseteq Rules
           /\ \A rule \in Rules :
                /\ rule \notin kept => Copies(rule, DeleteProxyRules(n, kept)) =
                        Cardinality(Holders(rule) \ {n}) + Copies(rule, strays)
                /\ rule \in kept => Copies(rule, DeleteProxyRules(n, kept)) =
                        Cardinality(Holders(rule) \ {n}) + Copies(rule, strays) + 1
<1> DEFINE left == DeleteProxyRules(n, kept)
<1>1. CASE activeRules[n] = None
    <2>1. left = kernel /\ kept = {}
        BY <1>1, ListedStay DEF DeleteProxyRules, BagToSet, ChainShape, Recorded
    <2>2. \A rule : n \notin Holders(rule)
        BY <1>1 DEF Holders, Recorded
    <2>3. \A rule : Holders(rule) \ {n} = Holders(rule)
        BY <2>2, HoldersCounted
    <2> QED
        BY <2>1, <2>3 DEF ChainShape, ChainInv
<1>2. CASE activeRules[n] # None
    <2> DEFINE rules == activeRules[n]
               gone == rules \ kept
    <2>1. rules \in RuleSets(n) /\ left = kernel (-) SetToBag(gone) /\ kept \subseteq rules
        BY <1>2 DEF ChainShape, OrNone, DeleteProxyRules, Recorded
    <2>2. rules \subseteq Rules
        BY <2>1, RulesOfProxy
    <2>3. \A rule : n \in Holders(rule) <=> rule \in rules
        BY <1>2 DEF Holders, Recorded
    <2> HIDE DEF left, rules
    <2>4. /\ IsChain(left)
          /\ \A rule : rule \notin gone => Copies(rule, left) = Copies(rule, kernel)
          /\ \A rule \in gone : Copies(rule, kernel) # 0 => Copies(rule, left) = Copies(rule, kernel) - 1
        BY <2>1, TakingOut DEF ChainShape
    <2>5. ASSUME NEW rule \in Rules
          PROVE  /\ rule \notin kept => Copies(rule, left) =
                        Cardinality(Holders(rule) \ {n}) + Copies(rule, strays)
                 /\ rule \in kept => Copies(rule, left) =
                        Cardinality(Holders(rule) \ {n}) + Copies(rule, strays) + 1
        <3>1. /\ Copies(rule, kernel) = Cardinality(Holders(rule)) + Copies(rule, strays)
              /\ Copies(rule, strays) \in Nat
            BY <2>5, CopiesOf DEF ChainInv, ChainShape
        <3>2. /\ Cardinality(Holders(rule) \ {n}) \in Nat
              /\ n \in Holders(rule) => Cardinality(Holders(rule)) = Cardinality(Holders(rule) \ {n}) + 1
              /\ n \notin Holders(rule) => Holders(rule) \ {n} = Holders(rule)
            BY HoldersCounted
        <3>3. CASE rule \in gone
            <4>1. Copies(rule, kernel) = Cardinality(Holders(rule) \ {n}) + 1 + Copies(rule, strays)
                BY <2>3, <3>1, <3>2, <3>3
            <4>2. Copies(rule, left) = Copies(rule, kernel) - 1
                BY <2>4, <3>1, <3>2, <3>3, <4>1
            <4> PICK c, s : c = Cardinality(Holders(rule) \ {n}) /\ s = Copies(rule, strays)
                OBVIOUS
            <4>3. Copies(rule, left) = (c + 1 + s) - 1 /\ c \in Nat /\ s \in Nat
                BY <3>1, <3>2, <4>1, <4>2
            <4>4. Copies(rule, left) = c + s /\ rule \notin kept
                BY <3>3, <4>3
            <4> QED
                BY <4>4
        <3>4. CASE rule \in kept
            <4>1. rule \in rules /\ rule \notin gone
                BY <2>1, <3>4
            <4>2. Copies(rule, left) = Copies(rule, kernel)
                BY <2>4, <4>1
            <4> PICK c, s : c = Cardinality(Holders(rule) \ {n}) /\ s = Copies(rule, strays)
                OBVIOUS
            <4>3. Copies(rule, left) = c + 1 + s /\ c \in Nat /\ s \in Nat
                BY <2>3, <3>1, <3>2, <4>1, <4>2
            <4>4. Copies(rule, left) = c + s + 1
                BY <4>3
            <4> QED
                BY <3>4, <4>4
        <3>5. CASE rule \notin rules
            BY <2>1, <2>3, <2>4, <3>1, <3>2, <3>5
        <3> QED
            BY <3>3, <3>4, <3>5
    <2> QED
        BY <2>1, <2>2, <2>4, <2>5 DEF left
<1> QED
    BY <1>1, <1>2

-----------------------------------------------------------------------------
(* Jobs *)

\* Files only gain names.
NamesKept == \A f \in Paths : named[f] \subseteq named'[f]

\* Only a moves.
Only(a) == pc' = [pc EXCEPT ![a] = pc'[a]] /\ job' = [job EXCEPT ![a] = job'[a]]

Places == {"save", "stop", "flush", "start", "apply", "unlink"}

\* An actor goes on with its work.
Continues(a) ==
    /\ Only(a) /\ pc'[a] \in Pcs /\ job'[a] \in JobType /\ JobOK(a)'
    /\ pc'[a] \in Places => job'[a].name # None
    /\ Touches(a)' \subseteq Touches(a) /\ overlapped' = overlapped

\* An actor sets to work, and whom it meets is noted.
Starts(a) ==
    /\ Only(a) /\ pc'[a] \in Pcs /\ job'[a] \in JobType /\ JobOK(a)'
    /\ pc'[a] \in Places => job'[a].name # None
    /\ overlapped \subseteq overlapped' /\ overlapped' \subseteq Names
    /\ \A b \in Actors \ {a} : Touches(a)' \intersect Touches(b) \subseteq overlapped'

\* Nobody moves.
Rests == UNCHANGED <<pc, job>> /\ overlapped \subseteq overlapped' /\ overlapped' \subseteq Names

\* No work is a job.
LEMMA NoJobType == NoJob \in JobType /\ NoJob.todo = {} /\ NoJob.op = "none" /\ NoJob.cf = None
                   /\ NoJob.path = None /\ NoJob.name = None /\ NoJob.save = None
    BY DEF NoJob, JobType, Ops, OrNone, Texts

\* What the type invariant says of one actor, field by field.
LEMMA JobFields ==
    ASSUME TypeOK, NEW a \in Actors
    PROVE  /\ job[a] \in JobType /\ pc[a] \in Pcs /\ job[a].op \in Ops
           /\ job[a].name \in OrNone(Names) /\ job[a].path \in OrNone(Spelled)
           /\ job[a].save \in Texts /\ job[a].cf \in OrNone(ConfigTexts)
           /\ job[a].todo \subseteq Items /\ job[a].onDisk \subseteq Names
           /\ pc[a] \in Places => job[a].name \in Names
           /\ job = [b \in Actors |-> job[b]] /\ pc = [b \in Actors |-> pc[b]]
    BY DEF TypeOK, JobType, Places, OrNone

\* An item of work stays sound: names are added to a file, never removed.
LEMMA ItemStaysOK ==
    ASSUME NamesKept, NEW w, w.path \in OrNone(Spelled), ItemOK(w)
    PROVE  ItemOK(w)'
<1>1. w.path # None => w.path.file \in Paths
    BY DEF OrNone, Spelled
<1> QED
    BY <1>1 DEF ItemOK, NamesKept

\* So does all the work an actor has left.
LEMMA ItemsStayOK ==
    ASSUME TypeOK, NamesKept, NEW a \in Actors, \A w \in job[a].todo : ItemOK(w)
    PROVE  \A w \in job[a].todo : ItemOK(w)'
<1> SUFFICES ASSUME NEW w \in job[a].todo
             PROVE  ItemOK(w)'
    OBVIOUS
<1>1. w \in Items
    BY JobFields
<1>2. w.path \in OrNone(Spelled)
    BY <1>1 DEF Items
<1> QED
    BY <1>2, ItemStaysOK

\* What is true of an actor's job does not depend on what others do.
LEMMA JobStaysOK ==
    ASSUME TypeOK, NamesKept, NEW a \in Actors, JobOK(a), pc'[a] = pc[a], job'[a] = job[a]
    PROVE  JobOK(a)'
<1>1. \A w \in job[a].todo : ItemOK(w)'
    BY ItemsStayOK DEF JobOK
<1>2. ItemOK(job[a]) => ItemOK(job[a])'
    BY ItemStaysOK, JobFields
<1> QED
    BY <1>1, <1>2 DEF JobOK

\* What a step of at most one actor keeps: types of places and jobs, JobInv and AloneInv.
LEMMA Steps ==
    ASSUME BaseInv, NamesKept,
           Rests \/ \E a \in Actors : Continues(a) \/ Starts(a)
    PROVE  /\ pc' \in [Actors -> Pcs] /\ job' \in [Actors -> JobType]
           /\ \A a \in Actors : pc'[a] \in Places => job'[a].name # None
           /\ overlapped' \subseteq Names /\ JobInv' /\ AloneInv'
<1>1. CASE Rests
    <2>1. JobInv'
        BY <1>1, JobStaysOK DEF Rests, BaseInv, JobInv
    <2>2. AloneInv'
        BY <1>1 DEF Rests, BaseInv, AloneInv, Touches
    <2> QED
        BY <1>1, <2>1, <2>2 DEF Rests, BaseInv, TypeOK, Places
<1>2. ASSUME NEW a \in Actors, Continues(a) \/ Starts(a)
      PROVE  /\ pc' \in [Actors -> Pcs] /\ job' \in [Actors -> JobType]
             /\ \A b \in Actors : pc'[b] \in Places => job'[b].name # None
             /\ overlapped' \subseteq Names /\ JobInv' /\ AloneInv'
    <2>1. Only(a) /\ pc'[a] \in Pcs /\ job'[a] \in JobType /\ JobOK(a)'
        BY <1>2 DEF Continues, Starts
    <2>2. pc \in [Actors -> Pcs] /\ job \in [Actors -> JobType] /\ overlapped \subseteq Names
        BY DEF BaseInv, TypeOK
    <2>3. pc' \in [Actors -> Pcs] /\ job' \in [Actors -> JobType]
        BY <2>1, <2>2 DEF Only
    <2>4. \A b \in Actors \ {a} : pc'[b] = pc[b] /\ job'[b] = job[b]
        BY <2>1, <2>2 DEF Only
    <2>5. JobInv'
        BY <2>1, <2>4, JobStaysOK DEF JobInv, BaseInv
    <2>6. \A b \in Actors \ {a} : Touches(b)' = Touches(b)
        BY <2>4 DEF Touches
    <2>7. AloneInv'
        BY <1>2, <2>6, ZenonT(60) DEF AloneInv, BaseInv, Continues, Starts
    <2>8. ASSUME NEW b \in Actors, pc'[b] \in Places
          PROVE  job'[b].name # None
        <3>1. pc[b] \in Places => job[b].name # None
            BY DEF BaseInv, TypeOK, Places
        <3>2. pc'[a] \in Places => job'[a].name # None
            BY <1>2 DEF Continues, Starts
        <3> QED
            BY <2>4, <2>8, <3>1, <3>2
    <2> QED
        BY <1>2, <2>2, <2>3, <2>5, <2>7, <2>8 DEF Continues, Starts
<1> QED
    BY <1>1, <1>2

\* An item of work is over.
LEMMA Leaving ==
    ASSUME BaseInv, NamesKept, NEW a \in Actors, pc[a] \notin Resting, Leave(a),
           overlapped' = overlapped
    PROVE  Continues(a) /\ pc'[a] \in Resting \union {"next"}
<1>1. /\ job = [b \in Actors |-> job[b]] /\ pc = [b \in Actors |-> pc[b]]
      /\ job[a] \in JobType /\ JobOK(a) /\ \A w \in job[a].todo : ItemOK(w)'
    BY JobFields, ItemsStayOK DEF BaseInv, JobInv, JobOK
<1>2. CASE job[a].todo # {} \/ job[a].op \in {"boot", "reloadAll"}
    <2>1. pc' = [pc EXCEPT ![a] = "next"] /\ job' = job /\ job[a].op \in Sweeping
        BY <1>1, <1>2 DEF Leave, Goto, JobOK, Sweeping
    <2>2. Only(a) /\ pc'[a] = "next"
        BY <1>1, <2>1 DEF Only
    <2>3. JobOK(a)'
        BY <1>1, <2>1, <2>2 DEF JobOK, Resting, Sweeping, AtManager
    <2>4. Touches(a) = Names
        BY <2>1 DEF Touches, Sweeping, Resting
    <2>5. Touches(a)' \subseteq Names
        BY <2>1, <2>2 DEF Touches, Sweeping
    <2> QED
        BY <1>1, <2>1, <2>2, <2>3, <2>4, <2>5 DEF Continues, Pcs, Places
<1>3. CASE ~ (job[a].todo # {} \/ job[a].op \in {"boot", "reloadAll"})
    <2>1. pc' = [pc EXCEPT ![a] = Home(a)] /\ job' = [job EXCEPT ![a] = NoJob]
        BY <1>3 DEF Leave, Goto
    <2>2. Only(a) /\ pc'[a] = Home(a) /\ job'[a] = NoJob /\ Home(a) \in Resting
        BY <1>1, <2>1 DEF Only, Home, Resting
    <2>3. JobOK(a)'
        BY <2>2, NoJobType DEF JobOK, Resting, Sweeping, AtManager
    <2>4. Touches(a)' = {}
        BY <2>2 DEF Touches, Resting
    <2> QED
        BY <2>2, <2>3, <2>4, NoJobType DEF Continues, Pcs, Places, Resting
<1> QED
    BY <1>2, <1>3

\* What follows the stop.
LEMMA Stopped ==
    ASSUME BaseInv, NamesKept, NEW a \in Actors, pc[a] \in {"stop", "flush"}, AfterStop(a),
           overlapped' = overlapped
    PROVE  /\ Continues(a)
           /\ \/ pc'[a] \in Resting \union {"next", "unlink"}
              \/ pc'[a] = "start" /\ job'[a] = job[a]
<1>1. /\ job = [b \in Actors |-> job[b]] /\ pc = [b \in Actors |-> pc[b]]
      /\ job[a] \in JobType /\ JobOK(a) /\ \A w \in job[a].todo : ItemOK(w)'
      /\ (job'[a] = job[a] => ItemOK(job[a])') /\ job[a].name # None
    <2>1. ItemOK(job[a])
        BY DEF BaseInv, JobInv, JobOK, AtManager
    <2>2. /\ TypeOK /\ JobOK(a) /\ \A w \in job[a].todo : ItemOK(w)
        BY DEF BaseInv, JobInv, JobOK
    <2>3. /\ job = [b \in Actors |-> job[b]] /\ pc = [b \in Actors |-> pc[b]]
          /\ job[a] \in JobType /\ job[a].name \in Names /\ job[a].path \in OrNone(Spelled)
        BY <2>2, JobFields, Zenon DEF Places
    <2>4. (job'[a] = job[a] => ItemOK(job[a])') /\ \A w \in job[a].todo : ItemOK(w)'
        BY <2>1, <2>2, <2>3, ItemsStayOK, ItemStaysOK
    <2> QED
        BY <2>2, <2>3, <2>4, NoneAssumption
<1>2. CASE ~ (job[a].cf # None \/ job[a].op = "delete")
    <2>1. Leave(a) /\ pc[a] \notin Resting
        BY <1>2 DEF AfterStop, Resting
    <2>2. Continues(a) /\ pc'[a] \in Resting \union {"next"}
        BY <2>1, Leaving
    <2> QED
        BY <2>2
<1>3. CASE job[a].cf # None \/ job[a].op = "delete"
    <2>1. /\ job' = job
          /\ \/ pc' = [pc EXCEPT ![a] = "start"] /\ job[a].cf # None
             \/ pc' = [pc EXCEPT ![a] = "unlink"] /\ job[a].cf = None /\ job[a].op = "delete"
        BY <1>3 DEF AfterStop, Goto
    <2>2. Only(a) /\ pc'[a] \in {"start", "unlink"} /\ job'[a] = job[a]
        BY <1>1, <2>1 DEF Only
    <2>3. JobOK(a)'
        BY <1>1, <2>1, <2>2 DEF JobOK, Resting, Sweeping, AtManager
    <2>4. Touches(a)' = Touches(a)
        BY <2>2 DEF Touches
    <2> QED
        BY <1>1, <2>1, <2>2, <2>3, <2>4 DEF Continues, Pcs, Places
<1> QED
    BY <1>2, <1>3

\* What the work of a file is.
LEMMA WorkType ==
    ASSUME BaseInv, NEW f \in Paths, IsConfig(disk[f])
    PROVE  /\ disk[f] \in ConfigTexts /\ disk[f].name \in Names
           /\ Work(f) \in Items /\ ItemOK(Work(f)) /\ Work(f).name = disk[f].name
           /\ Work(f).path = Listed(f) /\ Work(f).cf \in {None, disk[f]}
           /\ Listed(f) \in Spelled /\ Listed(f) # None /\ Listed(f).file = f
           /\ Watched(f) \in Spelled /\ Watched(f) # None /\ Watched(f).file = f
<1>1. disk[f] \in ConfigTexts
    BY DEF BaseInv, TypeOK, ConfigTexts
<1>2. disk[f].name \in Names
    BY <1>1, TextIsConfig DEF ConfigType
<1>3. /\ Listed(f) \in Spelled /\ Listed(f) # None /\ Listed(f).file = f
      /\ Watched(f) \in Spelled /\ Watched(f) # None /\ Watched(f).file = f
    <2>1. (~ RelativeDir) \in BOOLEAN /\ TRUE \in BOOLEAN
        OBVIOUS
    <2>2. Listed(f) \in Spelled /\ Watched(f) \in Spelled
        BY <2>1, Zenon DEF Listed, Watched, Spelled
    <2>3. Listed(f).file = f /\ Watched(f).file = f
        BY DEF Listed, Watched
    <2> QED
        BY <2>2, <2>3, NoneAssumption
<1>4. Work(f) \in Items /\ Work(f).cf \in {None, disk[f]}
    BY <1>1, <1>2, <1>3 DEF Work, Items, OrNone
<1>5. ItemOK(Work(f))
    BY <1>3 DEF Work, ItemOK, BaseInv, NameInv
<1> QED
    BY <1>1, <1>2, <1>3, <1>4, <1>5 DEF Work

\* What a load of the directory finds is sound work.
LEMMA LoadedWorkType ==
    ASSUME BaseInv
    PROVE  LoadedWork \subseteq Items /\ \A w \in LoadedWork : ItemOK(w)
    BY WorkType DEF LoadedWork

\* What a request finds for a name.
LEMMA ResolveType ==
    ASSUME BaseInv, NEW n \in Names, NEW p \in Resolve(n)
    PROVE  /\ p.cf \in ConfigTexts /\ p.cf.name = n /\ p.path \in Spelled /\ p.path # None
           /\ p.path.file \in Paths /\ n \in named[p.path.file]
           /\ \/ running[n] # None /\ p = running[n]
              \/ running[n] = None /\ IsConfig(disk[p.path.file]) /\ p.cf = disk[p.path.file]
                   /\ p.path = Listed(p.path.file)
<1>1. CASE running[n] # None
    <2>1. p = running[n] /\ p \in Loaded
        BY <1>1 DEF Resolve, BaseInv, TypeOK, OrNone
    <2>2. p.cf \in ConfigTexts /\ p.path \in Spelled /\ p.path # None /\ p.path.file \in Paths
        BY <2>1, NoneAssumption DEF Loaded, Spelled
    <2> QED
        BY <1>1, <2>1, <2>2 DEF BaseInv, TypeOK, NameInv
<1>2. CASE running[n] = None
    <2>1. PICK f \in Paths : IsConfig(disk[f]) /\ disk[f].name = n /\ p = [cf |-> disk[f], path |-> Listed(f)]
        BY <1>2 DEF Resolve
    <2>2. p.cf = disk[f] /\ p.path = Listed(f) /\ p.path.file = f
        BY <2>1 DEF Listed
    <2> QED
        BY <1>2, <2>1, <2>2, WorkType DEF BaseInv, NameInv
<1> QED
    BY <1>1, <1>2

-----------------------------------------------------------------------------
(* BaseInv, action by action *)

FileTypes ==
    /\ disk \in [Paths -> Texts] /\ events \in Seq(Changes) /\ missed \subseteq Paths
    /\ named \in [Paths -> SUBSET Names]
    /\ \A f \in Paths : IsConfig(disk[f]) => disk[f].name \in named[f]

WatchTypes ==
    /\ watching \in BOOLEAN /\ out \in Seq(Changes) /\ Len(out) <= OutCap
    /\ pending \subseteq Paths /\ emitting \in [Paths -> Nat]

RunTypes ==
    /\ running \in [Names -> OrNone(Loaded)] /\ bare \subseteq Names
    /\ \A n \in Names : running[n] # None =>
        running[n].cf.name = n /\ n \in named[running[n].path.file]

SockTypes ==
    /\ closing \in [Actors -> OrNone(ConfigTexts)]
    /\ lost \subseteq ConfigTexts /\ refused \subseteq Names

BaseMove ==
    /\ NamesKept /\ FileTypes' /\ WatchTypes' /\ RunTypes'
    /\ Rests \/ \E a \in Actors : Continues(a) \/ Starts(a)

\* The type invariant by what it is about: files, the watcher, the running proxies.
LEMMA BaseTypes == BaseInv => FileTypes /\ WatchTypes /\ RunTypes /\ SockTypes
    BY DEF BaseInv, TypeOK, NameInv, FileTypes, WatchTypes, RunTypes, SockTypes

\* A step that keeps these types, and moves one actor at most, keeps the invariant.
LEMMA BaseKept ==
    ASSUME BaseInv, BaseMove, SockTypes'
    PROVE  BaseInv'
<1>1. /\ pc' \in [Actors -> Pcs] /\ job' \in [Actors -> JobType]
      /\ \A a \in Actors : pc'[a] \in Places => job'[a].name # None
      /\ overlapped' \subseteq Names /\ JobInv' /\ AloneInv'
    BY Steps DEF BaseMove
<1>2. TypeOK'
    BY <1>1 DEF BaseMove, FileTypes, WatchTypes, RunTypes, SockTypes, TypeOK, Places
<1>3. NameInv'
    BY DEF BaseMove, FileTypes, RunTypes, NameInv
<1> QED
    BY <1>1, <1>2, <1>3 DEF BaseInv

\* Steps that leave the files alone ...
LEMMA FilesStay ==
    ASSUME BaseInv, UNCHANGED fileVars
    PROVE  NamesKept /\ FileTypes'
    BY BaseTypes DEF fileVars, NamesKept, FileTypes

\* ... the watcher's state ...
LEMMA WatchStays ==
    ASSUME BaseInv, UNCHANGED watchVars
    PROVE  WatchTypes'
    BY BaseTypes DEF watchVars, WatchTypes

\* ... and the running proxies keep their types.
LEMMA RunsStay ==
    ASSUME BaseInv, NamesKept, UNCHANGED running, bare' \subseteq Names
    PROVE  RunTypes'
<1>1. \A n \in Names : running[n] # None => running[n].path.file \in Paths
    BY BaseTypes DEF RunTypes, OrNone, Loaded, Spelled
<1> QED
    BY <1>1, BaseTypes DEF RunTypes, NamesKept

\* A file's text changes.
LEMMA Writing ==
    ASSUME BaseInv, NEW f \in Paths, NEW text \in Texts, WriteFile(f, text)
    PROVE  /\ NamesKept /\ FileTypes' /\ (IsConfig(text) => text.name \in named'[f])
           /\ disk' = [disk EXCEPT ![f] = text]
<1>1. IsConfig(text) => text.name \in Names
    BY TextIsConfig DEF ConfigTexts, ConfigType
<1>2. FileTypes
    BY BaseTypes
<1>3. disk' \in [Paths -> Texts] /\ missed' \subseteq Paths
    BY <1>2 DEF WriteFile, FileTypes
<1>4. events' \in Seq(Changes)
    <2>1. [path |-> f, op |-> IF text = None THEN "remove" ELSE "update"] \in Changes
        BY DEF Changes
    <2> QED
        BY <1>2, <2>1 DEF WriteFile, FileTypes
<1>5. /\ named' \in [Paths -> SUBSET Names] /\ NamesKept
      /\ IsConfig(text) => text.name \in named'[f]
    BY <1>1, <1>2 DEF WriteFile, FileTypes, NamesKept
<1>6. \A g \in Paths : IsConfig(disk'[g]) => disk'[g].name \in named'[g]
    BY <1>2, <1>5 DEF WriteFile, FileTypes, NamesKept
<1> QED
    BY <1>3, <1>4, <1>5, <1>6 DEF FileTypes, WriteFile

\* The actor takes the proxy out of the map.
LEMMA StopBase ==
    ASSUME BaseInv, NEW a \in Actors, Stop(a)
    PROVE  BaseMove /\ Continues(a)
<1>1. NamesKept /\ FileTypes' /\ WatchTypes' /\ bare' \subseteq Names /\ overlapped' = overlapped
    BY FilesStay, WatchStays, BaseTypes DEF Stop, RunTypes, vars
<1>2. RunTypes'
    BY <1>1, RunsStay, BaseTypes DEF Stop, RunTypes, OrNone, fileVars
<1>3. Continues(a)
    <2>1. CASE running[job[a].name] = None
        BY <1>1, <2>1, Stopped DEF Stop
    <2>2. CASE running[job[a].name] # None
        <3>1. pc[a] = "stop" /\ pc' = [pc EXCEPT ![a] = "flush"] /\ job' = job
            BY <2>2 DEF Stop, Goto
        <3>2. /\ pc = [b \in Actors |-> pc[b]] /\ job = [b \in Actors |-> job[b]]
              /\ job[a] \in JobType /\ job[a].name # None
              /\ JobOK(a) /\ (\A w \in job[a].todo : ItemOK(w)')
              /\ (ItemOK(job[a]) /\ job'[a] = job[a] => ItemOK(job[a])')
            BY <1>1, <3>1, JobFields, ItemsStayOK, ItemStaysOK, NoneAssumption
               DEF BaseInv, JobInv, JobOK, Places
        <3>3. Only(a) /\ pc'[a] = "flush" /\ job'[a] = job[a]
            BY <3>1, <3>2 DEF Only
        <3>4. JobOK(a)'
            BY <3>1, <3>2, <3>3 DEF JobOK, Resting, AtManager
        <3>5. Touches(a)' = Touches(a)
            BY <3>1, <3>3 DEF Touches
        <3> QED
            BY <1>1, <3>2, <3>3, <3>4, <3>5 DEF Continues, Pcs, Places
    <2> QED
        BY <2>1, <2>2
<1> QED
    BY <1>1, <1>2, <1>3 DEF BaseMove

\* The onDelete hook is done.
LEMMA FlushBase ==
    ASSUME BaseInv, NEW a \in Actors, Flush(a)
    PROVE  BaseMove /\ Continues(a)
<1>1. /\ NamesKept /\ FileTypes' /\ WatchTypes' /\ bare' \subseteq Names /\ overlapped' = overlapped
      /\ UNCHANGED running
    BY FilesStay, WatchStays, BaseTypes DEF Flush, RunTypes
<1>2. Continues(a)
    BY <1>1, Stopped DEF Flush
<1> QED
    BY <1>1, <1>2, RunsStay DEF BaseMove

\* The actor puts the new proxy into the map ...
LEMMA StartBase ==
    ASSUME BaseInv, NEW a \in Actors, Start(a)
    PROVE  BaseMove /\ Continues(a)
<1> DEFINE n == job[a].name
<1>1. /\ NamesKept /\ FileTypes' /\ WatchTypes' /\ bare' \subseteq Names /\ overlapped' = overlapped
    BY FilesStay, WatchStays, BaseTypes DEF Start, RunTypes
<1>2. pc[a] = "start" /\ pc[a] \notin Resting
    BY DEF Start, Resting
<1>3. /\ running' = [running EXCEPT ![n] = [cf |-> job[a].cf, path |-> job[a].path]]
      /\ pc' = [pc EXCEPT ![a] = "apply"] /\ job' = job
    BY DEF Start, Goto
<1>4. /\ pc = [b \in Actors |-> pc[b]] /\ job = [b \in Actors |-> job[b]]
      /\ job[a] \in JobType /\ n \in Names /\ job[a].cf # None /\ job[a].cf \in OrNone(ConfigTexts)
      /\ job[a].path \in OrNone(Spelled) /\ ItemOK(job[a])
      /\ JobOK(a) /\ (\A w \in job[a].todo : ItemOK(w)')
    BY <1>1, <1>2, JobFields, ItemsStayOK DEF BaseInv, JobInv, JobOK, Places, AtManager
<1>5. Only(a) /\ pc'[a] = "apply" /\ job'[a] = job[a]
    BY <1>3, <1>4 DEF Only
<1>6. JobOK(a)'
    BY <1>2, <1>4, <1>5 DEF JobOK, Resting, AtManager, ItemOK
<1>7. Touches(a)' = Touches(a)
    BY <1>2, <1>5 DEF Touches
<1>8. Continues(a)
    BY <1>1, <1>4, <1>5, <1>6, <1>7, NoneAssumption DEF Continues, Pcs, Places
<1>9. /\ job[a].cf \in ConfigTexts /\ job[a].path \in Spelled /\ job[a].path.file \in Paths
      /\ job[a].cf.name = n /\ n \in named[job[a].path.file]
    BY <1>4 DEF OrNone, ItemOK, Spelled
<1>10. [cf |-> job[a].cf, path |-> job[a].path] \in Loaded
    BY <1>9 DEF Loaded
<1>11. \A m \in Names : running[m] # None => running[m].path.file \in Paths
    BY BaseTypes DEF RunTypes, OrNone, Loaded, Spelled
<1>12. RunTypes'
    BY <1>1, <1>3, <1>4, <1>9, <1>10, <1>11, BaseTypes DEF RunTypes, OrNone, NamesKept
<1> QED
    BY <1>1, <1>8, <1>12 DEF BaseMove

\* ... or cannot.
LEMMA StartFailsBase ==
    ASSUME BaseInv, NEW a \in Actors, StartFails(a)
    PROVE  BaseMove /\ Continues(a)
<1>1. /\ NamesKept /\ FileTypes' /\ WatchTypes' /\ bare' \subseteq Names /\ overlapped' = overlapped
      /\ UNCHANGED running
    BY FilesStay, WatchStays, BaseTypes DEF StartFails, RunTypes
<1>2. Continues(a)
    BY <1>1, Leaving DEF StartFails, Resting
<1> QED
    BY <1>1, <1>2, RunsStay DEF BaseMove

\* The onCreate hook is done.
LEMMA ApplyBase ==
    ASSUME BaseInv, NEW a \in Actors, Apply(a)
    PROVE  BaseMove /\ Continues(a)
<1>1. /\ NamesKept /\ FileTypes' /\ WatchTypes' /\ bare' \subseteq Names /\ overlapped' = overlapped
      /\ UNCHANGED running
    <2>1. pc[a] = "apply" /\ bare \subseteq Names
        BY BaseTypes DEF Apply, RunTypes
    <2>2. job[a].name \in Names
        BY <2>1, JobFields DEF BaseInv, Places
    <2>3. bare' \subseteq bare \union {job[a].name}
        BY DEF Apply
    <2> QED
        BY <2>1, <2>2, <2>3, FilesStay, WatchStays DEF Apply
<1>2. Continues(a)
    BY <1>1, Leaving DEF Apply, Resting
<1> QED
    BY <1>1, <1>2, RunsStay DEF BaseMove

\* The actor takes an item of work, makes itself a list of what to stop, or is done.
LEMMA TakeNextBase ==
    ASSUME BaseInv, NEW a \in Actors, TakeNext(a)
    PROVE  BaseMove /\ Continues(a)
<1>1. /\ NamesKept /\ FileTypes' /\ WatchTypes' /\ bare' \subseteq Names /\ overlapped' = overlapped
      /\ UNCHANGED running
    BY FilesStay, WatchStays, BaseTypes, Zenon DEF TakeNext, RunTypes
<1>2. /\ pc[a] = "next" /\ job[a].op \in Sweeping
      /\ pc = [b \in Actors |-> pc[b]] /\ job = [b \in Actors |-> job[b]]
      /\ job[a] \in JobType /\ job[a].todo \subseteq Items
      /\ JobOK(a) /\ (\A w \in job[a].todo : ItemOK(w)')
    BY <1>1, JobFields, ItemsStayOK, Zenon DEF BaseInv, JobInv, JobOK, TakeNext
<1>3. Touches(a) = Names
    BY <1>2 DEF Touches, Sweeping
<1>4. ASSUME NEW w \in job[a].todo, Goto(a, "stop"),
             job' = [job EXCEPT ![a].todo = @ \ {w}, ![a].name = w.name,
                                ![a].path = w.path, ![a].cf = w.cf]
      PROVE  Continues(a)
    <2>1. /\ w \in Items /\ w.name \in Names /\ w.path \in OrNone(Spelled)
          /\ w.cf \in OrNone(ConfigTexts) /\ ItemOK(w)'
        BY <1>2 DEF Items
    <2>2. /\ job'[a] \in JobType /\ job'[a].todo = job[a].todo \ {w} /\ job'[a].name = w.name
          /\ job'[a].path = w.path /\ job'[a].cf = w.cf /\ job'[a].op = job[a].op
        BY <1>2, <1>4, <2>1 DEF JobType, OrNone
    <2>3. Only(a) /\ pc'[a] = "stop"
        BY <1>2, <1>4 DEF Only, Goto
    <2>4. ItemOK(job[a])'
        BY <2>1, <2>2 DEF ItemOK
    <2>5. JobOK(a)'
        BY <1>2, <2>2, <2>3, <2>4 DEF JobOK, Resting, AtManager, Sweeping
    <2>6. Touches(a)' \subseteq Names
        BY <1>2, <2>2, <2>3 DEF Touches, Sweeping
    <2> QED
        BY <1>1, <1>3, <2>1, <2>2, <2>3, <2>5, <2>6, NoneAssumption DEF Continues, Pcs, Places
<1>5. ASSUME UNCHANGED pc,
             job' = [job EXCEPT ![a].op = "reloadSweep",
                                ![a].todo = {[name |-> n, path |-> None, cf |-> None] :
                                                n \in {m \in Names \ job[a].onDisk : running[m] # None}}]
      PROVE  Continues(a)
    <2> DEFINE stops == {[name |-> n, path |-> None, cf |-> None] :
                            n \in {m \in Names \ job[a].onDisk : running[m] # None}}
    <2>1. stops \subseteq Items /\ \A w \in stops : w.cf = None
        BY DEF Items, OrNone
    <2> HIDE DEF stops
    <2>2. job'[a] \in JobType /\ job'[a].todo = stops /\ job'[a].op = "reloadSweep"
        BY <1>2, <1>5, <2>1 DEF JobType, Ops, stops
    <2>3. Only(a) /\ pc'[a] = "next"
        BY <1>2, <1>5 DEF Only
    <2>4. JobOK(a)'
        BY <2>1, <2>2, <2>3 DEF JobOK, ItemOK, Resting, AtManager, Sweeping
    <2>5. Touches(a)' \subseteq Names
        BY <2>2, <2>3 DEF Touches
    <2> QED
        BY <1>1, <1>3, <2>2, <2>3, <2>4, <2>5 DEF Continues, Pcs, Places
<1>6. ASSUME job' = [job EXCEPT ![a] = NoJob], Goto(a, Home(a))
      PROVE  Continues(a)
    <2>1. Only(a) /\ pc'[a] = Home(a) /\ job'[a] = NoJob /\ Home(a) \in Resting
        BY <1>2, <1>6 DEF Only, Goto, Home, Resting
    <2>2. JobOK(a)'
        BY <2>1, NoJobType DEF JobOK, Resting, Sweeping, AtManager
    <2>3. Touches(a)' = {}
        BY <2>1 DEF Touches, Resting
    <2> QED
        BY <1>1, <2>1, <2>2, <2>3, NoJobType DEF Continues, Pcs, Places, Resting
<1>7. Continues(a)
    BY <1>4, <1>5, <1>6, Zenon DEF TakeNext
<1> QED
    BY <1>1, <1>7, RunsStay DEF BaseMove

\* The handler writes the file it resolved.
LEMMA SaveBase ==
    ASSUME BaseInv, NEW a \in Actors, Save(a)
    PROVE  /\ BaseMove /\ Continues(a)
           /\ job[a].path \in Spelled /\ job[a].path.file \in Paths /\ job[a].save \in Texts
<1>1. /\ pc[a] = "save" /\ pc[a] \notin Resting /\ JobOK(a)
      /\ job[a].save \in ConfigTexts /\ job[a].save.name = job[a].name
      /\ job[a].path # None /\ job[a].cf \in {None, job[a].save}
    BY DEF Save, Resting, BaseInv, JobInv, JobOK
<1>2. job[a].path \in Spelled /\ job[a].path.file \in Paths
    BY <1>1, JobFields DEF BaseInv, OrNone, Spelled
<1>3. job[a].save \in Texts /\ IsConfig(job[a].save)
    BY <1>1, TextIsConfig
<1>4. /\ WatchTypes' /\ bare' \subseteq Names /\ overlapped' = overlapped /\ UNCHANGED running
    BY WatchStays, BaseTypes DEF Save, RunTypes
<1>5. CASE Leave(a) /\ UNCHANGED fileVars
    BY <1>1, <1>2, <1>3, <1>4, <1>5, Leaving, FilesStay, RunsStay DEF BaseMove
<1>6. CASE WriteFile(job[a].path.file, job[a].save)
    <2>1. NamesKept /\ FileTypes' /\ job[a].name \in named'[job[a].path.file]
        BY <1>1, <1>2, <1>3, <1>6, Writing
    <2>2. CASE Leave(a)
        BY <1>1, <1>2, <1>3, <1>4, <2>1, <2>2, Leaving, RunsStay DEF BaseMove
    <2>3. CASE Goto(a, "stop") /\ UNCHANGED job
        <3>1. /\ pc = [b \in Actors |-> pc[b]] /\ job = [b \in Actors |-> job[b]]
              /\ job[a] \in JobType /\ job[a].name \in Names
              /\ \A w \in job[a].todo : ItemOK(w)'
            BY <1>1, <2>1, JobFields, ItemsStayOK DEF BaseInv, JobOK, Places
        <3>2. Only(a) /\ pc'[a] = "stop" /\ job'[a] = job[a]
            BY <2>3, <3>1 DEF Only, Goto
        <3>3. ItemOK(job[a])'
            BY <1>1, <2>1, <3>2 DEF ItemOK
        <3>4. JobOK(a)'
            BY <1>1, <3>1, <3>2, <3>3 DEF JobOK, Resting, AtManager
        <3>5. Touches(a)' = Touches(a)
            BY <1>1, <3>2 DEF Touches
        <3>6. Continues(a)
            BY <1>4, <3>1, <3>2, <3>4, <3>5, NoneAssumption DEF Continues, Pcs, Places
        <3> QED
            BY <1>2, <1>3, <1>4, <2>1, <3>6, RunsStay DEF BaseMove
    <2> QED
        BY <1>5, <1>6, <2>2, <2>3 DEF Save
<1> QED
    BY <1>5, <1>6 DEF Save

\* The handler removes the file it resolved.
LEMMA UnlinkBase ==
    ASSUME BaseInv, NEW a \in Actors, Unlink(a)
    PROVE  /\ BaseMove /\ Continues(a)
           /\ job[a].path \in Spelled /\ job[a].path.file \in Paths
<1>1. pc[a] = "unlink" /\ pc[a] \notin Resting /\ job[a].path # None
    BY DEF Unlink, Resting, BaseInv, JobInv, JobOK
<1>2. job[a].path \in Spelled /\ job[a].path.file \in Paths /\ None \in Texts /\ ~ IsConfig(None)
    BY <1>1, JobFields DEF BaseInv, OrNone, Spelled, Texts, IsConfig
<1>3. /\ WatchTypes' /\ bare' \subseteq Names /\ overlapped' = overlapped /\ UNCHANGED running
    BY WatchStays, BaseTypes DEF Unlink, RunTypes
<1>4. NamesKept /\ FileTypes'
    BY <1>2, FilesStay, Writing DEF Unlink
<1>5. Continues(a)
    BY <1>1, <1>3, <1>4, Leaving DEF Unlink
<1> QED
    BY <1>2, <1>3, <1>4, <1>5, RunsStay DEF BaseMove

\* What Begin does, and notes.
LEMMA Beginning ==
    ASSUME BaseInv, NEW a \in Actors, pc[a] \in Resting,
           NEW l \in Places \union {"next"}, NEW j \in JobType, Begin(a, l, j),
           j.op \in Sweeping => j.op = "reloadAll",
           j.op \notin Sweeping => j.name \in Names,
           l \in Places => j.name # None
    PROVE  /\ Only(a) /\ pc'[a] = l /\ job'[a] = j /\ (JobOK(a)' => Starts(a))
           /\ \A b \in Actors : pc[b] \notin Resting =>
                    Touches(b) \intersect Touches(a)' \subseteq overlapped'
           /\ Touches(a)' = IF j.op \in Sweeping THEN Names ELSE {j.name}
           /\ overlapped \subseteq overlapped'
<1> DEFINE names == IF j.op = "reloadAll" THEN Names ELSE {j.name}
<1>1. pc = [b \in Actors |-> pc[b]] /\ job = [b \in Actors |-> job[b]] /\ overlapped \subseteq Names
    BY JobFields DEF BaseInv, TypeOK
<1>2. Only(a) /\ pc'[a] = l /\ job'[a] = j
    BY <1>1 DEF Begin, Goto, Only
<1>3. overlapped' = overlapped \union {n \in names : \E b \in Actors \ {a} : n \in Touches(b)}
    BY Zenon DEF Begin, NoteOverlap
<1>4. l \notin Resting /\ names \subseteq Names
    BY DEF Places, Resting, Sweeping
<1>5. Touches(a)' = IF j.op \in Sweeping THEN Names ELSE {j.name}
    BY <1>2, <1>4 DEF Touches, Resting, Sweeping
<1>6. Touches(a)' = names
    BY <1>5 DEF Sweeping
<1> HIDE DEF names
<1>7. \A b \in Actors \ {a} : Touches(a)' \intersect Touches(b) \subseteq overlapped'
    BY <1>3, <1>6
<1>8. JobOK(a)' => Starts(a)
    BY <1>1, <1>2, <1>3, <1>4, <1>7 DEF Starts, Pcs, Places
<1>9. \A b \in Actors : pc[b] \notin Resting => b # a
    OBVIOUS
<1> QED
    BY <1>2, <1>3, <1>5, <1>7, <1>8, <1>9

\* Main, booted, starts to consume the watcher's changes.
LEMMA WatchBase ==
    ASSUME BaseInv, Watch
    PROVE  BaseMove /\ \E a \in Actors : Continues(a)
<1>1. /\ NamesKept /\ FileTypes' /\ WatchTypes' /\ bare' \subseteq Names /\ overlapped' = overlapped
      /\ UNCHANGED running
    BY FilesStay, BaseTypes DEF Watch, RunTypes, WatchTypes, fileVars
<1>2. Main \in Actors
    BY DEF Actors
<1>3. /\ pc = [b \in Actors |-> pc[b]] /\ job = [b \in Actors |-> job[b]]
      /\ JobOK(Main) /\ job[Main] \in JobType /\ job[Main] = NoJob
    BY <1>2, JobFields DEF BaseInv, JobInv, JobOK, Watch, Resting
<1>4. Only(Main) /\ pc'[Main] = "consume" /\ job'[Main] = NoJob
    BY <1>2, <1>3 DEF Watch, Goto, Only
<1>5. JobOK(Main)'
    BY <1>4, NoJobType DEF JobOK, Resting, Sweeping, AtManager
<1>6. Touches(Main)' = {}
    BY <1>4 DEF Touches
<1>7. Continues(Main)
    BY <1>1, <1>4, <1>5, <1>6, NoJobType DEF Continues, Pcs, Places
<1> QED
    BY <1>1, <1>2, <1>7, RunsStay DEF BaseMove

\* A user's edit gives the file a new text, whose name it has had from now on.
LEMMA EditBase ==
    ASSUME BaseInv, NEW f \in Paths, NEW text \in Texts, Edit(f, text)
    PROVE  BaseMove /\ Rests
<1>1. NamesKept /\ FileTypes'
    BY Writing DEF Edit
<1>2. Rests /\ WatchTypes' /\ UNCHANGED running /\ bare' \subseteq Names
    BY WatchStays, BaseTypes DEF Edit, Rests, RunTypes, BaseInv, TypeOK
<1> QED
    BY <1>1, <1>2, RunsStay DEF BaseMove

\* An emit keeps the watcher's queue within its capacity.
LEMMA Emitting ==
    ASSUME BaseInv, NEW change \in Changes, Emit(change)
    PROVE  out' \in Seq(Changes) /\ Len(out') <= OutCap /\ missed' \subseteq Paths
<1>1. out \in Seq(Changes) /\ Len(out) \in Nat /\ Len(out) <= OutCap /\ missed \subseteq Paths
    BY BaseTypes DEF FileTypes, WatchTypes
<1>2. CASE Len(out) < OutCap /\ out' = Append(out, change) /\ UNCHANGED missed
    <2>1. out' \in Seq(Changes) /\ Len(out') = Len(out) + 1
        BY <1>1, <1>2
    <2> QED
        BY <1>1, <1>2, <2>1, CapAssumption
<1>3. CASE missed' = missed \union {change.path} /\ UNCHANGED out
    BY <1>1, <1>3 DEF Changes
<1> QED
    BY <1>2, <1>3 DEF Emit

\* The watcher's own steps.
WatcherStep == Handle \/ \E f \in Paths : TimerFires(f) \/ EmitUpdate(f)

\* The watcher's own steps change its state only.
LEMMA WatcherBase ==
    ASSUME BaseInv, WatcherStep
    PROVE  BaseMove /\ Rests /\ UNCHANGED <<disk, named, running>>
<1>1. FileTypes /\ WatchTypes
    BY BaseTypes
<1>2. Rests /\ UNCHANGED <<disk, named, running, bare>>
    BY BaseTypes DEF WatcherStep, Handle, TimerFires, EmitUpdate, Rests, RunTypes, fileVars, BaseInv, TypeOK
<1>3. FileTypes' /\ WatchTypes'
    <2>1. CASE Handle
        <3>1. Head(events) \in Changes /\ Tail(events) \in Seq(Changes)
            BY <1>1, <2>1 DEF Handle, FileTypes
        <3>2. events' \in Seq(Changes) /\ UNCHANGED <<emitting, watching>>
            BY <2>1, <3>1 DEF Handle
        <3>3. CASE Head(events).op = "remove"
            BY <1>1, <1>2, <2>1, <3>1, <3>2, <3>3, Emitting DEF Handle, FileTypes, WatchTypes
        <3>4. CASE Head(events).op # "remove"
            BY <1>1, <1>2, <2>1, <3>1, <3>2, <3>4 DEF Handle, FileTypes, WatchTypes, Changes
        <3> QED
            BY <3>3, <3>4
    <2>2. ASSUME NEW f \in Paths, TimerFires(f)
          PROVE  FileTypes' /\ WatchTypes'
        BY <1>1, <2>2 DEF TimerFires, FileTypes, WatchTypes, fileVars
    <2>3. ASSUME NEW f \in Paths, EmitUpdate(f)
          PROVE  FileTypes' /\ WatchTypes'
        <3>1. [path |-> f, op |-> "update"] \in Changes
            BY DEF Changes
        <3>2. out' \in Seq(Changes) /\ Len(out') <= OutCap /\ missed' \subseteq Paths
            BY <2>3, <3>1, Emitting DEF EmitUpdate
        <3>3. emitting' \in [Paths -> Nat] /\ UNCHANGED <<events, pending, watching>>
            BY <1>1, <2>3 DEF EmitUpdate, WatchTypes
        <3> QED
            BY <1>1, <1>2, <3>2, <3>3 DEF FileTypes, WatchTypes
    <2> QED
        BY <2>1, <2>2, <2>3 DEF WatcherStep
<1>4. NamesKept
    BY <1>2 DEF NamesKept
<1>5. bare' \subseteq Names
    BY <1>2, BaseTypes DEF RunTypes
<1> QED
    BY <1>2, <1>3, <1>4, <1>5, RunsStay DEF BaseMove

\* The flushes of the iptables endpoints change the firewall only.
LEMMA IptablesBase ==
    ASSUME BaseInv, SweepIptables \/ \E n \in Names : FlushIptables(n)
    PROVE  BaseMove /\ Rests /\ UNCHANGED <<fileVars, watchVars, running, pc, job, overlapped>>
<1>1. Rests /\ UNCHANGED <<fileVars, watchVars, running, pc, job, overlapped>> /\ bare' \subseteq Names
    BY BaseTypes DEF SweepIptables, FlushIptables, Rests, RunTypes, BaseInv, TypeOK
<1> QED
    BY <1>1, FilesStay, WatchStays, RunsStay DEF BaseMove

\* A call that is about one name.
LEMMA BeginningOne ==
    ASSUME BaseInv, NamesKept, NEW a \in Actors, pc[a] \in Resting,
           NEW l \in {"save", "stop"}, NEW j \in JobType, Begin(a, l, j),
           j.op \notin Sweeping, j.name \in Names, j.todo = {},
           l = "stop" => ItemOK(j),
           l = "save" => /\ j.save \in ConfigTexts /\ j.save.name = j.name
                         /\ j.cf \in {None, j.save},
           l = "save" \/ j.op = "delete" => j.path # None
    PROVE  Starts(a) /\ Only(a) /\ pc'[a] = l /\ job'[a] = j
<1>1. /\ Only(a) /\ pc'[a] = l /\ job'[a] = j /\ JobOK(a)' => Starts(a)
      /\ Only(a) /\ pc'[a] = l /\ job'[a] = j
    BY Beginning, NoneAssumption DEF Places
<1>2. ItemOK(j) => ItemOK(j)'
    BY ItemStaysOK DEF JobType
<1>3. pc'[a] \in AtManager => ItemOK(job[a])'
    BY <1>1, <1>2 DEF AtManager, ItemOK
<1>4. JobOK(a)'
    BY <1>1, <1>3 DEF JobOK, Resting
<1> QED
    BY <1>1, <1>4

\* A handler that writes a file is at rest before and touches no proxy.
LEMMA RequestBase ==
    ASSUME BaseInv, NEW h \in Handlers, Request(h)
    PROVE  /\ h \in Actors /\ h # Main /\ pc[h] \in Resting /\ NamesKept /\ FileTypes' /\ WatchTypes'
           /\ UNCHANGED running => RunTypes'
<1>1. h \in Actors /\ h # Main /\ pc[h] \in Resting
    BY MainAssumption DEF Request, Actors, Resting
<1>2. NamesKept /\ FileTypes' /\ WatchTypes' /\ bare' \subseteq Names
    BY FilesStay, WatchStays, BaseTypes DEF Request, RunTypes
<1> QED
    BY <1>1, <1>2, RunsStay

\* Enable and Disable.
LEMMA ToggleBase ==
    ASSUME BaseInv, NEW h \in Handlers, NEW n \in Names, NEW on \in BOOLEAN, Toggle(h, n, on)
    PROVE  /\ BaseMove /\ Starts(h) /\ pc[h] \in Resting /\ pc'[h] = "save"
           /\ job'[h].op = "toggle" /\ job'[h].name = n /\ job'[h].todo = {}
           /\ \E p \in Resolve(n) : job'[h].path = p.path /\ job'[h].save = Switched(p.cf, on)
<1>1. /\ h \in Actors /\ pc[h] \in Resting /\ NamesKept /\ FileTypes' /\ WatchTypes'
      /\ UNCHANGED running => RunTypes'
    BY RequestBase DEF Toggle
<1>2. PICK p \in Resolve(n) :
        Begin(h, "save", [NoJob EXCEPT !.op = "toggle", !.name = n, !.path = p.path,
                                       !.save = Switched(p.cf, on),
                                       !.cf = IF on THEN Switched(p.cf, on) ELSE None])
    BY Zenon DEF Toggle
<1> DEFINE j == [NoJob EXCEPT !.op = "toggle", !.name = n, !.path = p.path,
                              !.save = Switched(p.cf, on),
                              !.cf = IF on THEN Switched(p.cf, on) ELSE None]
<1>3. p.cf \in ConfigTexts /\ p.cf.name = n /\ p.path \in Spelled /\ p.path # None
    BY ResolveType
<1>4. Switched(p.cf, on) \in ConfigTexts /\ Switched(p.cf, on).name = n /\ Switched(p.cf, on) \in Texts
    BY <1>3, SwitchedText, TextIsConfig
<1>5. /\ j \in JobType /\ j.op = "toggle" /\ j.name = n /\ j.path = p.path /\ j.todo = {}
      /\ j.save = Switched(p.cf, on) /\ j.cf \in {None, j.save}
    BY <1>3, <1>4 DEF NoJob, JobType, Ops, OrNone
<1>6. Begin(h, "save", j)
    BY <1>2
<1> HIDE DEF j
<1>7. Starts(h) /\ pc'[h] = "save" /\ job'[h] = j
    BY <1>1, <1>3, <1>4, <1>5, <1>6, BeginningOne DEF Sweeping
<1>8. RunTypes'
    <2>1. CASE running[n] = None
        BY <1>1, <2>1 DEF Toggle
    <2>2. CASE running[n] # None
        <3>1. /\ running' = [running EXCEPT ![n].cf = Switched(@, on)] /\ bare' = bare
              /\ named' = named
            BY <2>2 DEF Toggle, Request, fileVars
        <3>2. running[n] \in Loaded /\ p.cf = running[n].cf
            BY <2>2, ResolveType, BaseTypes DEF RunTypes, OrNone
        <3>3. running' = [running EXCEPT ![n] = [cf |-> Switched(p.cf, on), path |-> running[n].path]]
            <4>1. running[n] = [cf |-> running[n].cf, path |-> running[n].path]
                BY <3>2 DEF Loaded
            <4>2. [running[n] EXCEPT !.cf = Switched(@, on)]
                    = [cf |-> Switched(running[n].cf, on), path |-> running[n].path]
                BY <4>1
            <4> QED
                BY <3>1, <3>2, <4>2
        <3>4. [cf |-> Switched(p.cf, on), path |-> running[n].path] \in Loaded
            BY <1>4, <3>2 DEF Loaded
        <3>5. RunTypes /\ running'[n] = [cf |-> Switched(p.cf, on), path |-> running[n].path]
            BY <3>3, BaseTypes DEF RunTypes
        <3>6. running' \in [Names -> OrNone(Loaded)]
            BY <3>3, <3>4, <3>5 DEF RunTypes, OrNone
        <3>7. \A m \in Names \ {n} : running'[m] = running[m]
            BY <3>3, <3>5 DEF RunTypes
        <3>8. running'[n].cf.name = n /\ running'[n].path.file = running[n].path.file
            BY <1>4, <3>5
        <3> QED
            BY <2>2, <3>1, <3>5, <3>6, <3>7, <3>8 DEF RunTypes
    <2> QED
        BY <2>1, <2>2
<1> QED
    BY <1>1, <1>5, <1>7, <1>8 DEF BaseMove

\* The path a load lists a file under is the file's.
LEMMA ListedType ==
    ASSUME NEW f \in Paths
    PROVE  Listed(f) \in Spelled /\ Listed(f) # None /\ Listed(f).file = f
<1>1. (~ RelativeDir) \in BOOLEAN
    OBVIOUS
<1>2. Listed(f) \in Spelled
    BY <1>1, Zenon DEF Listed, Spelled
<1> QED
    BY <1>2, NoneAssumption DEF Listed

\* What makes a file of the configuration in the request.
LEMMA PutBase ==
    ASSUME BaseInv, NEW h \in Handlers, NEW cf \in Configs, Create(h, cf) \/ Replace(h, cf)
    PROVE  /\ BaseMove /\ Starts(h) /\ pc[h] \in Resting /\ pc'[h] = "save" /\ UNCHANGED running
           /\ job'[h].op \in {"create", "replace"} /\ job'[h].todo = {}
           /\ \/ \E p \in Resolve(cf.name) : job'[h].path = p.path
              \/ \E f \in Paths : job'[h].path = Listed(f)
<1>1. /\ h \in Actors /\ pc[h] \in Resting /\ NamesKept /\ FileTypes' /\ WatchTypes' /\ RunTypes'
      /\ UNCHANGED running
    BY RequestBase DEF Create, Replace
<1>2. cf \in ConfigTexts /\ cf \in Texts /\ cf.name \in Names
    <2>1. cf \in ConfigType /\ cf \in {cf, Switched(cf, TRUE), Switched(cf, FALSE)}
        BY ConfigsAssumption
    <2>2. cf \in Texts
        BY <2>1 DEF Texts
    <2> QED
        BY <2>1, <2>2, NoneAssumption DEF ConfigTexts, IsConfig, ConfigType
<1>3. PICK path : 
        /\ \/ \E p \in Resolve(cf.name) : path = p.path
           \/ \E f \in Paths : path = Listed(f)
        /\ \/ Begin(h, "save", [NoJob EXCEPT !.op = "create", !.name = cf.name, !.save = cf,
                                             !.path = path, !.cf = IF cf.enabled THEN cf ELSE None])
           \/ Begin(h, "save", [NoJob EXCEPT !.op = "replace", !.name = cf.name, !.path = path,
                                             !.save = cf, !.cf = IF cf.enabled THEN cf ELSE None])
    <2>1. CASE Create(h, cf)
        <3>1. Canonical[cf.name] \in Paths
            BY <1>2, FilesAssumption
        <3> QED
            BY <2>1, <3>1 DEF Create
    <2>2. CASE Replace(h, cf)
        BY <2>2 DEF Replace
    <2> QED
        BY <2>1, <2>2
<1>4. path \in Spelled /\ path # None
    <2>1. CASE \E p \in Resolve(cf.name) : path = p.path
        BY <1>2, <2>1, ResolveType
    <2>2. CASE \E f \in Paths : path = Listed(f)
        BY <2>2, ListedType
    <2> QED
        BY <1>3, <2>1, <2>2
<1>5. PICK op \in {"create", "replace"} :
        Begin(h, "save", [NoJob EXCEPT !.op = op, !.name = cf.name, !.save = cf,
                                       !.path = path, !.cf = IF cf.enabled THEN cf ELSE None])
    BY <1>3 DEF NoJob
<1> DEFINE j == [NoJob EXCEPT !.op = op, !.name = cf.name, !.save = cf,
                              !.path = path, !.cf = IF cf.enabled THEN cf ELSE None]
<1>6. /\ j \in JobType /\ j.op = op /\ j.name = cf.name /\ j.path = path /\ j.todo = {}
      /\ j.save = cf /\ j.cf \in {None, j.save}
    BY <1>2, <1>4 DEF NoJob, JobType, Ops, OrNone
<1>7. Begin(h, "save", j)
    BY <1>5
<1> HIDE DEF j
<1>8. Starts(h) /\ pc'[h] = "save" /\ job'[h] = j
    BY <1>1, <1>2, <1>4, <1>6, <1>7, BeginningOne DEF Sweeping
<1> QED
    BY <1>1, <1>3, <1>6, <1>8 DEF BaseMove

\* A delete resolves the name and stops the proxy first.
LEMMA DeleteBase ==
    ASSUME BaseInv, NEW h \in Handlers, NEW n \in Names, Delete(h, n)
    PROVE  /\ BaseMove /\ Starts(h) /\ pc[h] \in Resting /\ pc'[h] = "stop" /\ UNCHANGED running
           /\ job'[h].op = "delete" /\ job'[h].todo = {} /\ job'[h].cf = None /\ job'[h].name = n
           /\ \E p \in Resolve(n) : job'[h].path = p.path
<1>1. /\ h \in Actors /\ pc[h] \in Resting /\ NamesKept /\ FileTypes' /\ WatchTypes' /\ RunTypes'
      /\ UNCHANGED running
    BY RequestBase DEF Delete
<1>2. PICK p \in Resolve(n) :
        Begin(h, "stop", [NoJob EXCEPT !.op = "delete", !.name = n, !.path = p.path])
    BY DEF Delete
<1> DEFINE j == [NoJob EXCEPT !.op = "delete", !.name = n, !.path = p.path]
<1>3. p.path \in Spelled /\ p.path # None
    BY ResolveType
<1>4. j \in JobType /\ j.op = "delete" /\ j.name = n /\ j.path = p.path /\ j.todo = {} /\ j.cf = None
    BY <1>3 DEF NoJob, JobType, Ops, OrNone, Texts
<1>5. Begin(h, "stop", j)
    BY <1>2
<1> HIDE DEF j
<1>6. Starts(h) /\ pc'[h] = "stop" /\ job'[h] = j
    BY <1>1, <1>3, <1>4, <1>5, BeginningOne DEF Sweeping, ItemOK
<1> QED
    BY <1>1, <1>4, <1>6 DEF BaseMove

\* A call that starts or stops the proxy of a file as it is now.
LEMMA FromFile ==
    ASSUME BaseInv, NamesKept, NEW a \in Actors, pc[a] \in Resting, NEW op \in {"update", "reload"},
           NEW path \in Spelled, IsConfig(disk[path.file]),
           Begin(a, "stop", [NoJob EXCEPT !.op = op, !.name = disk[path.file].name,
                                          !.path = path, !.cf = Work(path.file).cf])
    PROVE  /\ Starts(a) /\ pc'[a] = "stop"
           /\ job'[a].op = op /\ job'[a].todo = {} /\ job'[a].path = path
           /\ job'[a].cf \in {None, disk[path.file]} /\ job'[a].name = disk[path.file].name
<1> DEFINE f == path.file
           j == [NoJob EXCEPT !.op = op, !.name = disk[f].name, !.path = path, !.cf = Work(f).cf]
<1>1. f \in Paths /\ path # None
    BY NoneAssumption DEF Spelled
<1>2. disk[f] \in ConfigTexts /\ disk[f].name \in Names /\ Work(f).cf \in {None, disk[f]}
    BY <1>1, WorkType
<1>3. /\ j \in JobType /\ j.op = op /\ j.name = disk[f].name /\ j.path = path /\ j.todo = {}
      /\ j.cf = Work(f).cf
    BY <1>1, <1>2 DEF NoJob, JobType, Ops, OrNone, Texts
<1>4. Begin(a, "stop", j)
    OBVIOUS
<1> HIDE DEF j
<1>5. ItemOK(j)
    BY <1>1, <1>2, <1>3 DEF ItemOK, BaseInv, NameInv
<1>6. Starts(a) /\ pc'[a] = "stop" /\ job'[a] = j
    BY <1>1, <1>2, <1>3, <1>4, <1>5, BeginningOne DEF Sweeping
<1> QED
    BY <1>2, <1>3, <1>6

\* A reload resolves the name and takes the file's present text.
LEMMA ReloadBase ==
    ASSUME BaseInv, NEW h \in Handlers, NEW n \in Names, Reload(h, n)
    PROVE  /\ BaseMove /\ Starts(h) /\ pc[h] \in Resting /\ pc'[h] = "stop" /\ UNCHANGED running
           /\ job'[h].op = "reload" /\ job'[h].todo = {}
           /\ \E p \in Resolve(n) :
                /\ job'[h].path = p.path /\ IsConfig(disk[p.path.file])
                /\ job'[h].cf \in {None, disk[p.path.file]} /\ job'[h].name = disk[p.path.file].name
<1>1. /\ h \in Actors /\ pc[h] \in Resting /\ NamesKept /\ FileTypes' /\ WatchTypes' /\ RunTypes'
      /\ UNCHANGED running
    BY RequestBase DEF Reload
<1>2. PICK p \in Resolve(n) :
        /\ IsConfig(disk[p.path.file])
        /\ Begin(h, "stop", [NoJob EXCEPT !.op = "reload", !.name = disk[p.path.file].name,
                                          !.path = p.path, !.cf = Work(p.path.file).cf])
    BY DEF Reload
<1>3. p.path \in Spelled
    BY ResolveType
<1>4. /\ Starts(h) /\ pc'[h] = "stop"
      /\ job'[h].op = "reload" /\ job'[h].todo = {} /\ job'[h].path = p.path
      /\ job'[h].cf \in {None, disk[p.path.file]} /\ job'[h].name = disk[p.path.file].name
    BY <1>1, <1>2, <1>3, FromFile
<1>5. BaseMove
    BY <1>1, <1>4 DEF BaseMove
<1> QED
    BY <1>1, <1>2, <1>4, <1>5

\* A reload of everything takes up every loaded file as work.
LEMMA ReloadAllBase ==
    ASSUME BaseInv, NEW h \in Handlers, ReloadAll(h)
    PROVE  /\ BaseMove /\ Starts(h) /\ pc[h] \in Resting /\ pc'[h] = "next" /\ UNCHANGED running
           /\ job'[h].op = "reloadAll" /\ job'[h].todo = LoadedWork /\ job'[h].path = None
<1>1. /\ h \in Actors /\ pc[h] \in Resting /\ NamesKept /\ FileTypes' /\ WatchTypes' /\ RunTypes'
      /\ UNCHANGED running
    BY RequestBase DEF ReloadAll
<1> DEFINE found == {disk[f].name : f \in {g \in Paths : IsConfig(disk[g])}}
           j == [NoJob EXCEPT !.op = "reloadAll", !.onDisk = found, !.todo = LoadedWork]
<1>2. found \subseteq Names
    BY WorkType
<1>3. LoadedWork \subseteq Items /\ \A w \in LoadedWork : ItemOK(w)
    BY LoadedWorkType
<1> HIDE DEF found
<1>4. j \in JobType /\ j.op = "reloadAll" /\ j.todo = LoadedWork /\ j.path = None
    BY <1>2, <1>3 DEF NoJob, JobType, Ops, OrNone, Texts
<1>5. Begin(h, "next", j)
    BY DEF ReloadAll, found
<1> HIDE DEF j
<1>6. Only(h) /\ pc'[h] = "next" /\ job'[h] = j /\ (JobOK(h)' => Starts(h))
    BY <1>1, <1>4, <1>5, Beginning DEF Sweeping, Places
<1>7. \A w \in LoadedWork : ItemOK(w)'
    BY <1>1, <1>3, ItemStaysOK DEF Items
<1>8. JobOK(h)'
    BY <1>4, <1>6, <1>7 DEF JobOK, Resting, AtManager, Sweeping
<1> QED
    BY <1>1, <1>4, <1>6, <1>8 DEF BaseMove

\* The consumer takes an update up.
LEMMA ConsumeBase ==
    ASSUME BaseInv, Consume
    PROVE  /\ BaseMove /\ UNCHANGED <<fileVars, watching, pending, emitting, running, fwVars>>
           /\ Main \in Actors /\ pc[Main] \in Resting
           /\ Head(out) \in Changes /\ out' = Tail(out)
           /\ \/ /\ Head(out).op = "remove" /\ Starts(Main)
                 /\ pc'[Main] = "stop" /\ job'[Main].op = "remove"
                 /\ job'[Main].todo = {} /\ job'[Main].cf = None /\ job'[Main].path = None
                 /\ \E n \in Names : /\ running[n] # None /\ running[n].path = Watched(Head(out).path)
                                     /\ job'[Main].name = n
              \/ /\ Head(out).op = "update" /\ IsConfig(disk[Head(out).path]) /\ Starts(Main)
                 /\ pc'[Main] = "stop" /\ job'[Main].op = "update"
                 /\ job'[Main].todo = {} /\ job'[Main].path = Watched(Head(out).path)
                 /\ job'[Main].name = disk[Head(out).path].name
                 /\ job'[Main].cf \in {None, disk[Head(out).path]}
              \/ /\ Rests /\ NoteOverlap(Main, named[Head(out).path])
                 /\ IF Head(out).op = "remove"
                    THEN \A n \in Names : running[n] # None => running[n].path # Watched(Head(out).path)
                    ELSE ~ IsConfig(disk[Head(out).path])
<1> DEFINE f == Head(out).path
<1>1. /\ UNCHANGED <<fileVars, watching, pending, emitting, running, bare, fwVars>>
      /\ pc[Main] \in Resting /\ Main \in Actors /\ out # <<>> /\ out' = Tail(out)
    BY DEF Consume, Resting, Actors
<1>2. /\ Head(out) \in Changes /\ out' \in Seq(Changes) /\ Len(out') <= OutCap
      /\ f \in Paths
    <2>1. out \in Seq(Changes) /\ Len(out) <= OutCap
        BY BaseTypes DEF WatchTypes
    <2>2. Head(out) \in Changes /\ Tail(out) \in Seq(Changes) /\ Len(Tail(out)) = Len(out) - 1
        BY <1>1, <2>1
    <2>3. Len(out) \in Nat
        BY <2>1
    <2>4. Len(Tail(out)) <= OutCap
        BY <2>1, <2>2, <2>3, CapAssumption
    <2> QED
        BY <1>1, <2>2, <2>4 DEF Changes
<1>3. NamesKept /\ FileTypes' /\ WatchTypes' /\ RunTypes'
    <2>1. NamesKept /\ FileTypes' /\ bare' \subseteq Names
        BY <1>1, FilesStay, BaseTypes DEF RunTypes
    <2>2. WatchTypes'
        BY <1>1, <1>2, BaseTypes DEF WatchTypes
    <2> QED
        BY <1>1, <2>1, <2>2, RunsStay
<1>4. CASE \E n \in Names : /\ Head(out).op = "remove"
                            /\ running[n] # None /\ running[n].path = Watched(f)
                            /\ Begin(Main, "stop", [NoJob EXCEPT !.op = "remove", !.name = n])
    <2>1. PICK n \in Names : /\ Head(out).op = "remove"
                             /\ running[n] # None /\ running[n].path = Watched(f)
                             /\ Begin(Main, "stop", [NoJob EXCEPT !.op = "remove", !.name = n])
        BY <1>4
    <2> DEFINE j == [NoJob EXCEPT !.op = "remove", !.name = n]
    <2>2. j \in JobType /\ j.op = "remove" /\ j.name = n /\ j.path = None /\ j.todo = {} /\ j.cf = None
        BY DEF NoJob, JobType, Ops, OrNone, Texts
    <2>3. Begin(Main, "stop", j)
        BY <2>1
    <2> HIDE DEF j
    <2>4. Starts(Main) /\ pc'[Main] = "stop" /\ job'[Main] = j
        BY <1>1, <1>3, <2>2, <2>3, BeginningOne DEF Sweeping, ItemOK
    <2> QED
        BY <1>1, <1>2, <1>3, <2>1, <2>2, <2>4 DEF BaseMove
<1>5. CASE /\ Head(out).op = "update" /\ IsConfig(disk[f])
           /\ Begin(Main, "stop", [NoJob EXCEPT !.op = "update", !.name = disk[f].name,
                                                !.path = Watched(f), !.cf = Work(f).cf])
    <2>1. Watched(f) \in Spelled /\ Watched(f).file = f
        BY <1>2, <1>5, WorkType
    <2> DEFINE path == Watched(f)
    <2>5. /\ IsConfig(disk[path.file])
          /\ Begin(Main, "stop", [NoJob EXCEPT !.op = "update", !.name = disk[path.file].name,
                                               !.path = path, !.cf = Work(path.file).cf])
        BY <1>5, <2>1
    <2> HIDE DEF path
    <2>3. /\ Starts(Main) /\ pc'[Main] = "stop"
          /\ job'[Main].op = "update" /\ job'[Main].todo = {} /\ job'[Main].path = path
          /\ job'[Main].cf \in {None, disk[path.file]} /\ job'[Main].name = disk[path.file].name
        BY <1>1, <1>3, <2>1, <2>5, FromFile, Zenon DEF path
    <2>2. /\ Starts(Main) /\ pc'[Main] = "stop"
          /\ job'[Main].op = "update" /\ job'[Main].todo = {} /\ job'[Main].path = Watched(f)
          /\ job'[Main].cf \in {None, disk[f]} /\ job'[Main].name = disk[f].name
        BY <2>1, <2>3 DEF path
    <2> QED
        BY <1>1, <1>2, <1>3, <1>5, <2>2 DEF BaseMove
<1>6. CASE /\ IF Head(out).op = "remove"
              THEN {n \in Names : running[n] # None /\ running[n].path = Watched(f)} = {}
              ELSE ~ IsConfig(disk[f])
           /\ NoteOverlap(Main, named[f]) /\ UNCHANGED <<pc, job>>
    <2>1. named[f] \subseteq Names /\ overlapped \subseteq Names
        BY <1>2 DEF BaseInv, TypeOK
    <2>2. Rests
        BY <1>6, <2>1 DEF NoteOverlap, Rests
    <2> QED
        BY <1>1, <1>2, <1>3, <1>6, <2>2 DEF BaseMove
<1> QED
    BY <1>4, <1>5, <1>6, Zenon DEF Consume

-----------------------------------------------------------------------------
(* BaseInv, for every behaviour *)

\* The steps of an actor within a call, all together.
LEMMA StepBase ==
    ASSUME BaseInv, NEW a \in Actors, Step(a)
    PROVE  BaseMove /\ Continues(a)
    BY StopBase, FlushBase, StartBase, StartFailsBase, ApplyBase, TakeNextBase, SaveBase, UnlinkBase DEF Step

\* What an API request may be.
Requested(h) ==
    \/ ReloadAll(h)
    \/ \E cf \in Configs : Create(h, cf) \/ Replace(h, cf)
    \/ \E n \in Names : Delete(h, n) \/ Reload(h, n) \/ \E on \in BOOLEAN : Toggle(h, n, on)

\* The next-state relation, by whose step it is.
LEMMA NextCases ==
    ASSUME Next
    PROVE  \/ \E f \in Paths, text \in Texts : Edit(f, text)
           \/ WatcherStep \/ Watch \/ Consume
           \/ SweepIptables \/ \E n \in Names : FlushIptables(n)
           \/ \E a \in Actors : Step(a)
           \/ \E h \in Handlers : Requested(h)
    BY Zenon DEF Next, Requested, WatcherStep

\* The requests, all together: a handler at rest begins a call.
LEMMA RequestedBase ==
    ASSUME BaseInv, NEW h \in Handlers, Requested(h)
    PROVE  /\ BaseMove /\ Starts(h) /\ h \in Actors /\ pc[h] \in Resting
           /\ pc'[h] \in {"save", "stop", "next"}
<1>1. h \in Actors
    BY DEF Actors
<1>2. CASE ReloadAll(h)
    BY <1>1, <1>2, ReloadAllBase
<1>3. ASSUME NEW cf \in Configs, Create(h, cf) \/ Replace(h, cf)
      PROVE  BaseMove /\ Starts(h) /\ pc[h] \in Resting /\ pc'[h] = "save"
    BY <1>3, PutBase
<1>4. ASSUME NEW n \in Names, Delete(h, n)
      PROVE  BaseMove /\ Starts(h) /\ pc[h] \in Resting /\ pc'[h] = "stop"
    BY <1>4, DeleteBase
<1>5. ASSUME NEW n \in Names, Reload(h, n)
      PROVE  BaseMove /\ Starts(h) /\ pc[h] \in Resting /\ pc'[h] = "stop"
    BY <1>5, ReloadBase
<1>6. ASSUME NEW n \in Names, NEW on \in BOOLEAN, Toggle(h, n, on)
      PROVE  BaseMove /\ Starts(h) /\ pc[h] \in Resting /\ pc'[h] = "save"
    BY <1>6, ToggleBase
<1> QED
    BY <1>1, <1>2, <1>3, <1>4, <1>5, <1>6 DEF Requested

\* The initial states satisfy the base invariant ...
LEMMA InitBase == Init => BaseInv
<1> SUFFICES ASSUME Init
             PROVE  BaseInv
    OBVIOUS
<1>1. disk \in [Paths -> Texts]
    BY FilesAssumption DEF Init
<1>2. \A f \in Paths : IsConfig(disk[f]) => /\ disk[f] \in ConfigTexts /\ disk[f].name \in Names
                                           /\ Listed(f) \in Spelled /\ Listed(f) # None /\ Listed(f).file = f
    <2> SUFFICES ASSUME NEW f \in Paths, IsConfig(disk[f])
                 PROVE  /\ disk[f] \in ConfigTexts /\ disk[f].name \in Names
                        /\ Listed(f) \in Spelled /\ Listed(f) # None /\ Listed(f).file = f
        OBVIOUS
    <2>1. disk[f] \in ConfigTexts
        BY <1>1 DEF ConfigTexts
    <2> QED
        BY <2>1, TextIsConfig, ListedType DEF ConfigType
<1>3. /\ named \in [Paths -> SUBSET Names]
      /\ \A f \in Paths : IsConfig(disk[f]) => disk[f].name \in named[f]
    BY <1>2 DEF Init
<1>4. LoadedWork \subseteq Items /\ \A w \in LoadedWork : ItemOK(w)
    <2> SUFFICES ASSUME NEW f \in Paths, IsConfig(disk[f])
                 PROVE  Work(f) \in Items /\ ItemOK(Work(f))
        BY DEF LoadedWork
    <2>1. Work(f) \in Items
        BY <1>2 DEF Work, Items, OrNone
    <2> QED
        BY <1>2, <1>3, <2>1 DEF Work, ItemOK
<1> DEFINE boot == [NoJob EXCEPT !.op = "boot", !.todo = {w \in LoadedWork : w.cf # None}]
<1>5. /\ boot \in JobType /\ boot.op = "boot" /\ boot.todo \subseteq LoadedWork
    BY <1>4 DEF NoJob, JobType, Ops, OrNone, Texts
<1>6. \A a \in Actors : /\ a = Main => pc[a] = "next" /\ job[a] = boot
                        /\ a # Main => pc[a] = "idle" /\ job[a] = NoJob
    BY DEF Init
<1>7. pc \in [Actors -> Pcs] /\ job \in [Actors -> JobType]
    BY <1>5, NoJobType DEF Init, Pcs
<1>8. JobInv
    <2> SUFFICES ASSUME NEW a \in Actors
                 PROVE  JobOK(a)
        BY DEF JobInv
    <2>1. CASE a = Main
        BY <1>4, <1>5, <1>6, <2>1 DEF JobOK, Resting, Sweeping, AtManager
    <2>2. CASE a # Main
        BY <1>6, <2>2, NoJobType DEF JobOK, Resting, Sweeping, AtManager
    <2> QED
        BY <2>1, <2>2
<1>9. AloneInv
    <2>1. \A a \in Actors : a # Main => Touches(a) = {}
        BY <1>6 DEF Touches
    <2> QED
        BY <2>1 DEF AloneInv
<1>10. NameInv
    BY <1>3 DEF NameInv, Init
<1>11. TypeOK
    <2>1. /\ events = <<>> /\ out = <<>> /\ pending = {} /\ emitting = [f \in Paths |-> 0]
          /\ running = [n \in Names |-> None] /\ watching = FALSE
          /\ overlapped = {} /\ bare = {} /\ missed = {}
          /\ closing = [a \in Actors |-> None] /\ lost = {} /\ refused = {}
        BY DEF Init
    <2>2. events \in Seq(Changes) /\ out \in Seq(Changes) /\ Len(out) <= OutCap
        BY <2>1, CapAssumption
    <2>3. \A a \in Actors : pc[a] \notin Places
        BY <1>6 DEF Places
    <2>4. /\ running \in [Names -> OrNone(Loaded)] /\ emitting \in [Paths -> Nat]
          /\ closing \in [Actors -> OrNone(ConfigTexts)]
        BY <2>1 DEF OrNone
    <2> HIDE DEF boot
    <2> QED
        BY <1>1, <1>3, <1>7, <2>1, <2>2, <2>3, <2>4 DEF TypeOK, Places
<1> QED
    BY <1>8, <1>9, <1>10, <1>11 DEF BaseInv

\* What is said of the sockets' holders stays well formed.
LEMMA SocksKept ==
    ASSUME BaseInv, [Next]_vars
    PROVE  SockTypes'
<1>1. CASE UNCHANGED sockVars
    BY <1>1, BaseTypes DEF SockTypes, sockVars
<1>2. ASSUME NEW a \in Actors, Stop(a) \/ Flush(a) \/ Start(a) \/ StartFails(a)
      PROVE  SockTypes'
    <2>1. pc[a] \in Places
        BY <1>2 DEF Stop, Flush, Start, StartFails, Places
    <2>2. job[a].name \in Names
        BY <2>1, JobFields DEF BaseInv
    <2>3. running[job[a].name] # None => running[job[a].name].cf \in ConfigTexts
        BY <2>2, BaseTypes DEF RunTypes, OrNone, Loaded
    <2>4. SockTypes
        BY BaseTypes
    <2>5. CASE Stop(a)
        BY <2>3, <2>4, <2>5 DEF Stop, SockTypes, OrNone, sockVars
    <2>6. CASE Flush(a)
        BY <2>4, <2>6 DEF Flush, SockTypes, OrNone
    <2>7. CASE Start(a)
        BY <2>3, <2>4, <2>7 DEF Start, SockTypes
    <2>8. CASE StartFails(a)
        BY <2>2, <2>4, <2>8 DEF StartFails, SockTypes
    <2> QED
        BY <1>2, <2>5, <2>6, <2>7, <2>8
<1>3. CASE Next
    <2>1. CASE \E f \in Paths, text \in Texts : Edit(f, text)
        BY <1>1, <2>1 DEF Edit
    <2>2. CASE WatcherStep \/ Watch \/ Consume
        BY <1>1, <2>2 DEF WatcherStep, Handle, TimerFires, EmitUpdate, Watch, Consume
    <2>3. CASE SweepIptables \/ \E n \in Names : FlushIptables(n)
        BY <1>1, <2>3 DEF SweepIptables, FlushIptables
    <2>4. ASSUME NEW h \in Handlers, Requested(h)
          PROVE  SockTypes'
        BY <1>1, <2>4, Zenon DEF Requested, ReloadAll, Create, Replace, Delete, Reload, Toggle, Request
    <2>5. ASSUME NEW a \in Actors, Apply(a) \/ TakeNext(a) \/ Save(a) \/ Unlink(a)
          PROVE  SockTypes'
        BY <1>1, <2>5, Zenon DEF Apply, TakeNext, Save, Unlink
    <2> QED
        BY <1>2, <1>3, <2>1, <2>2, <2>3, <2>4, <2>5, NextCases, Zenon DEF Step
<1> QED
    BY <1>1, <1>3 DEF vars

\* ... and every step keeps it.
LEMMA NextBase == BaseInv /\ [Next]_vars => BaseInv'
<1> SUFFICES ASSUME BaseInv, [Next]_vars
             PROVE  BaseInv'
    OBVIOUS
<1>1. CASE Next
    <2>1. BaseMove
        BY <1>1, NextCases, EditBase, WatcherBase, WatchBase, ConsumeBase, IptablesBase, StepBase,
           RequestedBase, Zenon
    <2> QED
        BY <2>1, BaseKept, SocksKept
<1>2. CASE UNCHANGED vars
    <2>1. UNCHANGED <<fileVars, watchVars, running, bare, pc, job, overlapped>>
        BY <1>2 DEF vars
    <2>2. Rests
        BY <2>1 DEF Rests, BaseInv, TypeOK
    <2> QED
        BY <2>1, <2>2, FilesStay, WatchStays, RunsStay, BaseKept, SocksKept, BaseTypes DEF BaseMove, RunTypes
<1> QED
    BY <1>1, <1>2

\* The state of the reloading of configurations is well formed: the channel keeps
\* to its capacity, a proxy runs with a configuration of its own name, and an
\* actor that is about to do something to a proxy has its name (watcher.go,
\* main.go, routes.go).
THEOREM TypeCorrect == Spec => []TypeOK
<1>1. BaseInv => TypeOK
    BY DEF BaseInv
<1> QED
    BY <1>1, InitBase, NextBase, PTL DEF Spec

-----------------------------------------------------------------------------
(* RuleInv *)

\* The empty chain is one, and holds no rule.
LEMMA EmptyChain ==
    IsChain(EmptyBag) /\ \A rule : Copies(rule, EmptyBag) = 0
<1>1. EmptyBag = [rule \in {} |-> 1]
    BY DEF EmptyBag, SetToBag
<1> QED
    BY <1>1 DEF IsChain, Copies, BagIn, BagToSet

\* The start hook's call: the chain holds the proxy's rules and activeRules says
\* so, or a failing append has left what there is now one stray copy more of.
LEMMA Applying ==
    ASSUME ChainShape, ChainInv, NEW n \in Names, NEW rules \in RuleSets(n), ApplyRules(n, rules)
    PROVE  /\ ChainShape' /\ ChainInv' /\ activeRules'[n] \in {rules, None}
           /\ \A m \in Names \ {n} : activeRules'[m] = activeRules[m]
<1> SUFFICES ASSUME NEW kept \in SUBSET Recorded(n), NEW appended \in SUBSET rules, NEW rest,
                    rest = (IF appended = rules THEN {} ELSE appended),
                    kernel' = DeleteProxyRules(n, kept) (+) SetToBag(appended),
                    activeRules' = [activeRules EXCEPT ![n] = IF appended = rules THEN rules ELSE None],
                    strays' = (strays (+) SetToBag(kept)) (+) SetToBag(rest)
             PROVE  /\ ChainShape' /\ ChainInv' /\ activeRules'[n] \in {rules, None}
                    /\ \A m \in Names \ {n} : activeRules'[m] = activeRules[m]
    BY DEF ApplyRules, Beginnings
<1>1. /\ activeRules = [m \in Names |-> activeRules[m]] /\ IsChain(strays)
      /\ \A m \in Names : activeRules[m] \in OrNone(RuleSets(m))
    BY DEF ChainShape
<1>2. rules # None /\ appended \in SUBSET Rules /\ rest \in SUBSET Rules
    BY RulesOfProxy
<1>3. /\ IsChain(DeleteProxyRules(n, kept)) /\ kept \in SUBSET Rules
      /\ \A rule \in Rules :
            /\ rule \notin kept => Copies(rule, DeleteProxyRules(n, kept)) =
                    Cardinality(Holders(rule) \ {n}) + Copies(rule, strays)
            /\ rule \in kept => Copies(rule, DeleteProxyRules(n, kept)) =
                    Cardinality(Holders(rule) \ {n}) + Copies(rule, strays) + 1
    BY Deleting
<1>4. PICK left : left = DeleteProxyRules(n, kept)
    OBVIOUS
<1>5. /\ IsChain(kernel')
      /\ \A rule : rule \notin appended => Copies(rule, kernel') = Copies(rule, left)
      /\ \A rule \in appended : Copies(rule, kernel') = Copies(rule, left) + 1
    BY <1>2, <1>3, <1>4, PuttingIn
<1>6. PICK more : more = strays (+) SetToBag(kept)
    OBVIOUS
<1>7. /\ IsChain(more)
      /\ \A rule : rule \notin kept => Copies(rule, more) = Copies(rule, strays)
      /\ \A rule \in kept : Copies(rule, more) = Copies(rule, strays) + 1
    BY <1>1, <1>3, <1>6, PuttingIn
<1>8. /\ IsChain(strays')
      /\ \A rule : rule \notin rest => Copies(rule, strays') = Copies(rule, more)
      /\ \A rule \in rest : Copies(rule, strays') = Copies(rule, more) + 1
    BY <1>2, <1>6, <1>7, PuttingIn
<1>9. /\ activeRules' = [m \in Names |-> activeRules'[m]]
      /\ activeRules'[n] = (IF appended = rules THEN rules ELSE None)
      /\ \A m \in Names \ {n} : activeRules'[m] = activeRules[m]
      /\ \A m \in Names : activeRules'[m] \in OrNone(RuleSets(m))
    BY <1>1 DEF OrNone
<1>10. ChainShape'
    <2>1. \A m : RuleSets(m)' = RuleSets(m) /\ OrNone(RuleSets(m))' = OrNone(RuleSets(m))
        BY DEF RuleSets, OrNone
    <2>2. IsChain(kernel)' /\ IsChain(strays)'
        BY <1>5, <1>8 DEF IsChain
    <2> QED
        BY <1>9, <2>1, <2>2 DEF ChainShape
<1>11. ASSUME NEW rule \in Rules
       PROVE  Copies(rule, kernel') = Cardinality(Holders(rule)') + Copies(rule, strays')
    <2>1. /\ Copies(rule, strays) \in Nat /\ Cardinality(Holders(rule) \ {n}) \in Nat
          /\ IsFiniteSet(Holders(rule) \ {n})
        BY <1>1, CopiesOf, HoldersCounted
    <2>2. /\ n \in Holders(rule)' <=> appended = rules /\ rule \in rules
          /\ Holders(rule)' \ {n} = Holders(rule) \ {n}
        BY <1>2, <1>9 DEF Holders, Recorded
    <2>3. CASE appended = rules /\ rule \in rules
        <3>1. Holders(rule)' = (Holders(rule) \ {n}) \union {n}
            BY <2>2, <2>3
        <3>2. Cardinality(Holders(rule)') = Cardinality(Holders(rule) \ {n}) + 1
            <4> DEFINE H == Holders(rule) \ {n}
            <4>1. n \notin H /\ IsFiniteSet(H) /\ Holders(rule)' = H \union {n}
                BY <2>1, <3>1
            <4> HIDE DEF H
            <4>2. Cardinality(Holders(rule)') = Cardinality(H) + 1
                BY <4>1, FS_AddElement
            <4> QED
                BY <4>2 DEF H
        <3> QED
            BY <1>3, <1>4, <1>5, <1>7, <1>8, <2>1, <2>3, <3>2
    <2>4. CASE ~ (appended = rules /\ rule \in rules)
        <3>1. Holders(rule)' = Holders(rule) \ {n}
            BY <2>2, <2>4
        <3>2. rule \in appended <=> rule \in rest
            BY <2>4
        <3> QED
            BY <1>3, <1>4, <1>5, <1>7, <1>8, <2>1, <3>1, <3>2
    <2> QED
        BY <2>3, <2>4
<1>12. ChainInv'
    BY <1>11 DEF ChainInv, Rules, Copies, Holders, Recorded
<1> QED
    BY <1>9, <1>10, <1>12

\* The stop hook's call, and the API's flush.
LEMMA Flushing ==
    ASSUME ChainShape, ChainInv, NEW n \in Names, FlushProxy(n)
    PROVE  /\ ChainShape' /\ ChainInv' /\ activeRules'[n] = None
           /\ \A m \in Names \ {n} : activeRules'[m] = activeRules[m]
<1> SUFFICES ASSUME NEW kept \in SUBSET Recorded(n), kernel' = DeleteProxyRules(n, kept),
                    activeRules' = [activeRules EXCEPT ![n] = None],
                    strays' = strays (+) SetToBag(kept)
             PROVE  /\ ChainShape' /\ ChainInv' /\ activeRules'[n] = None
                    /\ \A m \in Names \ {n} : activeRules'[m] = activeRules[m]
    BY DEF FlushProxy
<1>1. /\ activeRules = [m \in Names |-> activeRules[m]] /\ IsChain(strays)
      /\ \A m \in Names : activeRules[m] \in OrNone(RuleSets(m))
    BY DEF ChainShape
<1>2. /\ IsChain(kernel') /\ kept \in SUBSET Rules
      /\ \A rule \in Rules :
            /\ rule \notin kept => Copies(rule, kernel') =
                    Cardinality(Holders(rule) \ {n}) + Copies(rule, strays)
            /\ rule \in kept => Copies(rule, kernel') =
                    Cardinality(Holders(rule) \ {n}) + Copies(rule, strays) + 1
    BY Deleting
<1>3. /\ IsChain(strays')
      /\ \A rule : rule \notin kept => Copies(rule, strays') = Copies(rule, strays)
      /\ \A rule \in kept : Copies(rule, strays') = Copies(rule, strays) + 1
    BY <1>1, <1>2, PuttingIn
<1>4. /\ activeRules' = [m \in Names |-> activeRules'[m]] /\ activeRules'[n] = None
      /\ \A m \in Names \ {n} : activeRules'[m] = activeRules[m]
      /\ \A m \in Names : activeRules'[m] \in OrNone(RuleSets(m))
    BY <1>1 DEF OrNone
<1>5. ChainShape'
    <2>1. \A m : RuleSets(m)' = RuleSets(m) /\ OrNone(RuleSets(m))' = OrNone(RuleSets(m))
        BY DEF RuleSets, OrNone
    <2>2. IsChain(kernel)' /\ IsChain(strays)'
        BY <1>2, <1>3 DEF IsChain
    <2> QED
        BY <1>4, <2>1, <2>2 DEF ChainShape
<1>6. ASSUME NEW rule \in Rules
      PROVE  Copies(rule, kernel') = Cardinality(Holders(rule)') + Copies(rule, strays')
    <2>1. Copies(rule, strays) \in Nat /\ Cardinality(Holders(rule) \ {n}) \in Nat
        BY <1>1, CopiesOf, HoldersCounted
    <2>2. Holders(rule)' = Holders(rule) \ {n}
        BY <1>4 DEF Holders, Recorded
    <2> QED
        BY <1>2, <1>3, <2>1, <2>2
<1>7. ChainInv'
    BY <1>6 DEF ChainInv, Rules, Copies, Holders, Recorded
<1> QED
    BY <1>4, <1>5, <1>7

\* A step that leaves the firewall alone keeps what ties it to the manager.
LEMMA ChainStays ==
    ASSUME ChainShape, ChainInv, UNCHANGED fwVars
    PROVE  ChainShape' /\ ChainInv'
    BY DEF ChainShape, ChainInv, fwVars, IsChain, RuleSets, OrNone, Rules, Copies, Holders, Recorded

\* The orphan sweep's deletions match no rule.
LEMMA SweepDeletesNothing ==
    ASSUME ChainShape, OrphanSweep({})
    PROVE  UNCHANGED fwVars
<1>1. DeleteListed({rule \in BagToSet(kernel) : rule.ports \notin {}}) = kernel
    BY ListedStay DEF ChainShape, BagToSet
<1> QED
    BY <1>1 DEF OrphanSweep, fwVars

\* A step that concerns neither a proxy's rules nor its hooks.
LEMMA PhaseStays ==
    ASSUME NEW n \in Names, PhaseOK(n),
           activeRules'[n] = activeRules[n], Believed(n)' = Believed(n),
           \A a \in Actors : (Hooking(a, n)' <=> Hooking(a, n)),
           \A a \in Actors : Hooking(a, n) =>
                pc'[a] = pc[a] /\ job'[a] = job[a] /\ running'[n] = running[n]
    PROVE  PhaseOK(n)'
    BY DEF PhaseOK

Hooks == {"flush", "apply"}

\* A step of an actor that is at no hook and comes to none.
LEMMA NoHook ==
    ASSUME BaseInv, NEW a \in Actors, Only(a), pc[a] \notin Hooks, pc'[a] \notin Hooks
    PROVE  \A n \in Names, b \in Actors :
                /\ Hooking(b, n)' <=> Hooking(b, n)
                /\ Hooking(b, n) => pc'[b] = pc[b] /\ job'[b] = job[b]
<1>1. \A b \in Actors \ {a} : pc'[b] = pc[b] /\ job'[b] = job[b]
    BY JobFields DEF BaseInv, Only
<1> QED
    BY <1>1 DEF Hooking, Hooks

\* An actor at a hook is at the name.
LEMMA HookIsTouch ==
    ASSUME NEW a \in Actors, NEW n, Hooking(a, n), n \in Names
    PROVE  n \in Touches(a)
    BY DEF Hooking, Touches

\* At a name that has met no overlap an actor's work is nobody else's.
LEMMA AloneAt ==
    ASSUME BaseInv, NEW a \in Actors, NEW n \in Names, pc[a] \notin Resting, job[a].name = n,
           n \notin overlapped
    PROVE  \A b \in Actors \ {a} : n \notin Touches(b) /\ ~ Hooking(b, n)
<1>1. n \in Touches(a)
    BY DEF Touches, Resting
<1> QED
    BY <1>1, HookIsTouch DEF BaseInv, AloneInv

\* Nothing happens to any proxy's rules or hooks.
LEMMA QuietStep ==
    ASSUME BaseInv, RuleInv, UNCHANGED <<running, bare, fwVars>>, overlapped \subseteq overlapped',
           \/ UNCHANGED <<pc, job>>
           \/ \E a \in Actors : Only(a) /\ pc[a] \notin Hooks /\ pc'[a] \notin Hooks
    PROVE  RuleInv'
<1>1. ChainShape' /\ ChainInv'
    BY ChainStays DEF RuleInv
<1>2. ASSUME NEW n \in Names \ overlapped'
      PROVE  PhaseOK(n)'
    <2>1. PhaseOK(n)
        BY <1>2 DEF RuleInv, PhaseInv
    <2>2. \A b \in Actors : /\ Hooking(b, n)' <=> Hooking(b, n)
                            /\ Hooking(b, n) => pc'[b] = pc[b] /\ job'[b] = job[b]
        <3>1. CASE UNCHANGED <<pc, job>>
            BY <3>1 DEF Hooking
        <3>2. CASE \E a \in Actors : Only(a) /\ pc[a] \notin Hooks /\ pc'[a] \notin Hooks
            BY <3>2, NoHook
        <3> QED
            BY <3>1, <3>2
    <2>3. /\ Believed(n)' = Believed(n) /\ activeRules' = activeRules
          /\ running' = running
        BY DEF Believed, fwVars
    <2> QED
        BY <2>1, <2>2, <2>3, PhaseStays
<1> QED
    BY <1>1, <1>2 DEF RuleInv, PhaseInv

\* A step of an actor at a proxy: only that proxy is concerned.
LEMMA OneProxy ==
    ASSUME BaseInv, RuleInv, NEW a \in Actors, Continues(a), pc[a] \notin Resting,
           NEW n, n = job[a].name, pc'[a] \in Hooks => job'[a].name = n,
           ChainShape' /\ ChainInv',
           \A m \in Names \ {n} :
                /\ activeRules'[m] = activeRules[m] /\ running'[m] = running[m]
                /\ m \in bare' <=> m \in bare,
           PhaseOK(n) /\ (\A b \in Actors \ {a} : ~ Hooking(b, n)) => PhaseOK(n)'
    PROVE  RuleInv'
<1>1. overlapped' = overlapped /\ Only(a)
    BY DEF Continues
<1>2. \A b \in Actors \ {a} : pc'[b] = pc[b] /\ job'[b] = job[b]
    BY <1>1, JobFields DEF BaseInv, Only
<1>3. ASSUME NEW m \in Names \ overlapped'
      PROVE  PhaseOK(m)'
    <2>1. PhaseOK(m)
        BY <1>1, <1>3 DEF RuleInv, PhaseInv
    <2>2. CASE m = n
        BY <1>1, <1>3, <2>1, <2>2, AloneAt
    <2>3. CASE m # n
        <3>1. ~ Hooking(a, m) /\ ~ Hooking(a, m)'
            BY <2>3 DEF Hooking, Hooks
        <3>2. \A b \in Actors : /\ Hooking(b, m)' <=> Hooking(b, m)
                                /\ Hooking(b, m) => pc'[b] = pc[b] /\ job'[b] = job[b]
            BY <1>2, <3>1 DEF Hooking
        <3>3. Believed(m)' = Believed(m) /\ activeRules'[m] = activeRules[m] /\ running'[m] = running[m]
            BY <1>3, <2>3 DEF Believed
        <3> QED
            BY <2>1, <3>2, <3>3, PhaseStays
    <2> QED
        BY <2>2, <2>3
<1> QED
    BY <1>3 DEF RuleInv, PhaseInv

\* The proxy is gone, its rules are not yet: the actor is at the hook for it.
LEMMA StopRules ==
    ASSUME BaseInv, RuleInv, NEW a \in Actors, Stop(a)
    PROVE  RuleInv'
<1> PICK n : n = job[a].name
    OBVIOUS
<1>1. pc[a] = "stop" /\ Continues(a) /\ UNCHANGED <<bare, fwVars>> /\ n \in Names
    BY StopBase, JobFields DEF Stop, Places, BaseInv
<1>2. NamesKept /\ overlapped' = overlapped /\ Only(a)
    BY <1>1, StopBase DEF BaseMove, Continues
<1>3. CASE running[n] = None
    <2>1. pc'[a] \notin Hooks
        BY <1>1, <1>2, <1>3, Stopped DEF Stop, Hooks, Resting
    <2>2. UNCHANGED <<running, bare, fwVars>>
        BY <1>1, <1>3 DEF Stop
    <2> QED
        BY <1>1, <1>2, <2>1, <2>2, QuietStep DEF Hooks
<1>4. CASE running[n] # None
    <2>1. /\ running' = [running EXCEPT ![n] = None] /\ pc' = [pc EXCEPT ![a] = "flush"] /\ job' = job
        BY <1>4 DEF Stop, Goto
    <2>2. pc'[a] = "flush" /\ running'[n] = None /\ \A m \in Names \ {n} : running'[m] = running[m]
        BY <1>1, <2>1, JobFields, BaseTypes DEF RunTypes, BaseInv, TypeOK
    <2>3. ChainShape' /\ ChainInv' /\ UNCHANGED activeRules
        BY <1>1, ChainStays DEF RuleInv, fwVars
    <2>4. ASSUME \A b \in Actors \ {a} : ~ Hooking(b, n)
          PROVE  PhaseOK(n)'
        <3>1. \A b \in Actors \ {a} : ~ Hooking(b, n)'
            BY <2>1, <2>4, JobFields DEF Hooking, BaseInv, TypeOK
        <3>2. Hooking(a, n)'
            BY <2>1, <2>2 DEF Hooking
        <3> QED
            BY <2>2, <3>1, <3>2 DEF PhaseOK
    <2> QED
        BY <1>1, <2>1, <2>2, <2>3, <2>4, OneProxy DEF Hooks, Resting
<1> QED
    BY <1>3, <1>4

\* The hook deletes the rules of the proxy that is gone.
LEMMA FlushRules ==
    ASSUME BaseInv, RuleInv, NEW a \in Actors, Flush(a)
    PROVE  RuleInv'
<1> PICK n : n = job[a].name
    OBVIOUS
<1>1. pc[a] = "flush" /\ Continues(a) /\ UNCHANGED <<bare, running>> /\ n \in Names
    BY FlushBase, JobFields DEF Flush, Places, BaseInv
<1>2. NamesKept /\ overlapped' = overlapped /\ Only(a)
    BY <1>1, FlushBase DEF BaseMove, Continues
<1>3. pc'[a] \notin Hooks
    BY <1>1, <1>2, Stopped DEF Flush, Hooks, Resting
<1>4. /\ ChainShape' /\ ChainInv' /\ activeRules'[n] = None
      /\ \A m \in Names \ {n} : activeRules'[m] = activeRules[m]
    BY <1>1, Flushing DEF Flush, RuleInv
<1>5. ASSUME PhaseOK(n), \A b \in Actors \ {a} : ~ Hooking(b, n)
      PROVE  PhaseOK(n)'
    <2>1. \A b \in Actors : ~ Hooking(b, n)'
        <3>1. \A b \in Actors \ {a} : pc'[b] = pc[b] /\ job'[b] = job[b]
            BY <1>2, JobFields DEF BaseInv, Only
        <3> QED
            BY <1>3, <1>5, <3>1 DEF Hooking, Hooks
    <2>2. running[n] = None
        BY <1>1, <1>5 DEF PhaseOK, Hooking
    <2>3. Believed(n)' = None
        BY <1>1, <2>2 DEF Believed
    <2> QED
        BY <1>4, <2>1, <2>3 DEF PhaseOK
<1> QED
    BY <1>1, <1>3, <1>4, <1>5, OneProxy DEF Resting, Hooks

\* The proxy is there, its rules are not yet: the actor is at the hook for it.
LEMMA StartRules ==
    ASSUME BaseInv, RuleInv, NEW a \in Actors, Start(a)
    PROVE  RuleInv'
<1> PICK n : n = job[a].name
    OBVIOUS
<1>1. pc[a] = "start" /\ Continues(a) /\ UNCHANGED <<bare, fwVars>> /\ n \in Names
    BY StartBase, JobFields DEF Start, Places, BaseInv
<1>2. NamesKept /\ overlapped' = overlapped /\ Only(a)
    BY <1>1, StartBase DEF BaseMove, Continues
<1>3. /\ running' = [running EXCEPT ![n] = [cf |-> job[a].cf, path |-> job[a].path]]
      /\ pc' = [pc EXCEPT ![a] = "apply"] /\ job' = job
    BY DEF Start, Goto
<1>4. /\ pc'[a] = "apply" /\ running'[n] = [cf |-> job[a].cf, path |-> job[a].path]
      /\ \A m \in Names \ {n} : running'[m] = running[m]
    BY <1>1, <1>3, JobFields, BaseTypes DEF RunTypes, BaseInv, TypeOK
<1>5. ChainShape' /\ ChainInv' /\ UNCHANGED activeRules
    BY <1>1, ChainStays DEF RuleInv, fwVars
<1>6. running'[n] # None
    <2>1. running' \in [Names -> OrNone(Loaded)]
        BY StartBase DEF BaseMove, RunTypes
    <2>2. job[a].cf \in ConfigTexts /\ job[a].path \in Spelled
        BY <1>1, JobFields DEF BaseInv, JobInv, JobOK, ItemOK, AtManager, OrNone
    <2>3. running'[n] \in Loaded
        BY <1>4, <2>2 DEF Loaded
    <2> QED
        BY <2>3, NoneAssumption
<1>7. ASSUME \A b \in Actors \ {a} : ~ Hooking(b, n)
      PROVE  PhaseOK(n)'
    <2>1. \A b \in Actors \ {a} : ~ Hooking(b, n)'
        BY <1>3, <1>7, JobFields DEF Hooking, BaseInv, TypeOK
    <2>2. Hooking(a, n)' /\ job'[a].cf = job[a].cf
        BY <1>3, <1>4 DEF Hooking
    <2> QED
        BY <1>4, <1>6, <2>1, <2>2 DEF PhaseOK
<1> QED
    BY <1>1, <1>3, <1>4, <1>5, <1>7, OneProxy DEF Hooks, Resting

\* Nothing has changed for a proxy that could not be started.
LEMMA StartFailsRules ==
    ASSUME BaseInv, RuleInv, NEW a \in Actors, StartFails(a)
    PROVE  RuleInv'
<1>1. pc[a] = "start" /\ Continues(a) /\ UNCHANGED <<running, bare, fwVars>> /\ Leave(a)
    BY StartFailsBase DEF StartFails
<1>2. NamesKept /\ overlapped' = overlapped /\ Only(a)
    BY <1>1, StartFailsBase DEF BaseMove, Continues
<1>3. pc'[a] \notin Hooks
    BY <1>1, <1>2, Leaving DEF Hooks, Resting
<1> QED
    BY <1>1, <1>2, <1>3, QuietStep DEF Hooks

\* The hook puts in the rules of the proxy that runs.
LEMMA ApplyRulesKept ==
    ASSUME BaseInv, RuleInv, NEW a \in Actors, Apply(a)
    PROVE  RuleInv'
<1> PICK n : n = job[a].name
    OBVIOUS
<1> DEFINE rules == BuildRules(job[a].cf)
<1>1. /\ pc[a] = "apply" /\ Continues(a) /\ UNCHANGED running /\ n \in Names
      /\ bare' = IF activeRules'[n] = None THEN bare \union {n} ELSE bare \ {n}
    BY ApplyBase, JobFields DEF Apply, Places, BaseInv
<1>2. NamesKept /\ overlapped' = overlapped /\ Only(a)
    BY <1>1, ApplyBase DEF BaseMove, Continues
<1>3. pc'[a] \notin Hooks
    BY <1>1, <1>2, Leaving DEF Apply, Hooks, Resting
<1>4. rules \in RuleSets(n)
    <2>1. job[a].cf \in ConfigTexts /\ job[a].cf.name = n
        BY <1>1, JobFields DEF BaseInv, JobInv, JobOK, OrNone
    <2> QED
        BY <2>1, TextIsConfig DEF RuleSets
<1>5. /\ ChainShape' /\ ChainInv' /\ activeRules'[n] \in {rules, None}
      /\ \A m \in Names \ {n} : activeRules'[m] = activeRules[m]
    <2>1. ApplyRules(n, rules) /\ ChainShape /\ ChainInv
        BY DEF Apply, RuleInv
    <2> HIDE DEF rules
    <2> QED
        BY <1>1, <1>4, <2>1, Applying
<1>6. ASSUME PhaseOK(n), \A b \in Actors \ {a} : ~ Hooking(b, n)
      PROVE  PhaseOK(n)'
    <2>1. \A b \in Actors : ~ Hooking(b, n)'
        <3>1. \A b \in Actors \ {a} : pc'[b] = pc[b] /\ job'[b] = job[b]
            BY <1>2, JobFields DEF BaseInv, Only
        <3> QED
            BY <1>3, <1>6, <3>1 DEF Hooking, Hooks
    <2>2. running[n] # None /\ running[n].cf = job[a].cf
        BY <1>1, <1>6 DEF PhaseOK, Hooking
    <2>3. rules # None
        BY <1>4, <1>1, RulesOfProxy
    <2>4. Believed(n)' = activeRules'[n]
        <3> HIDE DEF rules
        <3>1. CASE activeRules'[n] = None
            BY <1>1, <3>1 DEF Believed
        <3>2. CASE activeRules'[n] = rules
            BY <1>1, <2>2, <2>3, <3>2 DEF Believed, rules
        <3> QED
            BY <1>5, <3>1, <3>2
    <2> QED
        BY <2>1, <2>4 DEF PhaseOK
<1>7. \A m \in Names \ {n} : m \in bare' <=> m \in bare
    BY <1>1
<1> QED
    BY <1>1, <1>3, <1>5, <1>6, <1>7, OneProxy DEF Resting, Hooks

\* The steps of an actor within a call, all together.
LEMMA StepRules ==
    ASSUME BaseInv, RuleInv, NEW a \in Actors, Step(a)
    PROVE  RuleInv'
<1>1. CASE TakeNext(a) \/ Save(a) \/ Unlink(a)
    <2>1. BaseMove /\ Continues(a) /\ pc[a] \in {"next", "save", "unlink"}
        BY <1>1, StepBase, Zenon DEF Step, TakeNext, Save, Unlink
    <2>2. UNCHANGED <<running, bare, fwVars>>
        BY <1>1, Zenon DEF TakeNext, Save, Unlink
    <2>3. pc'[a] \notin Hooks
        <3>1. pc[a] \notin Resting /\ NamesKept /\ overlapped' = overlapped
            BY <2>1 DEF BaseMove, Continues, Resting
        <3>2. CASE Leave(a)
            BY <3>1, <3>2, Leaving DEF Resting, Hooks
        <3>3. CASE ~ Leave(a)
            <4>1. pc = [b \in Actors |-> pc[b]]
                BY JobFields DEF BaseInv
            <4> QED
                BY <1>1, <2>1, <3>3, <4>1, Zenon DEF TakeNext, Save, Unlink, Goto, Home, Hooks
        <3> QED
            BY <3>2, <3>3
    <2> QED
        BY <2>1, <2>2, <2>3, QuietStep DEF Hooks, Continues
<1> QED
    BY <1>1, StopRules, FlushRules, StartRules, StartFailsRules, ApplyRulesKept DEF Step

\* A request: Enable and Disable change the switch of a running proxy's
\* configuration, and with it none of its rules.
LEMMA RequestedRules ==
    ASSUME BaseInv, RuleInv, NEW h \in Handlers, Requested(h)
    PROVE  RuleInv'
<1>1. /\ BaseMove /\ Starts(h) /\ h \in Actors /\ pc[h] \notin Hooks /\ pc'[h] \notin Hooks
      /\ Only(h) /\ overlapped \subseteq overlapped' /\ pc'[h] \in {"save", "stop", "next"}
    BY RequestedBase DEF Starts, Hooks, Resting
<1>2. UNCHANGED <<bare, fwVars>>
    BY DEF Requested, ReloadAll, Create, Replace, Delete, Reload, Toggle, Request
<1>3. CASE UNCHANGED running
    BY <1>1, <1>2, <1>3, QuietStep
<1>4. ASSUME NEW n \in Names, NEW on \in BOOLEAN, Toggle(h, n, on), ~ UNCHANGED running
      PROVE  RuleInv'
    <2>1. /\ running[n] # None /\ running' = [running EXCEPT ![n].cf = Switched(@, on)]
        BY <1>4 DEF Toggle
    <2>2. running[n] \in Loaded /\ running[n].cf \in ConfigType
        <3>1. running[n] \in Loaded
            BY <2>1, BaseTypes DEF RunTypes, OrNone
        <3> QED
            BY <3>1, TextIsConfig DEF Loaded
    <2>3. /\ running'[n] # None /\ running'[n].cf = Switched(running[n].cf, on)
          /\ \A m \in Names \ {n} : running'[m] = running[m]
        <3>1. running'[n] = [running[n] EXCEPT !.cf = Switched(@, on)]
            BY <2>1, BaseTypes DEF RunTypes
        <3>2. running'[n].path = running[n].path /\ running'[n].cf = Switched(running[n].cf, on)
            BY <2>2, <3>1 DEF Loaded
        <3>3. RunTypes' /\ running' \in [Names -> OrNone(Loaded)]
            BY <1>1 DEF BaseMove, RunTypes
        <3>4. running'[n] \in Loaded
            <4>1. Switched(running[n].cf, on) \in ConfigTexts
                BY <2>2, SwitchedText DEF Loaded
            <4>2. running[n] = [cf |-> running[n].cf, path |-> running[n].path] /\ running[n].path \in Spelled
                BY <2>2 DEF Loaded
            <4>3. running'[n] = [cf |-> Switched(running[n].cf, on), path |-> running[n].path]
                BY <3>1, <4>2
            <4> QED
                BY <4>1, <4>2, <4>3 DEF Loaded
        <3> QED
            BY <2>1, <3>2, <3>4, BaseTypes, NoneAssumption DEF RunTypes
    <2>4. ChainShape' /\ ChainInv'
        BY <1>2, ChainStays DEF RuleInv
    <2>5. \A b \in Actors, m \in Names : /\ Hooking(b, m)' <=> Hooking(b, m)
                                         /\ Hooking(b, m) => pc'[b] = pc[b] /\ job'[b] = job[b]
        BY <1>1, NoHook
    <2>6. ASSUME NEW m \in Names \ overlapped'
          PROVE  PhaseOK(m)'
        <3>1. PhaseOK(m)
            BY <1>1, <2>6 DEF RuleInv, PhaseInv
        <3>2. Believed(m)' = Believed(m)
            <4>1. CASE m = n
                BY <1>2, <2>1, <2>2, <2>3, <4>1, SwitchedRules DEF Believed
            <4>2. CASE m # n
                BY <1>2, <2>3, <2>6, <4>2 DEF Believed
            <4> QED
                BY <4>1, <4>2
        <3>3. ASSUME NEW b \in Actors, Hooking(b, m)
              PROVE  running'[m] = running[m]
            <4>1. b # h /\ m \in Touches(b)
                BY <1>1, <3>3, HookIsTouch DEF Hooking, Hooks
            <4>2. n \in Touches(h)'
                BY <1>4, ToggleBase DEF Touches
            <4>3. m # n
                BY <1>1, <2>6, <4>1, <4>2 DEF Starts
            <4> QED
                BY <2>3, <2>6, <4>3
        <3>4. activeRules' = activeRules
            BY <1>2 DEF fwVars
        <3> QED
            BY <2>5, <2>6, <3>1, <3>2, <3>3, <3>4, PhaseStays
    <2> QED
        BY <2>4, <2>6 DEF RuleInv, PhaseInv
<1>5. CASE UNCHANGED running \/ \E n \in Names, on \in BOOLEAN : Toggle(h, n, on)
    BY <1>3, <1>4, <1>5
<1> QED
    BY <1>5 DEF Requested, ReloadAll, Create, Replace, Delete, Reload

\* The flushes of the iptables endpoints: the chain is cleared of a proxy, which is noted.
LEMMA IptablesRules ==
    ASSUME BaseInv, RuleInv, SweepIptables \/ \E n \in Names : FlushIptables(n)
    PROVE  RuleInv'
<1>1. UNCHANGED <<running, pc, job, overlapped>>
    BY DEF SweepIptables, FlushIptables
<1>2. CASE SweepIptables
    <2>1. UNCHANGED <<running, bare, fwVars>>
        BY <1>2, SweepDeletesNothing DEF SweepIptables, RuleInv
    <2> QED
        BY <1>1, <2>1, QuietStep
<1>3. ASSUME NEW n \in Names, FlushIptables(n)
      PROVE  RuleInv'
    <2>1. /\ ChainShape' /\ ChainInv' /\ activeRules'[n] = None
          /\ \A m \in Names \ {n} : activeRules'[m] = activeRules[m]
        BY <1>3, Flushing DEF FlushIptables, RuleInv
    <2>2. ASSUME NEW m \in Names \ overlapped'
          PROVE  PhaseOK(m)'
        <3>1. PhaseOK(m)
            BY <1>1, <2>2 DEF RuleInv, PhaseInv
        <3>2. bare' = bare \union {n}
            BY <1>3 DEF FlushIptables
        <3>3. CASE m # n
            <4>1. Believed(m)' = Believed(m)
                BY <1>1, <3>2, <3>3 DEF Believed
            <4> QED
                BY <1>1, <2>1, <2>2, <3>1, <3>3, <4>1, PhaseStays DEF Hooking
        <3>4. CASE m = n
            <4>1. Believed(m)' = None
                BY <3>2, <3>4 DEF Believed
            <4> QED
                BY <1>1, <2>1, <3>1, <3>4, <4>1 DEF PhaseOK, Hooking
        <3> QED
            BY <3>3, <3>4
    <2> QED
        BY <2>1, <2>2 DEF RuleInv, PhaseInv
<1> QED
    BY <1>2, <1>3

\* The initial states satisfy the rules' invariant ...
LEMMA InitRules == Init => RuleInv
<1> SUFFICES ASSUME Init
             PROVE  RuleInv
    OBVIOUS
<1>1. /\ kernel = EmptyBag /\ activeRules = [n \in Names |-> None] /\ strays = EmptyBag
      /\ running = [n \in Names |-> None] /\ \A a \in Actors : pc[a] \in {"next", "idle"}
    BY DEF Init, FirewallInit
<1>2. ChainShape
    BY <1>1, EmptyChain DEF ChainShape, OrNone
<1>3. ChainInv
    <2>1. \A rule : Holders(rule) = {}
        BY <1>1 DEF Holders, Recorded
    <2>2. Cardinality({}) = 0
        BY FS_EmptySet
    <2> QED
        BY <1>1, <2>1, <2>2, EmptyChain DEF ChainInv
<1>4. PhaseInv
    BY <1>1 DEF PhaseInv, PhaseOK, Hooking, Believed
<1> QED
    BY <1>2, <1>3, <1>4 DEF RuleInv

\* ... and every step keeps it.
LEMMA NextRules == BaseInv /\ RuleInv /\ [Next]_vars => RuleInv'
<1> SUFFICES ASSUME BaseInv, RuleInv, [Next]_vars
             PROVE  RuleInv'
    OBVIOUS
<1>1. CASE (\E f \in Paths, text \in Texts : Edit(f, text)) \/ WatcherStep \/ UNCHANGED vars
    <2>1. UNCHANGED <<running, bare, fwVars, overlapped, pc, job>>
        BY <1>1 DEF Edit, WatcherStep, Handle, TimerFires, EmitUpdate, vars
    <2> QED
        BY <2>1, QuietStep
<1>2. CASE Watch
    <2>1. /\ UNCHANGED <<running, bare, fwVars, overlapped>> /\ Main \in Actors /\ Only(Main)
          /\ pc[Main] = "watch" /\ pc'[Main] = "consume"
        BY <1>2, JobFields DEF Watch, Goto, Only, Actors, BaseInv
    <2> QED
        BY <2>1, QuietStep DEF Hooks
<1>3. CASE Consume
    <2>1. UNCHANGED <<running, bare, fwVars>> /\ pc[Main] \notin Hooks /\ Main \in Actors
        BY <1>3 DEF Consume, Hooks, Actors
    <2>2. CASE Rests
        BY <2>1, <2>2, QuietStep DEF Rests
    <2>3. CASE Starts(Main) /\ pc'[Main] = "stop"
        BY <2>1, <2>3, QuietStep DEF Starts, Hooks
    <2> QED
        BY <1>3, <2>2, <2>3, ConsumeBase
<1> QED
    BY <1>1, <1>2, <1>3, NextCases, StepRules, RequestedRules, IptablesRules

\* The chain holds the copies that the record and the failures account for, for
\* proxies that share a rule too; between calls the record is of exactly the rules
\* of what runs, unless two calls on the proxy overlapped, its rules could not be
\* applied or the API flushed them (the hooks of main.go 146-166, manager.go 44-69).
THEOREM RulesFollow == Spec => []RulesFollowProxies
<1>1. BaseInv /\ RuleInv => RulesFollowProxies
    <2> SUFFICES ASSUME BaseInv, RuleInv
                 PROVE  RulesFollowProxies
        OBVIOUS
    <2>1. ASSUME NEW n \in Names, ~ Busy(n), n \notin overlapped
          PROVE  activeRules[n] = Believed(n)
        <3>1. \A a \in Actors : ~ Hooking(a, n)
            BY <2>1, HookIsTouch DEF Busy
        <3> QED
            BY <2>1, <3>1 DEF RuleInv, PhaseInv, PhaseOK
    <2>2. ASSUME NEW rule, rule \in BagToSet(kernel) \union BagToSet(strays) \union
                                     UNION {Recorded(n) : n \in Names}
          PROVE  rule \in Rules
        <3>1. ASSUME NEW n \in Names
              PROVE  Recorded(n) \subseteq Rules
            BY RulesOfProxy DEF RuleInv, ChainShape, OrNone, Recorded
        <3> QED
            BY <2>2, <3>1 DEF RuleInv, ChainShape, IsChain, BagToSet
    <2> QED
        BY <2>1, <2>2 DEF RulesFollowProxies, Believed, RuleInv, ChainInv, Holders
<1>2. Init => BaseInv /\ RuleInv
    BY InitBase, InitRules
<1>3. BaseInv /\ RuleInv /\ [Next]_vars => BaseInv' /\ RuleInv'
    BY NextBase, NextRules
<1> QED
    BY <1>1, <1>2, <1>3, PTL DEF Spec

-----------------------------------------------------------------------------
(* FileInv *)

\* A file that is settled was so before, with the same text.
Calm(f) == Settled(f)' => Settled(f) /\ disk'[f] = disk[f]

\* A change is queued once it is appended ...
LEMMA QueueAppended ==
    ASSUME NEW q \in Seq(Changes), NEW c \in Changes, NEW d
    PROVE  Queued(Append(q, c), d) <=> Queued(q, d) \/ c = d
<1>1. /\ DOMAIN q = 1 .. Len(q) /\ DOMAIN Append(q, c) = 1 .. (Len(q) + 1) /\ Len(q) \in Nat
      /\ Append(q, c)[Len(q) + 1] = c /\ \A i \in 1 .. Len(q) : Append(q, c)[i] = q[i]
    OBVIOUS
<1>2. 1 .. (Len(q) + 1) = (1 .. Len(q)) \union {Len(q) + 1}
    BY <1>1
<1> QED
    BY <1>1, <1>2 DEF Queued

\* ... until it is at the head and taken.
LEMMA QueueTaken ==
    ASSUME NEW q \in Seq(Changes), q # <<>>, NEW d, Queued(q, d)
    PROVE  Queued(Tail(q), d) \/ Head(q) = d
<1>1. PICK i \in 1 .. Len(q) : q[i] = d
    BY DEF Queued
<1>2. /\ DOMAIN Tail(q) = 1 .. (Len(q) - 1) /\ Head(q) = q[1] /\ Len(q) \in Nat
      /\ \A j \in 1 .. (Len(q) - 1) : Tail(q)[j] = q[j + 1]
    OBVIOUS
<1>3. CASE i = 1
    BY <1>1, <1>2, <1>3
<1>4. CASE i # 1
    <2>1. i - 1 \in 1 .. (Len(q) - 1) /\ (i - 1) + 1 = i
        BY <1>1, <1>2, <1>4
    <2>2. i - 1 \in DOMAIN Tail(q) /\ Tail(q)[i - 1] = d
        BY <1>1, <1>2, <2>1
    <2> QED
        BY <2>2 DEF Queued
<1> QED
    BY <1>3, <1>4

\* What sets a file apart for good keeps doing so.
LEMMA ExcusedStays ==
    ASSUME BaseInv, NamesKept, FileTypes', overlapped \subseteq overlapped',
           NEW f \in Paths, f \in missed => f \in missed', ~ Excused(f)'
    PROVE  ~ Excused(f)
<1>1. \A g \in Paths : named[g] \subseteq named'[g]
    BY DEF NamesKept
<1>2. f \notin missed /\ named[f] \intersect overlapped = {}
    BY <1>1 DEF Excused
<1>3. OneToOne(f)
    BY <1>1 DEF Excused, OneToOne
<1> QED
    BY <1>2, <1>3 DEF Excused

\* Once a file has been written its news is on the way, or missed.
LEMMA WritingCalm ==
    ASSUME BaseInv, NEW f \in Paths, NEW text \in Texts, WriteFile(f, text),
           UNCHANGED <<watchVars, overlapped>>
    PROVE  \A g \in Paths : Calm(g)
<1>1. /\ NamesKept /\ FileTypes' /\ FileTypes /\ disk' = [disk EXCEPT ![f] = text]
      /\ UNCHANGED <<pending, emitting, out, overlapped>>
    BY Writing, BaseTypes DEF watchVars
<1> DEFINE change == [path |-> f, op |-> IF text = None THEN "remove" ELSE "update"]
<1>2. change \in Changes /\ change = (IF text = None THEN Removal(f) ELSE Update(f))
    BY DEF Changes, Removal, Update
<1>3. IF watching THEN events' = Append(events, change) /\ missed' = missed \ {f}
      ELSE events' = events /\ missed' = missed \union {f}
    BY DEF WriteFile
<1>4. events \in Seq(Changes) /\ change.path = f
    BY <1>1 DEF FileTypes
<1> HIDE DEF change
<1>5. ~ Settled(f)'
    <2>1. CASE ~ watching
        BY <1>3, <2>1 DEF Settled, Excused
    <2>2. CASE watching
        <3>1. Queued(events, change)'
            <4>1. Queued(Append(events, change), change)
                BY <1>2, <1>4, QueueAppended
            <4> QED
                BY <1>3, <2>2, <4>1, UNCHANGED change DEF Queued, change
        <3>2. disk'[f] = text
            BY <1>1 DEF FileTypes
        <3>3. CASE text = None
            <4>1. Queued(events, Removal(f))'
                BY <1>2, <3>1, <3>3 DEF Queued, Removal, Update, change
            <4> QED
                BY <3>2, <3>3, <4>1 DEF Settled, Seen, RemovalComing, IsConfig
        <3>4. CASE text # None
            <4>1. Queued(events, Update(f))'
                BY <1>2, <3>1, <3>4 DEF Queued, Removal, Update, change
            <4> QED
                BY <3>2, <3>4, <4>1 DEF Settled, Seen, UpdateComing
        <3> QED
            BY <3>3, <3>4
    <2> QED
        BY <2>1, <2>2
<1>6. ASSUME NEW g \in Paths \ {f}, Settled(g)'
      PROVE  Settled(g) /\ disk'[g] = disk[g]
    <2>1. disk'[g] = disk[g]
        BY <1>1 DEF FileTypes
    <2>2. ~ Excused(g)
        <3>1. g \in missed => g \in missed'
            BY <1>3, <1>6
        <3> QED
            BY <1>1, <1>6, <3>1, ExcusedStays DEF Settled
    <2>3. \A d : Queued(events, d) => Queued(events, d)'
        BY <1>2, <1>3, <1>4, QueueAppended DEF Queued
    <2>4. (UpdateComing(g) => UpdateComing(g)') /\ (RemovalComing(g) => RemovalComing(g)')
        BY <1>1, <2>3 DEF UpdateComing, RemovalComing, Queued, Update, Removal
    <2> QED
        BY <1>6, <2>1, <2>2, <2>4 DEF Settled, Seen
<1> QED
    BY <1>5, <1>6 DEF Calm

\* A step that leaves the files and the news of them alone.
LEMMA ElsewhereCalm ==
    ASSUME BaseInv, UNCHANGED <<fileVars, pending, emitting, out>>, overlapped \subseteq overlapped'
    PROVE  \A f \in Paths : Calm(f)
<1>1. NamesKept /\ FileTypes' /\ UNCHANGED <<disk, events, named, missed>>
    BY FilesStay DEF fileVars
<1>2. ASSUME NEW f \in Paths, Settled(f)'
      PROVE  Settled(f)
    <2>1. Seen(f)
        BY <1>1, <1>2 DEF Settled, Seen, UpdateComing, RemovalComing, Queued
    <2>2. ~ Excused(f)
        BY <1>1, <1>2, ExcusedStays DEF Settled
    <2> QED
        BY <2>1, <2>2 DEF Settled
<1> QED
    BY <1>1, <1>2 DEF Calm

\* What is emitted is in the channel, or missed.
LEMMA EmittedOrMissed ==
    ASSUME BaseInv, NEW change \in Changes, Emit(change)
    PROVE  /\ missed \subseteq missed'
           /\ \A d : Queued(out, d) => Queued(out, d)'
           /\ Queued(out, change)' \/ change.path \in missed'
<1>1. out \in Seq(Changes)
    BY BaseTypes DEF WatchTypes
<1>2. CASE out' = Append(out, change) /\ UNCHANGED missed
    BY <1>1, <1>2, QueueAppended DEF Queued
<1>3. CASE missed' = missed \union {change.path} /\ UNCHANGED out
    BY <1>3 DEF Queued
<1> QED
    BY <1>2, <1>3 DEF Emit

\* The watcher's own steps let no file settle: an event that is lost is noted,
\* and any other stays under way until it is consumed.
LEMMA WatcherCalm ==
    ASSUME BaseInv, WatcherStep
    PROVE  \A f \in Paths : Calm(f)
<1>1. /\ NamesKept /\ FileTypes' /\ UNCHANGED <<disk, named, overlapped>>
      /\ events \in Seq(Changes) /\ emitting \in [Paths -> Nat] /\ pending \subseteq Paths
    <2>1. UNCHANGED overlapped
        BY DEF WatcherStep, Handle, TimerFires, EmitUpdate
    <2> QED
        BY <2>1, WatcherBase, BaseTypes DEF BaseMove, FileTypes, WatchTypes
<1>2. /\ missed \subseteq missed'
      /\ \A f \in Paths : /\ UpdateComing(f) => UpdateComing(f)' \/ f \in missed'
                          /\ RemovalComing(f) => RemovalComing(f)' \/ f \in missed'
    <2>1. CASE Handle
        <3> DEFINE e == Head(events)
        <3>1. /\ e \in Changes /\ events # <<>> /\ events' = Tail(events) /\ emitting' = emitting
            BY <1>1, <2>1 DEF Handle
        <3>2. \A d : Queued(events, d) => Queued(events, d)' \/ e = d
            BY <1>1, <3>1, QueueTaken DEF Queued
        <3>3. CASE e.op = "remove"
            <4>1. Emit(e) /\ pending' = pending
                BY <2>1, <3>3 DEF Handle
            <4>2. PICK c \in Changes : c = e
                BY <3>1
            <4>3. /\ missed \subseteq missed' /\ \A d : Queued(out, d) => Queued(out, d)'
                  /\ Queued(out, c)' \/ c.path \in missed'
                BY <4>1, <4>2, EmittedOrMissed
            <4>4. ASSUME NEW f \in Paths
                  PROVE  /\ UpdateComing(f) => UpdateComing(f)'
                         /\ RemovalComing(f) => RemovalComing(f)' \/ f \in missed'
                <5> PICK u : u = Update(f)
                    OBVIOUS
                <5>1. UpdateComing(f) => UpdateComing(f)'
                    <6>1. Queued(events, u) => Queued(events, u)'
                        BY <3>2, <3>3 DEF Update
                    <6>2. Queued(out, u) => Queued(out, u)'
                        BY <4>3
                    <6> QED
                        BY <3>1, <4>1, <6>1, <6>2 DEF UpdateComing, Update, Queued
                <5>2. ASSUME RemovalComing(f)
                      PROVE  RemovalComing(f)' \/ f \in missed'
                    <6>1. CASE c = Removal(f)
                        BY <4>3, <6>1 DEF RemovalComing, Removal, Queued
                    <6>2. CASE c # Removal(f)
                        BY <3>2, <4>2, <4>3, <5>2, <6>2 DEF RemovalComing, Removal, Queued
                    <6> QED
                        BY <6>1, <6>2
                <5> QED
                    BY <5>1, <5>2
            <4> QED
                BY <4>3, <4>4
        <3>4. CASE e.op # "remove"
            <4>1. pending' = pending \union {e.path} /\ UNCHANGED <<out, missed>>
                BY <2>1, <3>4 DEF Handle
            <4>2. ASSUME NEW f \in Paths
                  PROVE  /\ UpdateComing(f) => UpdateComing(f)'
                         /\ RemovalComing(f) => RemovalComing(f)'
                <5>1. e = Update(f) => f \in pending'
                    BY <4>1 DEF Update
                <5>2. UpdateComing(f) => UpdateComing(f)'
                    BY <3>1, <3>2, <4>1, <5>1 DEF UpdateComing, Update, Queued
                <5> PICK r : r = Removal(f)
                    OBVIOUS
                <5>3. RemovalComing(f) => RemovalComing(f)'
                    <6>1. Queued(events, r) => Queued(events, r)'
                        BY <3>2, <3>4 DEF Removal
                    <6> QED
                        BY <4>1, <6>1 DEF RemovalComing, Removal, Queued
                <5> QED
                    BY <5>2, <5>3
            <4> QED
                BY <4>1, <4>2
        <3> QED
            BY <3>3, <3>4
    <2>2. ASSUME NEW g \in Paths, TimerFires(g)
          PROVE  /\ missed \subseteq missed'
                 /\ \A f \in Paths : /\ UpdateComing(f) => UpdateComing(f)'
                                     /\ RemovalComing(f) => RemovalComing(f)'
        <3>1. /\ pending' = pending \ {g} /\ emitting' = [emitting EXCEPT ![g] = @ + 1]
              /\ UNCHANGED <<events, missed, out>>
            BY <2>2 DEF TimerFires, fileVars
        <3>2. /\ emitting'[g] > 0
              /\ \A f \in Paths \ {g} : emitting'[f] = emitting[f] /\ (f \in pending' <=> f \in pending)
            BY <1>1, <3>1
        <3> QED
            BY <3>1, <3>2 DEF UpdateComing, RemovalComing, Queued, Update, Removal
    <2>3. ASSUME NEW g \in Paths, EmitUpdate(g)
          PROVE  /\ missed \subseteq missed'
                 /\ \A f \in Paths : /\ UpdateComing(f) => UpdateComing(f)' \/ f \in missed'
                                     /\ RemovalComing(f) => RemovalComing(f)'
        <3>1. /\ Emit(Update(g)) /\ emitting' = [emitting EXCEPT ![g] = @ - 1]
              /\ UNCHANGED <<events, pending>> /\ Update(g) \in Changes /\ Update(g).path = g
            BY <2>3 DEF EmitUpdate, Update, Changes
        <3>2. PICK c \in Changes : c = Update(g)
            BY <3>1
        <3>3. /\ missed \subseteq missed' /\ \A d : Queued(out, d) => Queued(out, d)'
              /\ Queued(out, c)' \/ g \in missed'
            BY <3>1, <3>2, EmittedOrMissed
        <3>4. \A f \in Paths \ {g} : emitting'[f] = emitting[f]
            BY <1>1, <3>1
        <3>5. ASSUME NEW f \in Paths, UpdateComing(f)
              PROVE  UpdateComing(f)' \/ f \in missed'
            <4>1. CASE f = g
                BY <3>2, <3>3, <4>1 DEF UpdateComing, Update, Queued
            <4>2. CASE f # g
                BY <3>1, <3>3, <3>4, <3>5, <4>2 DEF UpdateComing, Update, Queued
            <4> QED
                BY <4>1, <4>2
        <3>6. \A f \in Paths : RemovalComing(f) => RemovalComing(f)'
            BY <3>1, <3>3 DEF RemovalComing, Removal, Queued
        <3> QED
            BY <3>3, <3>5, <3>6
    <2> QED
        BY <2>1, <2>2, <2>3 DEF WatcherStep
<1>3. ASSUME NEW f \in Paths, Settled(f)'
      PROVE  Settled(f)
    <2>1. ~ Excused(f) /\ f \notin missed'
        BY <1>1, <1>2, <1>3, ExcusedStays DEF Settled, Excused
    <2> QED
        BY <1>1, <1>2, <1>3, <2>1 DEF Settled, Seen
<1> QED
    BY <1>1, <1>3 DEF Calm

\* Taking an update out of the channel settles no file but its own.
LEMMA ConsumeCalm ==
    ASSUME BaseInv, Consume
    PROVE  /\ \A f \in Paths \ {Head(out).path} : Calm(f)
           /\ \A f \in Paths : ~ Excused(f)' => ~ Excused(f)
<1>1. /\ NamesKept /\ FileTypes' /\ UNCHANGED <<disk, events, named, missed, pending, emitting>>
      /\ out \in Seq(Changes) /\ out # <<>> /\ out' = Tail(out) /\ overlapped \subseteq overlapped'
    <2>1. BaseMove /\ UNCHANGED fileVars /\ out \in Seq(Changes)
        BY ConsumeBase, BaseTypes DEF WatchTypes
    <2>2. overlapped \subseteq overlapped'
        BY DEF Consume, Begin, NoteOverlap
    <2> QED
        BY <2>1, <2>2 DEF Consume, BaseMove, fileVars
<1>2. \A f \in Paths : ~ Excused(f)' => ~ Excused(f)
    BY <1>1, ExcusedStays
<1>3. ASSUME NEW f \in Paths \ {Head(out).path}, Settled(f)'
      PROVE  Settled(f)
    <2>1. \A d : Queued(out, d) => Queued(out, d)' \/ Head(out) = d
        BY <1>1, QueueTaken DEF Queued
    <2>2. Head(out) # Update(f) /\ Head(out) # Removal(f)
        BY <1>3 DEF Update, Removal
    <2>3. (UpdateComing(f) => UpdateComing(f)') /\ (RemovalComing(f) => RemovalComing(f)')
        BY <1>1, <2>1, <2>2 DEF UpdateComing, RemovalComing, Update, Removal, Queued
    <2> QED
        BY <1>1, <1>2, <1>3, <2>3 DEF Settled, Seen
<1> QED
    BY <1>1, <1>2, <1>3 DEF Calm

-----------------------------------------------------------------------------
(* FileInv, action by action *)

\* A path is spelled as the watcher spells it when the directory's is absolute.
LEMMA ListedAsWatched ==
    ASSUME ~ RelativeDir, NEW f
    PROVE  Listed(f) = Watched(f) /\ AsWatched(Listed(f)) /\ AsWatched(Watched(f))
<1>1. (~ RelativeDir) = TRUE
    OBVIOUS
<1>2. Listed(f) = Watched(f)
    BY <1>1 DEF Listed, Watched
<1> QED
    BY <1>2 DEF AsWatched, Watched

\* A proxy that stays in the map goes on to match its file.
LEMMA RunStaysOK ==
    ASSUME BaseInv, RunTypes, NEW n \in Names, RunOK(n),
           \A f \in Paths : running[n] # None /\ f = running[n].path.file => Calm(f),
           running'[n] = running[n], AboutToStop(n) => AboutToStop(n)'
    PROVE  RunOK(n)'
<1> SUFFICES ASSUME running[n] # None
             PROVE  RunOK(n)'
    BY DEF RunOK
<1> PICK f \in Paths : f = running[n].path.file
    BY DEF RunTypes, OrNone, Loaded, Spelled
<1>1. AsWatched(running[n].path)' /\ (Settled(f)' => Settled(f) /\ disk'[f] = disk[f])
    BY DEF RunOK, AsWatched, Calm, Watched
<1>2. running'[n].path.file = f
    OBVIOUS
<1>3. CASE AboutToStop(n)
    BY <1>1, <1>3 DEF RunOK
<1>4. CASE Settled(f) => SameButSwitch(running[n].cf, disk[f])
    <2>1. Settled(f)' => SameButSwitch(running'[n].cf, disk'[f])
        BY <1>1, <1>4
    <2> QED
        BY <1>1, <1>2, <2>1 DEF RunOK, Matches, SameButSwitch
<1> QED
    BY <1>3, <1>4 DEF RunOK, Matches

\* A file is calm, or no name it has had is the actor's business.
CalmFor(f, a) == Calm(f) \/ \A n \in named[f] : n \notin Touches(a)

\* Items of work go on matching.
LEMMA ItemsStayMatched ==
    ASSUME NEW w, w.cf # None => w.path.file \in Paths /\ Calm(w.path.file), ItemMatches(w)
    PROVE  ItemMatches(w)'
    BY DEF ItemMatches, Matches, Calm

\* The work an actor has left goes on to match its files ...
LEMMA WorkStaysOK ==
    ASSUME BaseInv, NEW a \in Actors, TextOK(a), \A f \in Paths : CalmFor(f, a)
    PROVE  \A w \in job[a].todo : AsWatched(w.path) /\ ItemMatches(w)'
<1> SUFFICES ASSUME NEW w \in job[a].todo
             PROVE  AsWatched(w.path) /\ ItemMatches(w)'
    OBVIOUS
<1>1. ItemOK(w) /\ w \in Items
    BY JobFields DEF BaseInv, JobInv, JobOK
<1>2. w.cf # None => w.path.file \in Paths /\ w.name \in named[w.path.file] /\ w.name \in Names
    BY <1>1 DEF ItemOK, Items, OrNone, Spelled
<1>3. w.name \in Names => w.name \in Touches(a)
    BY NoJobType DEF BaseInv, JobInv, JobOK, Touches, Sweeping, Resting
<1>4. w.cf # None => Calm(w.path.file)
    BY <1>2, <1>3 DEF CalmFor
<1> QED
    BY <1>2, <1>4, ItemsStayMatched DEF TextOK

\* ... and so does all it has in hand.
LEMMA TextStaysOK ==
    ASSUME BaseInv, NamesKept, NEW a \in Actors, TextOK(a), \A f \in Paths : CalmFor(f, a),
           job'[a] = job[a], pc'[a] \in AtManager => pc[a] \in AtManager,
           pc'[a] = "save" => pc[a] = "save"
    PROVE  TextOK(a)'
<1>1. JobOK(a) /\ job[a] \in JobType
    BY JobFields DEF BaseInv, JobInv
<1>2. \A w \in job[a].todo : AsWatched(w.path) /\ ItemMatches(w)'
    BY WorkStaysOK
<1>3. pc[a] \in AtManager \union {"save"} => job[a].name \in Touches(a)
    <2>1. pc[a] \in AtManager \union {"save"} => job[a].name \in Names
        BY JobFields DEF BaseInv, Places, AtManager
    <2> QED
        BY <2>1 DEF Touches, AtManager
<1>4. ASSUME pc'[a] \in AtManager
      PROVE  ItemMatches(job[a])'
    <2>1. pc[a] \in AtManager /\ ItemOK(job[a]) /\ ItemMatches(job[a])
        BY <1>1, <1>4 DEF TextOK, JobOK
    <2> SUFFICES ASSUME job[a].cf # None
                 PROVE  (Settled(job[a].path.file) => SameButSwitch(job[a].cf, disk[job[a].path.file]))'
        BY DEF ItemMatches, Matches
    <2> PICK f \in Paths : f = job[a].path.file
        BY <1>1, <2>1 DEF JobType, ItemOK, OrNone, Spelled
    <2>2. Settled(f) => SameButSwitch(job[a].cf, disk[f])
        BY <2>1 DEF ItemMatches, Matches
    <2>3. Calm(f)
        BY <1>3, <2>1 DEF CalmFor, ItemOK
    <2>4. Settled(f)' => SameButSwitch(job'[a].cf, disk'[f])
        BY <2>2, <2>3 DEF Calm
    <2> QED
        BY <2>4 DEF SameButSwitch
<1>5. ASSUME pc'[a] = "save", job'[a].op = "toggle"
      PROVE  /\ Matches(job[a].save, job[a].path.file)'
             /\ job'[a].name \in named'[job'[a].path.file]
    <2>1. /\ Matches(job[a].save, job[a].path.file) /\ job[a].name \in named[job[a].path.file]
          /\ job[a].path # None
        BY <1>1, <1>5 DEF TextOK, JobOK
    <2> PICK f \in Paths : f = job[a].path.file
        BY <1>1, <2>1 DEF JobType, OrNone, Spelled
    <2>2. Calm(f)
        BY <1>5, <1>3, <2>1 DEF CalmFor
    <2>3. Settled(f)' => SameButSwitch(job'[a].save, disk'[f])
        BY <2>1, <2>2 DEF Calm, Matches
    <2> QED
        BY <2>1, <2>3 DEF Matches, SameButSwitch, NamesKept
<1>6. AsWatched(job[a].path)'
    BY DEF TextOK, AsWatched, Watched
<1> QED
    BY <1>2, <1>4, <1>5, <1>6 DEF TextOK, AsWatched, Watched

\* An actor at rest has nothing in hand.
LEMMA DoneIsOK ==
    ASSUME NEW a \in Actors, job'[a] = NoJob, pc'[a] \in Resting
    PROVE  TextOK(a)'
    BY NoJobType DEF TextOK, AsWatched, Resting, AtManager

\* A call that is about one name, with what it has of a file's text.
LEMMA BegunIsOK ==
    ASSUME NEW a \in Actors, job'[a].todo = {}, AsWatched(job[a].path)',
           pc'[a] \in {"stop", "save"}, pc'[a] = "stop" => ItemMatches(job[a])',
           pc'[a] = "save" => job'[a].op # "toggle"
    PROVE  TextOK(a)'
    BY DEF TextOK, AtManager

\* A text just read from its file matches it.
LEMMA WorkMatches ==
    ASSUME BaseInv, NEW f \in Paths, IsConfig(disk[f])
    PROVE  Matches(disk[f], f) /\ ItemMatches(Work(f))
<1>1. disk[f] \in ConfigTexts
    BY WorkType
<1>2. Matches(disk[f], f)
    BY <1>1, SameMatches DEF Matches
<1> QED
    BY <1>2, WorkType DEF ItemMatches

\* The others, and the proxies no step has changed.
LEMMA OthersOK ==
    ASSUME BaseInv, FileInv, NamesKept, \A f \in Paths : Calm(f), NEW a \in Actors, Only(a),
           TextOK(a)',
           \A n \in Names : running'[n] # None =>
                RunOK(n)' \/ (running'[n] = running[n] /\ ~ (pc[a] = "stop" /\ job[a].name = n))
    PROVE  FileInv'
<1>1. \A b \in Actors \ {a} : pc'[b] = pc[b] /\ job'[b] = job[b]
    BY JobFields DEF BaseInv, Only
<1>2. \A b \in Actors \ {a} : TextOK(b)'
    BY <1>1, TextStaysOK DEF FileInv, CalmFor
<1>3. ASSUME NEW n \in Names
      PROVE  RunOK(n)'
    <2>1. CASE running'[n] = None
        BY <2>1 DEF RunOK
    <2>2. CASE running'[n] = running[n] /\ ~ (pc[a] = "stop" /\ job[a].name = n)
        <3>1. AboutToStop(n) => AboutToStop(n)'
            BY <1>1, <2>2 DEF AboutToStop
        <3> QED
            BY <2>2, <3>1, BaseTypes, RunStaysOK DEF FileInv
    <2> QED
        BY <2>1, <2>2
<1> QED
    BY <1>2, <1>3 DEF FileInv

\* A step of the watcher or a user keeps the invariant.
LEMMA NobodyMovesOK ==
    ASSUME BaseInv, FileInv, NamesKept, \A f \in Paths : Calm(f), UNCHANGED <<pc, job, running>>
    PROVE  FileInv'
<1>1. \A a \in Actors : TextOK(a)'
    BY TextStaysOK DEF FileInv, CalmFor
<1>2. \A n \in Names : RunOK(n)'
    BY RunStaysOK, BaseTypes DEF FileInv, AboutToStop
<1> QED
    BY <1>1, <1>2 DEF FileInv

\* A file that has one name has no other, and no other file has it.
LEMMA OneName ==
    ASSUME NEW f \in Paths, NEW m, NEW n, m \in named[f], n \in named[f], ~ Excused(f)
    PROVE  m = n
    BY DEF Excused, OneToOne

\* Whoever works on a name of a file that is not excused does so alone.
LEMMA AloneWithFile ==
    ASSUME NEW f \in Paths, NEW n \in named[f], ~ Excused(f)
    PROVE  n \notin overlapped
    BY DEF Excused

\* An actor about to stop a proxy is at its name.
LEMMA StopAtName ==
    ASSUME NEW a \in Actors, pc[a] = "stop", job[a].name \in Names
    PROVE  job[a].name \in Touches(a)
    BY DEF Touches

\* How a call ends, as far as its job is concerned.
LEMMA LeavingOK ==
    ASSUME BaseInv, FileInv, NamesKept, \A f \in Paths : Calm(f), NEW a \in Actors, Leave(a)
    PROVE  TextOK(a)'
<1>1. pc = [b \in Actors |-> pc[b]] /\ job = [b \in Actors |-> job[b]] /\ TextOK(a)
    BY JobFields DEF BaseInv, FileInv
<1>2. CASE Goto(a, "next") /\ UNCHANGED job
    <2>1. pc'[a] = "next" /\ job'[a] = job[a]
        BY <1>1, <1>2 DEF Goto
    <2> QED
        BY <1>1, <2>1, TextStaysOK DEF AtManager, CalmFor
<1>3. CASE Goto(a, Home(a)) /\ job' = [job EXCEPT ![a] = NoJob]
    <2>1. pc'[a] \in Resting /\ job'[a] = NoJob
        BY <1>1, <1>3 DEF Goto, Home, Resting
    <2> QED
        BY <2>1, DoneIsOK
<1> QED
    BY <1>2, <1>3 DEF Leave

\* What the actor has in hand after a stop.
LEMMA StoppedOK ==
    ASSUME BaseInv, FileInv, NamesKept, \A f \in Paths : Calm(f), NEW a \in Actors, AfterStop(a),
           pc[a] \in AtManager
    PROVE  TextOK(a)'
<1>1. pc = [b \in Actors |-> pc[b]] /\ job = [b \in Actors |-> job[b]] /\ TextOK(a)
    BY JobFields DEF BaseInv, FileInv
<1>2. CASE Leave(a)
    BY <1>2, LeavingOK
<1>3. CASE (Goto(a, "start") \/ Goto(a, "unlink")) /\ UNCHANGED job
    <2>1. pc'[a] \in {"start", "unlink"} /\ job'[a] = job[a]
        BY <1>1, <1>3 DEF Goto
    <2> QED
        BY <1>1, <2>1, TextStaysOK DEF CalmFor
<1> QED
    BY <1>2, <1>3 DEF AfterStop

\* A step within a call lets no file settle: a write is an event of its own.
LEMMA StepCalm ==
    ASSUME BaseInv, NEW a \in Actors, Step(a)
    PROVE  NamesKept /\ Only(a) /\ \A f \in Paths : Calm(f)
<1>1. NamesKept /\ Only(a) /\ overlapped' = overlapped
    BY StepBase DEF BaseMove, Continues
<1>2. CASE UNCHANGED fileVars
    <2>1. UNCHANGED <<fileVars, pending, emitting, out>>
        BY <1>2, Zenon DEF Step, Stop, Flush, Start, StartFails, Apply, TakeNext, Save, Unlink, watchVars
    <2> QED
        BY <1>1, <2>1, ElsewhereCalm
<1>3. CASE Save(a) /\ ~ UNCHANGED fileVars
    <2>1. /\ WriteFile(job[a].path.file, job[a].save) /\ UNCHANGED <<watchVars, overlapped>>
          /\ job[a].path.file \in Paths /\ job[a].save \in Texts
        BY <1>3, SaveBase DEF Save
    <2> QED
        BY <1>1, <2>1, WritingCalm
<1>4. CASE Unlink(a) /\ ~ UNCHANGED fileVars
    <2>1. /\ WriteFile(job[a].path.file, None) /\ UNCHANGED <<watchVars, overlapped>>
          /\ job[a].path.file \in Paths /\ None \in Texts
        BY <1>4, UnlinkBase DEF Unlink, Texts
    <2> QED
        BY <1>1, <2>1, WritingCalm
<1> QED
    BY <1>2, <1>3, <1>4, Zenon DEF Step, Stop, Flush, Start, StartFails, Apply, TakeNext

\* What a proxy is started with is what its file says.
LEMMA StartFile ==
    ASSUME BaseInv, FileInv, NamesKept, \A f \in Paths : Calm(f), NEW a \in Actors, Start(a), Only(a)
    PROVE  FileInv'
<1>1. /\ pc[a] = "start" /\ TextOK(a) /\ job[a] \in JobType /\ JobOK(a)
      /\ pc = [b \in Actors |-> pc[b]] /\ job = [b \in Actors |-> job[b]] /\ job[a].name \in Names
    BY JobFields DEF Start, FileInv, BaseInv, JobInv, Places
<1>2. /\ running' = [running EXCEPT ![job[a].name] = [cf |-> job[a].cf, path |-> job[a].path]]
      /\ pc'[a] = "apply" /\ job'[a] = job[a]
    BY <1>1 DEF Start, Goto
<1>3. TextOK(a)'
    BY <1>1, <1>2, TextStaysOK DEF AtManager, CalmFor
<1> PICK n \in Names : n = job[a].name
    BY <1>1
<1>4. \A m \in Names \ {n} : running'[m] = running[m]
    BY <1>2, BaseTypes DEF RunTypes
<1>5. running'[n] = [cf |-> job[a].cf, path |-> job[a].path]
    BY <1>2, BaseTypes DEF RunTypes
<1>6. RunOK(n)'
    <2>1. ItemMatches(job[a]) /\ AsWatched(job[a].path) /\ job[a].cf # None /\ job[a].path # None
        BY <1>1 DEF TextOK, AtManager, JobOK, ItemOK
    <2> PICK f \in Paths : f = job[a].path.file
        BY <1>1, <2>1 DEF JobType, OrNone, Spelled
    <2>2. Settled(f)' => SameButSwitch(job[a].cf, disk'[f])
        BY <2>1 DEF ItemMatches, Matches, Calm
    <2>3. running'[n].cf = job[a].cf /\ running'[n].path = job[a].path
        BY <1>5
    <2>4. AsWatched(running[n].path)'
        BY <2>1, <2>3 DEF AsWatched, Watched
    <2>5. Matches(running[n].cf, running[n].path.file)'
        BY <2>2, <2>3 DEF Matches, SameButSwitch
    <2> QED
        BY <2>4, <2>5 DEF RunOK
<1> QED
    BY <1>1, <1>3, <1>4, <1>6, OthersOK

\* A proxy that no longer matches its file goes.
LEMMA StopFile ==
    ASSUME BaseInv, FileInv, NamesKept, \A f \in Paths : Calm(f), NEW a \in Actors, Stop(a), Only(a)
    PROVE  FileInv'
<1>1. /\ pc[a] = "stop" /\ TextOK(a) /\ job[a].name \in Names
      /\ pc = [b \in Actors |-> pc[b]] /\ job = [b \in Actors |-> job[b]]
    BY JobFields DEF Stop, FileInv, BaseInv, Places
<1>2. /\ running'[job[a].name] = None
      /\ \A m \in Names \ {job[a].name} : running'[m] = running[m]
    <2>1. running = [n \in Names |-> running[n]]
        BY BaseTypes DEF RunTypes
    <2> QED
        BY <1>1, <2>1 DEF Stop
<1>3. TextOK(a)'
    <2>1. CASE AfterStop(a)
        BY <1>1, <2>1, StoppedOK DEF AtManager
    <2>2. CASE Goto(a, "flush") /\ UNCHANGED job
        <3>1. pc'[a] = "flush" /\ job'[a] = job[a]
            BY <1>1, <2>2 DEF Goto
        <3> QED
            BY <1>1, <3>1, TextStaysOK DEF AtManager, CalmFor
    <2> QED
        BY <2>1, <2>2 DEF Stop
<1>4. \A n \in Names : running'[n] # None => running'[n] = running[n] /\ n # job[a].name
    BY <1>2
<1> QED
    BY <1>3, <1>4, OthersOK

\* The actor takes up the next item of its work.
LEMMA TakeNextFile ==
    ASSUME BaseInv, FileInv, NamesKept, \A f \in Paths : Calm(f), NEW a \in Actors, TakeNext(a), Only(a)
    PROVE  FileInv'
<1>1. /\ pc[a] = "next" /\ TextOK(a) /\ job[a] \in JobType /\ JobOK(a) /\ running' = running
      /\ pc = [b \in Actors |-> pc[b]] /\ job = [b \in Actors |-> job[b]]
    BY JobFields, Zenon DEF TakeNext, FileInv, BaseInv, JobInv
<1>2. \A w \in job[a].todo : AsWatched(w.path) /\ ItemMatches(w)'
    BY <1>1, WorkStaysOK DEF CalmFor
<1>3. AsWatched(job[a].path)
    BY <1>1 DEF TextOK
<1>4. ASSUME NEW w \in job[a].todo, Goto(a, "stop"),
             job' = [job EXCEPT ![a].todo = @ \ {w}, ![a].name = w.name,
                                ![a].path = w.path, ![a].cf = w.cf]
      PROVE  TextOK(a)'
    <2>1. /\ pc'[a] = "stop" /\ job'[a].todo = job[a].todo \ {w} /\ job'[a].path = w.path
          /\ job'[a].cf = w.cf
        BY <1>1, <1>4 DEF Goto, JobType
    <2>2. ItemMatches(job[a])'
        BY <1>2, <2>1 DEF ItemMatches
    <2> QED
        BY <1>2, <2>1, <2>2 DEF TextOK, AsWatched, Watched
<1>5. ASSUME UNCHANGED pc,
             job' = [job EXCEPT ![a].op = "reloadSweep",
                                ![a].todo = {[name |-> n, path |-> None, cf |-> None] :
                                                n \in {m \in Names \ job[a].onDisk : running[m] # None}}]
      PROVE  TextOK(a)'
    <2> DEFINE stops == {[name |-> n, path |-> None, cf |-> None] :
                            n \in {m \in Names \ job[a].onDisk : running[m] # None}}
    <2>1. \A w \in stops : w.path = None /\ w.cf = None
        OBVIOUS
    <2>2. pc'[a] = "next" /\ job'[a].todo = stops /\ job'[a].path = job[a].path
        BY <1>1, <1>5 DEF JobType
    <2> HIDE DEF stops
    <2>3. \A w \in job'[a].todo : w.path = None /\ w.cf = None
        BY <2>1, <2>2
    <2> QED
        BY <1>3, <2>2, <2>3 DEF TextOK, AsWatched, Watched, ItemMatches, AtManager
<1>6. ASSUME job' = [job EXCEPT ![a] = NoJob], Goto(a, Home(a))
      PROVE  TextOK(a)'
    <2>1. pc'[a] \in Resting /\ job'[a] = NoJob
        BY <1>1, <1>6 DEF Goto, Home, Resting
    <2> QED
        BY <2>1, DoneIsOK
<1>7. TextOK(a)'
    BY <1>4, <1>5, <1>6, Zenon DEF TakeNext
<1> QED
    BY <1>1, <1>7, OthersOK

\* A file that has just been written is not settled.
LEMMA SaveFile ==
    ASSUME BaseInv, FileInv, NamesKept, \A f \in Paths : Calm(f), NEW a \in Actors, Save(a), Only(a)
    PROVE  FileInv'
<1>1. /\ pc[a] = "save" /\ TextOK(a) /\ job[a] \in JobType /\ JobOK(a) /\ running' = running
      /\ pc = [b \in Actors |-> pc[b]] /\ job = [b \in Actors |-> job[b]]
    BY JobFields DEF Save, FileInv, BaseInv, JobInv
<1>2. TextOK(a)'
    <2>1. CASE Leave(a)
        BY <2>1, LeavingOK
    <2>2. CASE WriteFile(job[a].path.file, job[a].save) /\ Goto(a, "stop") /\ UNCHANGED job
        <3>1. /\ pc'[a] = "stop" /\ job'[a] = job[a] /\ job[a].path.file \in Paths
              /\ disk'[job[a].path.file] = job[a].save /\ job[a].save \in ConfigTexts
            BY <1>1, <2>2, SaveBase, Writing DEF Goto, JobOK, FileTypes, BaseInv, TypeOK
        <3>2. job[a].cf \in {None, job[a].save}
            BY <1>1 DEF JobOK
        <3>3. ItemMatches(job[a])'
            <4>1. SameButSwitch(job[a].save, job[a].save)
                BY <3>1, SameMatches
            <4> QED
                BY <3>1, <3>2, <4>1 DEF ItemMatches, Matches, SameButSwitch
        <3>4. \A w \in job[a].todo : AsWatched(w.path) /\ ItemMatches(w)'
            BY <1>1, WorkStaysOK DEF CalmFor
        <3>5. AsWatched(job[a].path)'
            BY <1>1, <3>1 DEF TextOK, AsWatched, Watched
        <3> QED
            BY <3>1, <3>3, <3>4, <3>5 DEF TextOK, AsWatched, Watched
    <2> QED
        BY <2>1, <2>2 DEF Save
<1> QED
    BY <1>1, <1>2, OthersOK

\* The steps of an actor within a call, all together.
LEMMA StepFile ==
    ASSUME BaseInv, FileInv, NEW a \in Actors, Step(a)
    PROVE  FileInv'
<1>1. NamesKept /\ Only(a) /\ \A f \in Paths : Calm(f)
    BY StepCalm
<1>2. CASE Flush(a) \/ StartFails(a) \/ Apply(a) \/ Unlink(a)
    <2>1. TextOK(a)'
        BY <1>1, <1>2, LeavingOK, StoppedOK DEF Flush, StartFails, Apply, Unlink, AtManager
    <2>2. running' = running /\ pc[a] # "stop"
        BY <1>2 DEF Flush, StartFails, Apply, Unlink
    <2> QED
        BY <1>1, <2>1, <2>2, OthersOK
<1> QED
    BY <1>1, <1>2, StopFile, StartFile, TakeNextFile, SaveFile DEF Step

\* What a request finds for a name is spelled as the watcher spells it, and
\* matches the file it came from unless the proxy is about to be stopped.
LEMMA ResolveMatches ==
    ASSUME BaseInv, FileInv, ~ RelativeDir, NEW n \in Names, NEW p \in Resolve(n)
    PROVE  /\ AsWatched(p.path)
           /\ (Settled(p.path.file) => SameButSwitch(p.cf, disk[p.path.file])) \/ AboutToStop(n)
<1>1. CASE running[n] # None /\ p = running[n]
    BY <1>1 DEF FileInv, RunOK, Matches
<1>2. CASE running[n] = None /\ p.path = Listed(p.path.file) /\ p.cf = disk[p.path.file]
    <2>1. AsWatched(p.path)
        BY <1>2, ListedAsWatched
    <2>2. SameButSwitch(p.cf, disk[p.path.file])
        BY <1>2, ResolveType, SameMatches
    <2> QED
        BY <2>1, <2>2
<1> QED
    BY <1>1, <1>2, ResolveType

\* Neither does a request.
LEMMA RequestCalm ==
    ASSUME BaseInv, NEW h \in Handlers, Request(h), overlapped \subseteq overlapped'
    PROVE  \A f \in Paths : Calm(f)
    BY ElsewhereCalm DEF Request, watchVars

\* What Enable and Disable are about to write differs from the file by the switch
\* only: whoever is about to stop the proxy meets them.
LEMMA ToggleFile ==
    ASSUME BaseInv, FileInv, ~ RelativeDir, NEW h \in Handlers,
           NEW n \in Names, NEW on \in BOOLEAN, Toggle(h, n, on)
    PROVE  FileInv'
<1>1. /\ h \in Actors /\ pc[h] \in Resting /\ pc'[h] = "save" /\ Starts(h) /\ Only(h) /\ NamesKept
      /\ job'[h].op = "toggle" /\ job'[h].name = n /\ job'[h].todo = {} /\ BaseMove
      /\ overlapped \subseteq overlapped'
    BY ToggleBase DEF BaseMove, Starts, Actors
<1>2. /\ \A f \in Paths : Calm(f)
      /\ UNCHANGED <<disk, named>>
    BY <1>1, RequestCalm DEF Toggle, Request, fileVars
<1>3. PICK p \in Resolve(n) : job'[h].path = p.path /\ job'[h].save = Switched(p.cf, on)
    BY ToggleBase
<1>4. PICK f \in Paths : f = p.path.file
    BY ResolveType
<1>5. p.cf \in ConfigTexts /\ n \in named[f]
    BY <1>4, ResolveType
<1>6. AsWatched(p.path)
    BY ResolveMatches
<1>7. ASSUME Settled(f)'
      PROVE  ~ AboutToStop(n)
    <2> SUFFICES ASSUME NEW b \in Actors, pc[b] = "stop", job[b].name = n
                 PROVE  FALSE
        BY DEF AboutToStop
    <2>1. b # h /\ n \in Touches(b)
        BY <1>1, StopAtName DEF Resting
    <2>2. n \in Touches(h)'
        BY <1>1 DEF Touches
    <2>3. n \in overlapped'
        BY <1>1, <2>1, <2>2 DEF Starts
    <2>4. ~ Excused(f)'
        BY <1>7 DEF Settled
    <2> QED
        BY <1>2, <1>5, <2>3, <2>4 DEF Excused
<1>8. Settled(f)' => SameButSwitch(p.cf, disk[f]) /\ disk'[f] = disk[f]
    BY <1>2, <1>4, <1>7, ResolveMatches DEF Calm
<1>9. Settled(f)' => SameButSwitch(Switched(p.cf, on), disk'[f])
    BY <1>5, <1>8, SwitchIsImmaterial, BaseTypes DEF FileTypes
<1>10. TextOK(h)'
    <2>1. job'[h].path.file = f /\ job'[h].save = Switched(p.cf, on)
        BY <1>3, <1>4
    <2>2. Matches(job[h].save, job[h].path.file)'
        BY <1>9, <2>1 DEF Matches, SameButSwitch
    <2>3. AsWatched(job[h].path)'
        BY <1>3, <1>6 DEF AsWatched, Watched
    <2>4. job'[h].name \in named'[job'[h].path.file]
        BY <1>1, <1>2, <1>5, <2>1
    <2> QED
        BY <1>1, <2>2, <2>3, <2>4 DEF TextOK, AtManager
<1>11. CASE running[n] = None
    <2>1. running' = running
        BY <1>11 DEF Toggle
    <2> QED
        BY <1>1, <1>2, <1>10, <2>1, OthersOK DEF Resting
<1>12. CASE running[n] # None
    <2>1. running' = [running EXCEPT ![n].cf = Switched(@, on)]
        BY <1>12 DEF Toggle
    <2>2. running[n] \in Loaded /\ p = running[n]
        BY <1>12, ResolveType, BaseTypes DEF RunTypes, OrNone
    <2>3. \A m \in Names \ {n} : running'[m] = running[m]
        BY <2>1, BaseTypes DEF RunTypes
    <2>4. running'[n].cf = Switched(p.cf, on) /\ running'[n].path = p.path
        <3>1. running'[n] = [running[n] EXCEPT !.cf = Switched(@, on)]
            BY <2>1, BaseTypes DEF RunTypes
        <3> QED
            BY <2>2, <3>1 DEF Loaded
    <2>5. Matches(running[n].cf, running[n].path.file)'
        BY <1>4, <1>9, <2>4 DEF Matches, SameButSwitch
    <2>6. AsWatched(running[n].path)'
        BY <1>6, <2>4 DEF AsWatched, Watched
    <2>7. RunOK(n)'
        BY <2>5, <2>6 DEF RunOK
    <2> QED
        BY <1>1, <1>2, <1>10, <2>3, <2>7, OthersOK DEF Resting
<1> QED
    BY <1>11, <1>12

\* The other requests change no running proxy's configuration.
LEMMA RequestFile ==
    ASSUME BaseInv, FileInv, NEW h \in Handlers, Requested(h), UNCHANGED running, TextOK(h)'
    PROVE  FileInv'
<1>1. /\ BaseMove /\ Starts(h) /\ h \in Actors /\ pc[h] \in Resting /\ Request(h)
    BY RequestedBase, Zenon DEF Requested, ReloadAll, Create, Replace, Delete, Reload, Toggle
<1>2. NamesKept /\ Only(h) /\ overlapped \subseteq overlapped'
    BY <1>1 DEF BaseMove, Starts
<1>3. \A f \in Paths : Calm(f)
    BY <1>1, <1>2, RequestCalm
<1> QED
    BY <1>1, <1>2, <1>3, OthersOK DEF Resting

\* The requests, all together.
LEMMA RequestedFile ==
    ASSUME BaseInv, FileInv, ~ RelativeDir, NEW h \in Handlers, Requested(h)
    PROVE  FileInv'
<1>1. h \in Actors /\ BaseMove /\ disk' = disk /\ FileTypes
    BY RequestedBase, BaseTypes, Zenon
       DEF Requested, ReloadAll, Create, Replace, Delete, Reload, Toggle, Request, fileVars
<1>2. ASSUME NEW cf \in Configs, Create(h, cf) \/ Replace(h, cf)
      PROVE  FileInv'
    <2>1. /\ pc'[h] = "save" /\ UNCHANGED running /\ job'[h].op \in {"create", "replace"}
          /\ job'[h].todo = {}
          /\ \/ \E p \in Resolve(cf.name) : job'[h].path = p.path
             \/ \E f \in Paths : job'[h].path = Listed(f)
        BY <1>2, PutBase
    <2>2. cf.name \in Names
        BY ConfigsAssumption DEF ConfigType
    <2>3. PICK path : path = job'[h].path
        OBVIOUS
    <2>4. AsWatched(path)
        BY <2>1, <2>2, <2>3, ResolveMatches, ListedAsWatched
    <2>5. AsWatched(job[h].path)'
        BY <2>3, <2>4 DEF AsWatched, Watched
    <2>6. TextOK(h)'
        BY <1>1, <2>1, <2>5, BegunIsOK
    <2> QED
        BY <1>2, <2>1, <2>6, RequestFile DEF Requested
<1>3. ASSUME NEW n \in Names, Delete(h, n)
      PROVE  FileInv'
    <2>1. /\ pc'[h] = "stop" /\ UNCHANGED running /\ job'[h].todo = {} /\ job'[h].cf = None
          /\ \E p \in Resolve(n) : job'[h].path = p.path
        BY <1>3, DeleteBase
    <2>2. PICK path : path = job'[h].path
        OBVIOUS
    <2>3. AsWatched(job[h].path)'
        BY <2>1, <2>2, ResolveMatches DEF AsWatched, Watched
    <2>4. ItemMatches(job[h])'
        BY <2>1 DEF ItemMatches
    <2>5. TextOK(h)'
        BY <1>1, <2>1, <2>3, <2>4, BegunIsOK
    <2> QED
        BY <1>3, <2>1, <2>5, RequestFile DEF Requested
<1>4. ASSUME NEW n \in Names, Reload(h, n)
      PROVE  FileInv'
    <2>1. /\ pc'[h] = "stop" /\ UNCHANGED running /\ job'[h].todo = {}
          /\ \E p \in Resolve(n) : /\ job'[h].path = p.path /\ IsConfig(disk[p.path.file])
                                   /\ job'[h].cf \in {None, disk[p.path.file]}
        BY <1>4, ReloadBase
    <2>2. PICK p \in Resolve(n) : /\ job'[h].path = p.path /\ IsConfig(disk[p.path.file])
                                  /\ job'[h].cf \in {None, disk[p.path.file]}
        BY <2>1
    <2>3. AsWatched(job[h].path)'
        BY <2>2, ResolveMatches DEF AsWatched, Watched
    <2>4. ItemMatches(job[h])'
        <3>1. disk[p.path.file] \in ConfigTexts
            BY <2>2, ResolveType, WorkType
        <3>2. SameButSwitch(disk[p.path.file], disk[p.path.file])
            BY <3>1, SameMatches
        <3> QED
            BY <1>1, <2>2, <3>2 DEF ItemMatches, Matches, SameButSwitch
    <2>5. TextOK(h)'
        BY <1>1, <2>1, <2>3, <2>4, BegunIsOK
    <2> QED
        BY <1>4, <2>1, <2>5, RequestFile DEF Requested
<1>5. CASE ReloadAll(h)
    <2>1. /\ pc'[h] = "next" /\ UNCHANGED running /\ job'[h].todo = LoadedWork /\ job'[h].path = None
        BY <1>5, ReloadAllBase
    <2>2. ASSUME NEW f \in Paths, IsConfig(disk[f])
          PROVE  AsWatched(Work(f).path) /\ ItemMatches(Work(f))'
        <3>1. PICK w : w = Work(f)
            OBVIOUS
        <3>2. w.path = Listed(f) /\ w.path.file = f /\ w.cf \in {None, disk[f]} /\ disk[f] \in ConfigTexts
            BY <2>2, <3>1, WorkType
        <3>3. SameButSwitch(disk[f], disk[f])
            BY <3>2, SameMatches
        <3>4. ItemMatches(w)'
            BY <1>1, <3>2, <3>3 DEF ItemMatches, Matches, SameButSwitch
        <3>5. Work(f)' = w
            BY <1>1, <3>1 DEF Work
        <3> QED
            BY <3>1, <3>2, <3>4, <3>5, ListedAsWatched DEF ItemMatches
    <2>3. \A w \in LoadedWork : AsWatched(w.path) /\ ItemMatches(w)'
        <3> SUFFICES ASSUME NEW w \in LoadedWork
                     PROVE  AsWatched(w.path) /\ ItemMatches(w)'
            OBVIOUS
        <3>1. PICK f \in Paths : IsConfig(disk[f]) /\ w = Work(f)
            BY DEF LoadedWork
        <3>2. w' = w /\ Work(f)' = Work(f)
            BY <1>1 DEF Work
        <3> QED
            BY <2>2, <3>1, <3>2 DEF ItemMatches
    <2>4. TextOK(h)'
        BY <2>1, <2>3 DEF TextOK, AsWatched, Watched, AtManager
    <2> QED
        BY <1>5, <2>1, <2>4, RequestFile DEF Requested
<1> QED
    BY <1>2, <1>3, <1>4, <1>5, ToggleFile DEF Requested

\* The consumer takes up the news of a file: whoever works on a name of the file
\* has met it, and a proxy that runs from the file is about to be stopped.
LEMMA ConsumeFile ==
    ASSUME BaseInv, FileInv, ~ RelativeDir, Consume
    PROVE  FileInv'
<1>1. PICK e \in Changes, f \in Paths : e = Head(out) /\ f = e.path
    BY ConsumeBase DEF Changes
<1>2. /\ BaseMove /\ UNCHANGED <<disk, events, named, missed, pending, emitting, running>> /\ out' = Tail(out)
      /\ Main \in Actors /\ pc[Main] \in Resting /\ NamesKept /\ out \in Seq(Changes) /\ out # <<>>
    <2>1. BaseMove /\ UNCHANGED fileVars /\ out \in Seq(Changes) /\ pc[Main] \in Resting /\ Main \in Actors
        BY ConsumeBase, BaseTypes DEF WatchTypes
    <2> QED
        BY <2>1 DEF Consume, BaseMove, fileVars
<1>3. /\ \A g \in Paths \ {f} : Calm(g)
      /\ ~ Excused(f)' => ~ Excused(f)
    BY <1>1, ConsumeCalm
<1>4. \/ /\ e.op = "remove" /\ Starts(Main) /\ pc'[Main] = "stop" /\ job'[Main].op = "remove"
         /\ job'[Main].todo = {} /\ job'[Main].cf = None /\ job'[Main].path = None
         /\ \E n \in Names : /\ running[n] # None /\ running[n].path = Watched(f)
                             /\ job'[Main].name = n
      \/ /\ e.op = "update" /\ IsConfig(disk[f]) /\ Starts(Main)
         /\ pc'[Main] = "stop" /\ job'[Main].op = "update"
         /\ job'[Main].todo = {} /\ job'[Main].path = Watched(f)
         /\ job'[Main].name = disk[f].name /\ job'[Main].cf \in {None, disk[f]}
      \/ /\ Rests /\ NoteOverlap(Main, named[f])
         /\ IF e.op = "remove"
            THEN \A n \in Names : running[n] # None => running[n].path # Watched(f)
            ELSE ~ IsConfig(disk[f])
    BY <1>1, ConsumeBase
<1>5. \A b \in Actors \ {Main} : pc'[b] = pc[b] /\ job'[b] = job[b]
    BY <1>4, JobFields DEF Starts, Only, Rests, BaseInv
<1>6. ASSUME ~ Rests
      PROVE  /\ Starts(Main) /\ pc'[Main] = "stop" /\ job'[Main].name \in named[f]
             /\ Touches(Main)' = {job'[Main].name}
    <2>1. Starts(Main) /\ pc'[Main] = "stop" /\ job'[Main].op \in {"remove", "update"}
        BY <1>4, <1>6
    <2>2. job'[Main].name \in named[f]
        <3>1. CASE \E n \in Names : /\ running[n] # None /\ running[n].path = Watched(f)
                                    /\ job'[Main].name = n
            BY <3>1 DEF BaseInv, NameInv, Watched
        <3>2. CASE IsConfig(disk[f]) /\ job'[Main].name = disk[f].name
            BY <3>2 DEF BaseInv, NameInv
        <3> QED
            BY <1>4, <1>6, <3>1, <3>2
    <2> QED
        BY <2>1, <2>2 DEF Touches
<1>7. ASSUME NEW b \in Actors \ {Main}
      PROVE  \A g \in Paths : CalmFor(g, b)
    <2>1. CASE Calm(f)
        BY <1>3, <2>1 DEF CalmFor
    <2>2. CASE ~ Calm(f)
        <3>1. ~ Excused(f)' /\ ~ Excused(f)
            BY <1>3, <2>2 DEF Calm, Settled
        <3>2. ASSUME NEW m \in named[f], m \in Touches(b)
              PROVE  FALSE
            <4>1. m \notin overlapped'
                BY <1>2, <3>1 DEF Excused
            <4>2. CASE Rests
                <5>1. NoteOverlap(Main, named[f])
                    <6>1. pc'[Main] = "stop" => ~ Rests
                        BY <1>2 DEF Rests, Resting
                    <6> QED
                        BY <1>4, <4>2, <6>1
                <5> QED
                    BY <1>7, <3>2, <4>1, <5>1, <1>2 DEF NoteOverlap
            <4>3. CASE ~ Rests
                <5>1. job'[Main].name = m
                    BY <1>6, <3>1, <4>3, OneName
                <5> QED
                    BY <1>6, <1>7, <3>2, <4>1, <4>3, <5>1 DEF Starts
            <4> QED
                BY <4>2, <4>3
        <3> QED
            BY <1>3, <3>2 DEF CalmFor
    <2> QED
        BY <2>1, <2>2
<1>8. \A b \in Actors \ {Main} : TextOK(b)'
    BY <1>2, <1>5, <1>7, TextStaysOK DEF FileInv
<1>9. TextOK(Main)'
    <2>1. CASE Rests
        BY <1>2, <2>1, DoneIsOK DEF Rests, BaseInv, JobInv, JobOK
    <2>2. CASE ~ Rests
        <3>1. AsWatched(job[Main].path)'
            <4>1. job'[Main].path \in {None, Watched(f)}
                BY <1>4, <2>2
            <4>2. Watched(f).file = f
                BY DEF Watched
            <4> QED
                BY <4>1, <4>2 DEF AsWatched, Watched
        <3>2. ItemMatches(job[Main])'
            <4>1. CASE job'[Main].cf = None
                BY <4>1 DEF ItemMatches
            <4>2. CASE IsConfig(disk[f]) /\ job'[Main].path = Watched(f) /\ job'[Main].cf = disk[f]
                <5>1. SameButSwitch(disk[f], disk[f])
                    BY <4>2, WorkType, SameMatches
                <5> QED
                    BY <1>2, <4>2, <5>1 DEF ItemMatches, Matches, SameButSwitch, Watched
            <4> QED
                BY <1>4, <2>2, <4>1, <4>2
        <3>3. job'[Main].todo = {}
            BY <1>4, <2>2
        <3> QED
            BY <1>2, <1>6, <2>2, <3>1, <3>2, <3>3, BegunIsOK
    <2> QED
        BY <2>1, <2>2
<1>10. ASSUME NEW n \in Names
       PROVE  RunOK(n)'
    <2>1. AboutToStop(n) => AboutToStop(n)'
        <3>1. \A b \in Actors : pc[b] = "stop" => b # Main
            BY <1>2 DEF Resting
        <3> QED
            BY <1>5, <3>1 DEF AboutToStop
    <2>2. CASE running[n] # None /\ running[n].path.file = f /\ ~ Calm(f)
        <3>1. n \in named[f] /\ ~ Excused(f) /\ Settled(f)' /\ ~ Settled(f)
            BY <1>2, <1>3, <2>2 DEF BaseInv, NameInv, Calm, Settled
        <3>2. running[n].path = Watched(f)
            <4>1. running[n].path # None
                BY <2>2, BaseTypes, NoneAssumption DEF RunTypes, OrNone, Loaded
            <4> QED
                BY <2>2, <4>1 DEF FileInv, RunOK, AsWatched
        <3>3. CASE ~ Rests
            <4>1. job'[Main].name = n
                BY <1>6, <3>1, <3>3, OneName
            <4>2. AboutToStop(n)'
                BY <1>2, <1>6, <3>3, <4>1 DEF AboutToStop
            <4>3. AsWatched(running[n].path)'
                BY <1>2, <3>2 DEF AsWatched, Watched
            <4> QED
                BY <4>2, <4>3 DEF RunOK
        <3>4. CASE Rests
            <4>1. pc'[Main] # "stop"
                BY <1>2, <3>4 DEF Rests, Resting
            <4>2. e.op # "remove" /\ ~ IsConfig(disk[f])
                BY <1>4, <2>2, <3>2, <4>1
            <4> PICK r : r = Removal(f)
                OBVIOUS
            <4>3. e # r
                BY <4>2 DEF Removal
            <4>4. Queued(out, r) => Queued(out, r)'
                BY <1>1, <1>2, <4>3, QueueTaken DEF Queued
            <4>5. RemovalComing(f) => RemovalComing(f)'
                BY <1>2, <4>4 DEF RemovalComing, Removal, Queued
            <4>6. Seen(f)
                BY <1>2, <3>1, <4>2, <4>5 DEF Settled, Seen
            <4> QED
                BY <3>1, <4>6 DEF Settled
        <3> QED
            BY <3>3, <3>4
    <2>3. CASE ~ (running[n] # None /\ running[n].path.file = f /\ ~ Calm(f))
        <3>1. \A g \in Paths : running[n] # None /\ g = running[n].path.file => Calm(g)
            BY <1>3, <2>3
        <3>2. running'[n] = running[n] /\ RunOK(n) /\ RunTypes
            BY <1>2, BaseTypes DEF FileInv
        <3> QED
            BY <2>1, <3>1, <3>2, RunStaysOK
    <2> QED
        BY <2>2, <2>3
<1> QED
    BY <1>8, <1>9, <1>10 DEF FileInv

\* The initial states satisfy the files' invariant ...
LEMMA InitFile ==
    ASSUME ~ RelativeDir, Init
    PROVE  FileInv
<1>1. BaseInv /\ running = [n \in Names |-> None]
    BY InitBase DEF Init
<1>2. ASSUME NEW a \in Actors
      PROVE  TextOK(a)
    <2>1. CASE a # Main
        BY <2>1, NoJobType DEF Init, TextOK, AsWatched, AtManager
    <2>2. CASE a = Main
        <3>1. /\ pc[a] = "next" /\ job[a] = [NoJob EXCEPT !.op = "boot", !.todo = {w \in LoadedWork : w.cf # None}]
            BY <1>2, <2>2 DEF Init
        <3>2. job[a].todo \subseteq LoadedWork /\ job[a].path = None
            BY <3>1 DEF NoJob
        <3>3. ASSUME NEW w \in LoadedWork
              PROVE  AsWatched(w.path) /\ ItemMatches(w)
            <4>1. PICK f \in Paths : IsConfig(disk[f]) /\ w = Work(f)
                BY DEF LoadedWork
            <4>2. w.path = Listed(f)
                BY <4>1 DEF Work
            <4> QED
                BY <1>1, <4>1, <4>2, WorkMatches, ListedAsWatched
        <3> QED
            BY <3>1, <3>2, <3>3 DEF TextOK, AsWatched, AtManager
    <2> QED
        BY <2>1, <2>2
<1> QED
    BY <1>1, <1>2 DEF FileInv, RunOK

\* ... and every step keeps it, when paths are spelled as the watcher spells them.
LEMMA NextFile ==
    ASSUME ~ RelativeDir, BaseInv, FileInv, [Next]_vars
    PROVE  FileInv'
<1>1. CASE WatcherStep
    BY <1>1, WatcherBase, WatcherCalm, NobodyMovesOK DEF BaseMove, Rests
<1>2. ASSUME NEW f \in Paths, NEW text \in Texts, Edit(f, text)
      PROVE  FileInv'
    <2>1. BaseMove /\ Rests /\ WriteFile(f, text) /\ UNCHANGED <<watchVars, overlapped, running>>
        BY <1>2, EditBase DEF Edit
    <2> QED
        BY <2>1, WritingCalm, NobodyMovesOK DEF BaseMove, Rests
<1>3. CASE Watch
    <2>1. /\ NamesKept /\ UNCHANGED <<fileVars, pending, emitting, out, overlapped, running>>
          /\ Main \in Actors /\ Only(Main) /\ pc[Main] = "watch" /\ pc'[Main] = "consume"
          /\ job'[Main] = job[Main]
        BY <1>3, WatchBase, JobFields DEF BaseMove, Watch, Goto, Only, Actors, BaseInv
    <2>2. \A f \in Paths : Calm(f)
        BY <2>1, ElsewhereCalm
    <2>3. TextOK(Main)'
        BY <2>1, <2>2, TextStaysOK DEF FileInv, AtManager, CalmFor
    <2> QED
        BY <2>1, <2>2, <2>3, OthersOK
<1>4. CASE UNCHANGED vars \/ SweepIptables \/ \E n \in Names : FlushIptables(n)
    <2>1. UNCHANGED <<fileVars, pending, emitting, out, overlapped, running, pc, job>>
        BY <1>4 DEF vars, SweepIptables, FlushIptables, watchVars
    <2> QED
        BY <2>1, FilesStay, ElsewhereCalm, NobodyMovesOK
<1> QED
    BY <1>1, <1>2, <1>3, <1>4, NextCases, ConsumeFile, StepFile, RequestedFile

\* With an absolute -proxies directory, Enable and Disable undo no edit of a file
\* that has reached the manager (routes.go 236-284): what they are about to write
\* differs from the file by the switch only, unless news of the file is under way,
\* it does not parse, or its proxy has been set apart from it.
THEOREM ToggleKeeps ==
    ASSUME ~ RelativeDir
    PROVE  Spec => ToggleKeepsAppliedEdits
<1>1. Init => BaseInv /\ FileInv
    BY InitBase, InitFile
<1>2. BaseInv /\ FileInv /\ [Next]_vars => BaseInv' /\ FileInv'
    BY NextBase, NextFile
<1>3. BaseInv /\ FileInv => 
        \A h \in Handlers : pc[h] = "save" /\ job[h].op = "toggle" =>
            LET f == job[h].path.file IN
            \/ SameButSwitch(job[h].save, disk[f])
            \/ disk[f] = Broken \/ InFlight(f) \/ Excused(f)
    <2> SUFFICES ASSUME BaseInv, FileInv,
                        NEW h \in Handlers, pc[h] = "save", job[h].op = "toggle",
                        NEW f, f = job[h].path.file,
                        disk[f] # Broken, ~ InFlight(f), ~ Excused(f)
                 PROVE  SameButSwitch(job[h].save, disk[f])
        OBVIOUS
    <2>1. Seen(f)
        BY DEF Seen, IsConfig, UpdateComing, RemovalComing, Queued, Update, Removal, InFlight
    <2> QED
        BY <2>1 DEF FileInv, TextOK, Matches, Settled, Actors
<1>4. BaseInv /\ FileInv /\ [Next]_vars =>
        [\A h \in Handlers :
            pc[h] = "save" /\ pc'[h] = "stop" /\ job[h].op = "toggle" =>
                LET f == job[h].path.file IN
                \/ SameButSwitch(job[h].save, disk[f])
                \/ disk[f] = Broken \/ InFlight(f) \/ Excused(f)]_vars
    BY <1>3
<1> QED
    BY <1>1, <1>2, <1>4, PTL DEF Spec, ToggleKeepsAppliedEdits

\* With an absolute -proxies directory, a proxy whose file has been deleted is not
\* running once the watcher and everybody else is done (docs/API.md 494).
THEOREM DeletedStops ==
    ASSUME ~ RelativeDir
    PROVE  Spec => []DeletedFileStopsProxy
<1>1. Init => BaseInv /\ FileInv
    BY InitBase, InitFile
<1>2. BaseInv /\ FileInv /\ [Next]_vars => BaseInv' /\ FileInv'
    BY NextBase, NextFile
<1>3. BaseInv /\ FileInv => DeletedFileStopsProxy
    <2> SUFFICES ASSUME BaseInv, FileInv,
                        NEW f \in Paths, disk[f] = None, ~ InFlight(f), ~ Excused(f),
                        \A a \in Actors : Touches(a) = {},
                        NEW n \in Names, running[n] # None, running[n].path.file = f
                 PROVE  FALSE
        BY DEF DeletedFileStopsProxy
    <2>1. Settled(f)
        BY DEF Settled, Seen, RemovalComing, Queued, Removal, InFlight
    <2>2. ~ AboutToStop(n)
        BY StopAtName DEF AboutToStop
    <2>3. SameButSwitch(running[n].cf, None)
        BY <2>1, <2>2 DEF FileInv, RunOK, Matches
    <2> QED
        BY <2>3 DEF SameButSwitch, IsConfig
<1> QED
    BY <1>1, <1>2, <1>3, PTL DEF Spec

=============================================================================
