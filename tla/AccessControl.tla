--------------------------- MODULE AccessControl ---------------------------
(***************************************************************************)
(* The access control lists: the pure operators of internal/acl/engine.go. *)
(* An engine is a default action and an ordered sequence of rules; a rule's *)
(* CIDR is abstracted to the set of sources it contains.  Nothing but tests *)
(* calls SetEnabled and SetDefaultAction, so an engine is always enabled.  *)
(***************************************************************************)
EXTENDS Naturals, Sequences, FiniteSetsExt, SequencesExt

CONSTANTS
    Sources,    \* addresses of clients
    CIDRs,      \* the texts of CIDRs in rules
    Within,     \* what each contains: CIDR -> set of sources
    Malformed   \* texts that neither ParseCIDR nor ParseIP accepts

Actions == {"allow", "deny"}
Rule == [action : Actions, cidr : CIDRs]
Engine == [default : Actions, rules : Seq(Rule)]

WithinAssumption ==
    /\ Within \in [CIDRs -> SUBSET Sources]
    /\ Malformed \subseteq CIDRs
    /\ \A c \in Malformed : Within[c] = {}
ASSUME WithinAssumption

\* Check: the first rule that contains the source decides, or the default.
Check(engine, src) ==
    LET matching == {i \in DOMAIN engine.rules : src \in Within[engine.rules[i].cidr]} IN
    IF matching = {} THEN engine.default ELSE engine.rules[Min(matching)].action

\* NewEngine refuses a list with a malformed CIDR, as AddRule refuses one such
\* rule; ReplaceRules keeps it, and it then matches nothing.
NewEngineAccepts(rules) == \A i \in DOMAIN rules : rules[i].cidr \notin Malformed
AddRule(engine, rule) ==
    IF rule.cidr \in Malformed THEN engine ELSE [engine EXCEPT !.rules = Append(@, rule)]
RemoveRule(engine, cidr) ==
    LET filtered[i \in 0 .. Len(engine.rules)] ==
            IF i = 0 THEN <<>>
            ELSE IF engine.rules[i].cidr = cidr THEN filtered[i - 1]
            ELSE Append(filtered[i - 1], engine.rules[i])
    IN [engine EXCEPT !.rules = filtered[Len(engine.rules)]]
ReplaceRules(engine, rules) == [engine EXCEPT !.rules = rules]
=============================================================================
