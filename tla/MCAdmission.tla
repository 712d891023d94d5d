---------------------------- MODULE MCAdmission ----------------------------
(* Instances of Admission for TLC. *)
EXTENDS Admission, TLC

CONSTANTS client, w1, w2, host, junk

WorkersAlike == Permutations(Workers)

\* A CIDR that contains the source and a text that is none.
ContainedIn == host :> {client} @@ junk :> {}
Ruled(action) == [default |-> "allow", rules |-> <<[action |-> action, cidr |-> host]>>]
AllowAll == [default |-> "allow", rules |-> <<>>]
DenyHost == Ruled("deny")
Lists1 == {<<[action |-> "deny", cidr |-> junk]>>,
           <<[action |-> "allow", cidr |-> host], [action |-> "deny", cidr |-> host]>>}

With(features) == [x \in {"lists", "global", "l7", "cycling", "inspection", "rate", "scoring"} |->
                    x \in features]
AllSetups == {With({"lists"}), With({"lists", "global"}), With({"l7", "inspection", "scoring"}),
              With({"l7", "cycling", "scoring"}), With({"l7", "rate"})}
RuleScore == [event \in Events |-> IF event = "payload_rate_exceeded" THEN 0 ELSE 1]
=============================================================================
