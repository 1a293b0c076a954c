------------------------------- MODULE Netstack -------------------------------
(***************************************************************************)
(* What netstack.Manager does to the rules: two scripts install a part     *)
(* each, iptables.sh before dns.sh, and remove it in the other order.  A   *)
(* script that fails may have done its work or not.  The scripts           *)
(* are there: one that is missing counts as already clean.                 *)
(***************************************************************************)
EXTENDS Sequences

Parts == {"iptables", "dns"}
NoRules == [p \in Parts |-> FALSE]
AllRules == [p \in Parts |-> TRUE]
Installed(rules) == rules # NoRules

\* A report: the rules it leaves, whether it has an error, and whether a script
\* that removes rules failed.
Report(rules, ok, dirty) == [rules |-> rules, ok |-> ok, dirty |-> dirty]

\* cleanupInto: both scripts run, whatever the first one answers.
Removed(rules) == {left \in [Parts -> BOOLEAN] : \A p \in Parts : left[p] => rules[p]}
CleanUps(rules) ==
  {Report(NoRules, TRUE, FALSE)} \cup {Report(left, FALSE, TRUE) : left \in Removed(rules)}

\* Apply: a failed clean-up ends it; a script that fails to start its part is
\* followed by another clean-up, and the report keeps the failure.
FailedStart(rules) == {[r EXCEPT !.ok = FALSE] : r \in CleanUps(rules)}
Applies(rules) ==
  {r \in CleanUps(rules) : ~r.ok}
    \cup FailedStart([NoRules EXCEPT !["iptables"] = TRUE])
    \cup FailedStart(AllRules)
    \cup {Report(AllRules, TRUE, FALSE)}

\* Verify: the status of both scripts.
Verifies(rules) ==
  {Report(rules, FALSE, FALSE)} \cup {r \in {Report(rules, TRUE, FALSE)} : rules = AllRules}
=============================================================================
