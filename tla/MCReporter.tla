------------------------------ MODULE MCReporter ------------------------------
(* Instances of Reporter.                                                   *)
EXTENDS Reporter

CONSTANTS d1, a1, a2, x1, issue

\* A destination provisioning named, and one the configuration alone names.
OneAndDefault == {[did |-> d1, address |-> a1], [did |-> NoDID, address |-> a2]}

\* The same, and a second endpoint without an identifier: the element's
\* report is about both of them.
OneAndDefaults == OneAndDefault \cup {[did |-> NoDID, address |-> a1]}

\* Sites that report under the watcher's own element key and about a task.
SharedKeys == {elementKey, [scope |-> "task", id |-> x1, condition |-> issue]}

NoEvents == {}
=============================================================================
