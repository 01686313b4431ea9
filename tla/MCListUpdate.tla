----------------------------- MODULE MCListUpdate -----------------------------
(* TLC instances of ListUpdate.  The program starts with two sources, of     *)
(* which one may be disabled; the user may add a third one, or one that has  *)
(* the name of an existing source (the dialog does not check).               *)
EXTENDS ListUpdate

CONSTANTS a, b, ua, ub, uc, r1

MCNames == {a, b}
MCURLs == {ua, ub, uc}
MCTwoURLs == {ua, ub}
MCRules == {r1}

Fresh(n, u, on) == [name |-> n, url |-> u, enabled |-> on, synced |-> FALSE, count |-> NoURL]

MCFirstLists == {<<Fresh(a, ua, TRUE), Fresh(b, ub, on)>> : on \in BOOLEAN}
MCOneOff == {<<Fresh(a, ua, TRUE), Fresh(b, ub, FALSE)>>}
MCOneSource == {<<Fresh(a, ua, TRUE)>>}

MCReAdd == {[name |-> b, url |-> ub]}
MCSameName == {[name |-> a, url |-> uc]}

=============================================================================
