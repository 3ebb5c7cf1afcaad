--------------------------- MODULE MCPolicyLifecycle ---------------------------
(***************************************************************************)
(* Model values for PolicyLifecycle, on an organization's repository: a    *)
(* form that passes, the same without its native type, one that fails, and *)
(* the board of the repository's own config.json.                          *)
(***************************************************************************)
EXTENDS PolicyLifecycle

MCStatuses == <<"Inbox", "Backlog", "Ready", "In progress", "In review", "Done", "No action">>

Sound   == [body |-> <<"text", "details", "text", "details_end">>, limit |-> 1, owner |-> "none",
            assignees |-> {"ana"}, labels |-> {}, type |-> "Bug", prefixed |-> FALSE]
Untyped == [Sound EXCEPT !.type = "none"]
Flawed  == [Sound EXCEPT !.assignees = {"ana", "bo"}, !.labels = {"type/bug"}]

MCForms == {Sound, Untyped, Flawed}

\* Every body of at most five tags.
MCBodies == UNION {[1..n -> Tags] : n \in 0..5}

================================================================================
