-------------------------- MODULE MCFilterPipeline --------------------------
(* The filter processor and the account sink for TLC. *)
EXTENDS FilterPipeline

\* Iteration order of a HashMap that holds these two names.
MCRank == [p \in Properties |-> IF p = "accountType" THEN 1 ELSE 2]

Input(id, selected, properties) ==
    [id |-> id, selected |-> selected, properties |-> properties]

\* One message for every way through the two applications.
MCInputs ==
    {Input(id, TRUE, properties) : id \in Ids, properties \in SUBSET Properties}
    \cup {Input(id, FALSE, {"accountType"}) : id \in Ids}
    \cup {Input(NotJson, TRUE, {"accountType"})}
=============================================================================
