----------------------------- MODULE QueryPage ------------------------------
(***************************************************************************)
(* The query browser (jms-query-browser): the page on which a user queries *)
(* the queue of accounts, and QueryController, which browses the queue for *)
(* it.  The page's submit handler resets the page, posts the selector and  *)
(* shows what comes back, a table or an error, whenever it comes: queries  *)
(* that overlap are answered in any order and nothing cancels one.  The    *)
(* queue changes while it is browsed.  The page's style sheet is that of   *)
(* StyleBuild.                                                             *)
(***************************************************************************)
EXTENDS AccountQueue

CONSTANTS
    Selectors,      \* selectors of the user
    Selected,       \* selector -> accounts that it matches
    Invalid,        \* selectors that createBrowser refuses
    MaxQueries,     \* bound: queries submitted
    MaxFaults       \* bound: requests that get no answer

ASSUME QueryAssumption ==
    /\ Selected \in [Selectors -> SUBSET Accounts]
    /\ Invalid \subseteq Selectors
    /\ MaxQueries \in Nat \ {0}
    /\ MaxFaults \in Nat

VARIABLES
    queries,    \* the queries submitted, in order
    page,       \* [rows, accounts, recordCount, alert]: what the page shows
    loaded,     \* the body of the page has been parsed
    burst,      \* queries submitted since no query was waited for
    faults,
    builds, building, compiler, collected, sheet

Positions == 1 .. MaxSends

\* always, ever: messages in the queue all the time, at any time, from the
\* submission until the browsing ends (history, until the answer is shown)
Queries ==
    [selector : Selectors,
     state : {"posted", "browsing", "answered", "failed", "shown", "rejected"},
     last : 0 .. MaxSends, answer : SUBSET Positions,
     always : SUBSET Positions, ever : SUBSET Positions]

\* What resultsBody holds: the text of a page just loaded, of one that waits,
\* of an error or of an empty answer, or the rows of an answer.
Bodies == {"initial", "querying", "failed", "none", "rows"}

\* The classes of the page; a row has classes that depend on its account's status.
ClassNames == {"frame", "hidden", "alert"} \cup Bodies \cup Accounts

Classes ==
    IF ~loaded THEN {}
    ELSE {"frame", page.rows, IF page.alert THEN "alert" ELSE "hidden"}
            \cup {sent[i] : i \in page.accounts}

Style == INSTANCE StyleBuild WITH classes <- Classes

styleVars == <<builds, building, compiler, collected, sheet>>
jms == <<sent, queue>>
vars == <<jms, queries, page, loaded, burst, faults, styleVars>>

Active(q) == queries[q].state \in {"posted", "browsing"}
Waiting == {q \in DOMAIN queries : queries[q].state \notin {"shown", "rejected"}}

TypeOK ==
    /\ QueueTypeOK
    /\ queries \in Seq(Queries) /\ Len(queries) <= MaxQueries
    /\ page \in [rows : Bodies, accounts : SUBSET Positions, recordCount : 0 .. MaxSends,
                 alert : BOOLEAN]
    /\ loaded \in BOOLEAN
    /\ burst \subseteq DOMAIN queries
    /\ faults \in 0 .. MaxFaults
    /\ Style!StyleTypeOK

Init ==
    /\ QueueInit
    /\ queries = <<>>
    /\ page = [rows |-> "initial", accounts |-> {}, recordCount |-> 0, alert |-> FALSE]
    /\ loaded = FALSE
    /\ burst = {}
    /\ faults = 0
    /\ Style!StyleInit

\* What remains of a query that has failed or is over.
Over(q, state, answer) ==
    [queries[q] EXCEPT !.state = state, !.answer = answer, !.last = 0, !.always = {}, !.ever = {}]

-----------------------------------------------------------------------------
(* The queue, and what queries that browse it could see *)

Send(a) ==
    /\ SendAccount(a)
    /\ queries' = [q \in DOMAIN queries |->
                    IF Active(q) THEN [queries[q] EXCEPT !.ever = @ \cup queue'] ELSE queries[q]]
    /\ UNCHANGED <<page, loaded, burst, faults, styleVars>>

Take(i) ==
    /\ Consume(i)
    /\ queries' = [q \in DOMAIN queries |->
                    IF Active(q) THEN [queries[q] EXCEPT !.always = @ \cap queue'] ELSE queries[q]]
    /\ UNCHANGED <<page, loaded, burst, faults, styleVars>>

-----------------------------------------------------------------------------
(* QueryController.query *)

CreateBrowser(q) ==
    /\ queries[q].state = "posted"
    /\ queries' = [queries EXCEPT ![q] =
                    IF queries[q].selector \in Invalid THEN Over(q, "failed", {})
                    ELSE [@ EXCEPT !.state = "browsing"]]
    /\ UNCHANGED <<jms, page, loaded, burst, faults, styleVars>>

\* The messages that the enumeration has still to come to.
Ahead(q) ==
    {i \in queue : i > queries[q].last /\ sent[i] \in Selected[queries[q].selector]}

\* Faulty: counts what it has read and goes on after that many.
NextElementByCount(q) ==
    /\ queries[q].state = "browsing"
    /\ \E i \in Ahead(q) :
          /\ \A j \in Ahead(q) : i <= j
          /\ queries' = [queries EXCEPT ![q].last = Cardinality({j \in queue : j <= i}),
                                        ![q].answer = @ \cup {i}]
    /\ UNCHANGED <<jms, page, loaded, burst, faults, styleVars>>

NextElement(q) ==
    /\ queries[q].state = "browsing"
    /\ \E i \in Ahead(q) :
          /\ \A j \in Ahead(q) : i <= j
          /\ queries' = [queries EXCEPT ![q].last = i, ![q].answer = @ \cup {i}]
    /\ UNCHANGED <<jms, page, loaded, burst, faults, styleVars>>

\* Faulty: stops at the first message that does not match.
NoMoreElementsEarly(q) ==
    /\ queries[q].state = "browsing"
    /\ \A i \in Ahead(q) : i > queries[q].last + 1
    /\ queries' = [queries EXCEPT ![q].state = "answered"]
    /\ UNCHANGED <<jms, page, loaded, burst, faults, styleVars>>

NoMoreElements(q) ==
    /\ queries[q].state = "browsing"
    /\ Ahead(q) = {}
    /\ queries' = [queries EXCEPT ![q].state = "answered"]
    /\ UNCHANGED <<jms, page, loaded, burst, faults, styleVars>>

-----------------------------------------------------------------------------
(* The page *)

\* The parser adds the body.
Load ==
    /\ ~loaded
    /\ loaded' = TRUE
    /\ Style!Observe
    /\ UNCHANGED <<jms, queries, page, burst, faults>>

Posted(s) ==
    [selector |-> s, state |-> "posted", last |-> 0, answer |-> {},
     always |-> queue, ever |-> queue]

\* Faulty: leaves the alert of an earlier query.
SubmitKeepsAlert(s) ==
    /\ loaded
    /\ Len(queries) < MaxQueries
    /\ queries' = Append(queries, Posted(s))
    /\ burst' = {Len(queries')} \cup (IF Waiting = {} THEN {} ELSE burst)
    /\ page' = [page EXCEPT !.rows = "querying", !.accounts = {}]
    /\ Style!Observe
    /\ UNCHANGED <<jms, loaded, faults>>

\* The submit handler, up to its await.
Submit(s) ==
    /\ loaded
    /\ Len(queries) < MaxQueries
    /\ queries' = Append(queries, Posted(s))
    /\ burst' = {Len(queries')} \cup (IF Waiting = {} THEN {} ELSE burst)
    /\ page' = [page EXCEPT !.rows = "querying", !.accounts = {}, !.alert = FALSE]
    /\ Style!Observe
    /\ UNCHANGED <<jms, loaded, faults>>

\* The request or its answer is lost and fetch rejects.
LoseRequest(q) ==
    /\ faults < MaxFaults
    /\ faults' = faults + 1
    /\ queries[q].state \in {"posted", "browsing", "answered"}
    /\ queries' = [queries EXCEPT ![q] = Over(q, "failed", {})]
    /\ UNCHANGED <<jms, page, loaded, burst, styleVars>>

\* Faulty: renders without looking at the number of records.
RenderTableAlways(q) ==
    /\ queries[q].state = "answered"
    /\ queries' = [queries EXCEPT ![q] = Over(q, "shown", queries[q].answer)]
    /\ page' = [page EXCEPT !.rows = "rows", !.accounts = queries[q].answer]
    /\ Style!Observe
    /\ UNCHANGED <<jms, loaded, burst, faults>>

\* The handler after its awaits: renderTable ...
RenderTable(q) ==
    /\ queries[q].state = "answered"
    /\ queries' = [queries EXCEPT ![q] = Over(q, "shown", queries[q].answer)]
    /\ page' = [page EXCEPT !.rows = IF queries[q].answer = {} THEN "none" ELSE "rows",
                            !.accounts = queries[q].answer,
                            !.recordCount = Cardinality(queries[q].answer)]
    /\ Style!Observe
    /\ UNCHANGED <<jms, loaded, burst, faults>>

\* Faulty: an error is only logged.
ShowErrorNot(q) ==
    /\ queries[q].state = "failed"
    /\ UNCHANGED vars

\* ... or the error.
ShowError(q) ==
    /\ queries[q].state = "failed"
    /\ queries' = [queries EXCEPT ![q].state = "rejected"]
    /\ page' = [rows |-> "failed", accounts |-> {}, recordCount |-> 0, alert |-> TRUE]
    /\ Style!Observe
    /\ UNCHANGED <<jms, loaded, burst, faults>>

Script == Style!StyleNext /\ UNCHANGED <<jms, queries, page, loaded, burst, faults>>

-----------------------------------------------------------------------------
Answer(q) ==
    \/ CreateBrowser(q) \/ NextElement(q) \/ NoMoreElements(q)
    \/ RenderTable(q) \/ ShowError(q)

Next ==
    \/ \E a \in Accounts : Send(a)
    \/ \E i \in queue : Take(i)
    \/ \E q \in DOMAIN queries : Answer(q) \/ LoseRequest(q)
    \/ Load
    \/ \E s \in Selectors : Submit(s)
    \/ Script

Spec == Init /\ [][Next]_vars

FairSpec ==
    /\ Spec
    /\ WF_vars(Load) /\ WF_vars(Script)
    /\ \A q \in 1 .. MaxQueries : WF_vars(q \in DOMAIN queries /\ Answer(q))

-----------------------------------------------------------------------------
(* Properties *)

\* The table or the error on the page is what came of the query.
Shows(q) ==
    \/ /\ queries[q].state = "shown"
       /\ page.rows = IF queries[q].answer = {} THEN "none" ELSE "rows"
       /\ page.accounts = queries[q].answer
       /\ page.recordCount = Cardinality(queries[q].answer)
    \/ /\ queries[q].state = "rejected"
       /\ page.rows = "failed" /\ page.accounts = {} /\ page.recordCount = 0 /\ page.alert

(***************************************************************************)
(* When every query has come back, the page shows one of those that        *)
(* overlapped, its table, its record count and its error all of the same   *)
(* query, and an alert only if one of them failed.  A query that           *)
(* overlapped with no other is the one shown, with an alert only if it     *)
(* failed itself.  The submit handler gives no more: of queries that       *)
(* overlap any may be shown, and its table may stand below the alert of    *)
(* another.                                                                *)
(***************************************************************************)
PageShowsAQuery ==
    Waiting = {} /\ burst # {} =>
        /\ \E q \in burst : Shows(q)
        /\ page.alert => \E q \in burst : queries[q].state = "rejected"

(***************************************************************************)
(* An answer holds every message that matches the selector and was in the  *)
(* queue from the submission until the browsing ended, and nothing that    *)
(* does not match or was never there meanwhile, although the queue changes *)
(* between two steps of the enumeration.                                   *)
(***************************************************************************)
AnswerMatchesQueue ==
    \A q \in DOMAIN queries :
        LET matching(set) == {i \in set : sent[i] \in Selected[queries[q].selector]}
        IN  queries[q].state = "answered" =>
                /\ matching(queries[q].always) \subseteq queries[q].answer
                /\ queries[q].answer \subseteq matching(queries[q].ever)

(***************************************************************************)
(* The page does not go on saying that it waits for the backend, and what  *)
(* it shows instead is styled in the end.                                  *)
(***************************************************************************)
EveryQueryShown == page.rows = "querying" ~> page.rows # "querying" /\ Style!Styled

\* StyleBuild's property, of this page: no change is lost by the chain of builds.
IdleIsStyled == Style!IdleIsStyled
=============================================================================
