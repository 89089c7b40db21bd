-------------------------- MODULE QueryPageProofs ---------------------------
(***************************************************************************)
(* Proofs about the query browser, its queue and its style sheet, for any  *)
(* accounts, selectors, number of messages and number of queries.          *)
(***************************************************************************)
EXTENDS QueryPage, FiniteSetTheorems, SequenceTheorems, TLAPS

(***************************************************************************)
(* The inductive invariant: what query r has seen of the queue so far,     *)
(* which has the positions present of the messages, ...                    *)
(***************************************************************************)
Matches(r, messages, i) == messages[i] \in Selected[r.selector]

BrowseInv(r, messages, present) ==
    /\ r.answer \subseteq 1 .. Len(messages)
    /\ r.state = "posted" => r.last = 0
    /\ r.state \in {"posted", "browsing"} =>
          /\ r.always \subseteq present /\ present \subseteq r.ever
          /\ \A i \in r.always : Matches(r, messages, i) /\ i <= r.last => i \in r.answer
    /\ r.state \in {"posted", "browsing", "answered"} =>
          /\ r.always \subseteq 1 .. Len(messages) /\ r.ever \subseteq 1 .. Len(messages)
          /\ \A i \in r.answer : i \in r.ever /\ Matches(r, messages, i)
    /\ r.state = "answered" => \A i \in r.always : Matches(r, messages, i) => i \in r.answer

QueriesInv == \A q \in 1 .. Len(queries) : BrowseInv(queries[q], sent, queue)

\* ... which queries the page may have come from, ...
PageInv ==
    /\ page.accounts \subseteq 1 .. Len(sent)
    /\ Waiting \subseteq burst
    /\ page.alert => \E q \in burst : queries[q].state = "rejected"
    /\ Waiting = {} /\ burst # {} => \E q \in burst : Shows(q)

\* ... and that the chain of builds begins with the only full one, and no build is
\* skipped.
StyleInv ==
    /\ sheet = collected
    /\ ~compiler => collected = {} /\ builds # <<>> /\ builds[1] = "full"
    /\ building # "no" => builds # <<>>
    /\ building = "compile" => ~compiler
    /\ building = "collect" => compiler
    /\ \A i \in 1 .. Len(builds) :
          builds[i] = "full" => i = 1 /\ (compiler => building = "collect")
    /\ builds = <<>> => Classes \subseteq sheet

QueryPageInv == TypeOK /\ QueriesInv /\ PageInv /\ StyleInv

-----------------------------------------------------------------------------
(* The queue under a query *)

LEMMA AppendSeq ==
    ASSUME NEW S, NEW s \in Seq(S), NEW x \in S
    PROVE  /\ Append(s, x) \in Seq(S) /\ Len(s) \in Nat /\ Len(Append(s, x)) = Len(s) + 1
           /\ DOMAIN s = 1 .. Len(s) /\ DOMAIN Append(s, x) = 1 .. (Len(s) + 1)
           /\ Append(s, x)[Len(s) + 1] = x
           /\ \A i \in 1 .. Len(s) : Append(s, x)[i] = s[i]
  OBVIOUS

LEMMA FunctionIsSeq ==
    ASSUME NEW S, NEW n \in Nat, NEW f \in [1 .. n -> S]
    PROVE  f \in Seq(S) /\ Len(f) = n
  OBVIOUS

(* A message is sent. *)
LEMMA BrowseSend ==
    ASSUME NEW r \in Queries, NEW s \in Seq(Accounts), NEW a \in Accounts,
           NEW Q \in SUBSET (1 .. Len(s)), BrowseInv(r, s, Q)
    PROVE  /\ r.state \in {"posted", "browsing"} =>
                 BrowseInv([r EXCEPT !.ever = @ \cup (Q \cup {Len(s) + 1})], Append(s, a),
                           Q \cup {Len(s) + 1})
           /\ r.state \notin {"posted", "browsing"} =>
                 BrowseInv(r, Append(s, a), Q \cup {Len(s) + 1})
<1> DEFINE s2 == Append(s, a)
<1>0. /\ Len(s) \in Nat /\ Len(s2) = Len(s) + 1
      /\ \A i \in 1 .. Len(s) : i \in 1 .. Len(s2) /\ s2[i] = s[i]
      /\ Len(s) + 1 \in 1 .. Len(s2)
  BY AppendSeq
<1> HIDE DEF s2
<1>1. ASSUME r.state \in {"posted", "browsing"}
      PROVE  BrowseInv([r EXCEPT !.ever = @ \cup (Q \cup {Len(s) + 1})], s2,
                       Q \cup {Len(s) + 1})
  <2> DEFINE t == [r EXCEPT !.ever = @ \cup (Q \cup {Len(s) + 1})]
  <2>1. /\ t.selector = r.selector /\ t.state = r.state /\ t.last = r.last
        /\ t.answer = r.answer /\ t.always = r.always
        /\ t.ever = r.ever \cup (Q \cup {Len(s) + 1})
    BY DEF Queries
  <2> HIDE DEF t
  <2>2. BrowseInv(t, s2, Q \cup {Len(s) + 1})
    <3>1. t.answer \subseteq 1 .. Len(s2) /\ (t.state = "posted" => t.last = 0)
      BY <1>0, <2>1 DEF BrowseInv
    <3>2. t.always \subseteq 1 .. Len(s2) /\ t.ever \subseteq 1 .. Len(s2)
      BY <1>0, <1>1, <2>1 DEF BrowseInv
    <3>3. t.always \subseteq Q \cup {Len(s) + 1} /\ Q \cup {Len(s) + 1} \subseteq t.ever
      BY <1>1, <2>1 DEF BrowseInv
    <3>4. \A i \in t.always : Matches(t, s2, i) /\ i <= t.last => i \in t.answer
      BY <1>0, <1>1, <2>1 DEF BrowseInv, Matches
    <3>5. \A i \in t.answer : i \in t.ever /\ Matches(t, s2, i)
      BY <1>0, <1>1, <2>1 DEF BrowseInv, Matches
    <3> QED
      BY <1>1, <2>1, <3>1, <3>2, <3>3, <3>4, <3>5 DEF BrowseInv
  <2> QED
    BY <2>2 DEF t
<1>2. ASSUME r.state \notin {"posted", "browsing"}
      PROVE  BrowseInv(r, s2, Q \cup {Len(s) + 1})
  BY <1>0, <1>2 DEF BrowseInv, Matches
<1> QED
  BY <1>1, <1>2 DEF s2

(* A message is taken. *)
LEMMA BrowseTake ==
    ASSUME NEW r \in Queries, NEW s \in Seq(Accounts), NEW k,
           NEW Q \in SUBSET (1 .. Len(s)), BrowseInv(r, s, Q)
    PROVE  /\ r.state \in {"posted", "browsing"} =>
                 BrowseInv([r EXCEPT !.always = @ \cap (Q \ {k})], s, Q \ {k})
           /\ r.state \notin {"posted", "browsing"} => BrowseInv(r, s, Q \ {k})
<1> USE DEF BrowseInv, Matches
<1>1. ASSUME r.state \in {"posted", "browsing"}
      PROVE  BrowseInv([r EXCEPT !.always = @ \cap (Q \ {k})], s, Q \ {k})
  <2> DEFINE t == [r EXCEPT !.always = @ \cap (Q \ {k})]
  <2>1. /\ t.selector = r.selector /\ t.state = r.state /\ t.last = r.last
        /\ t.answer = r.answer /\ t.ever = r.ever /\ t.always = r.always \cap (Q \ {k})
    BY DEF Queries
  <2> HIDE DEF t
  <2>2. BrowseInv(t, s, Q \ {k})
    BY <1>1, <2>1
  <2> QED
    BY <2>2 DEF t
<1> QED
  BY <1>1

(* The enumeration comes to its next message, the first of those ahead, ... *)
LEMMA BrowseNext ==
    ASSUME NEW r \in Queries, NEW s \in Seq(Accounts), NEW Q \in SUBSET (1 .. Len(s)),
           BrowseInv(r, s, Q), r.state = "browsing", NEW k \in Q,
           k > r.last, Matches(r, s, k),
           \A j \in Q : j > r.last /\ Matches(r, s, j) => k <= j
    PROVE  BrowseInv([r EXCEPT !.last = k, !.answer = @ \cup {k}], s, Q)
<1> DEFINE t == [r EXCEPT !.last = k, !.answer = @ \cup {k}]
<1>1. /\ t.selector = r.selector /\ t.state = r.state /\ t.last = k
      /\ t.answer = r.answer \cup {k} /\ t.ever = r.ever /\ t.always = r.always
  BY DEF Queries
<1>2. r.last \in Nat /\ Len(s) \in Nat
  BY QueueAssumption DEF Queries
<1>3. ASSUME NEW i \in r.always, Matches(r, s, i), i <= k
      PROVE  i \in r.answer \cup {k}
  <2>1. i \in Q
    BY DEF BrowseInv
  <2>2. CASE i <= r.last
    BY <1>3, <2>2 DEF BrowseInv
  <2>3. CASE ~(i <= r.last)
    BY <1>2, <1>3, <2>1, <2>3
  <2> QED
    BY <2>2, <2>3
<1> HIDE DEF t
<1>4. BrowseInv(t, s, Q)
  BY <1>1, <1>3 DEF BrowseInv, Matches
<1> QED
  BY <1>4 DEF t

(* ... or has none to come to. *)
LEMMA BrowseEnd ==
    ASSUME NEW r \in Queries, NEW s \in Seq(Accounts), NEW Q \in SUBSET (1 .. Len(s)),
           BrowseInv(r, s, Q), r.state = "browsing",
           \A j \in Q : ~(j > r.last /\ Matches(r, s, j))
    PROVE  BrowseInv([r EXCEPT !.state = "answered"], s, Q)
<1> DEFINE t == [r EXCEPT !.state = "answered"]
<1>1. /\ t.selector = r.selector /\ t.state = "answered"
      /\ t.answer = r.answer /\ t.ever = r.ever /\ t.always = r.always
  BY DEF Queries
<1>2. r.last \in Nat /\ Len(s) \in Nat
  BY QueueAssumption DEF Queries
<1>3. ASSUME NEW i \in r.always, Matches(r, s, i)
      PROVE  i \in r.answer
  <2>1. i \in Q /\ i \in Nat
    BY <1>2 DEF BrowseInv
  <2> QED
    BY <1>2, <1>3, <2>1 DEF BrowseInv
<1> HIDE DEF t
<1>4. BrowseInv(t, s, Q)
  BY <1>1, <1>3 DEF BrowseInv, Matches
<1> QED
  BY <1>4 DEF t

-----------------------------------------------------------------------------
(* The style sheet *)

(* A change of the page is observed. *)
LEMMA ObserveInv ==
    ASSUME TypeOK, StyleInv, Style!Observe
    PROVE  Style!StyleTypeOK' /\ StyleInv'
<1>1. builds \in Seq(Style!Builds) /\ "incremental" \in Style!Builds
  BY DEF TypeOK, Style!StyleTypeOK, Style!Builds
<1>2. /\ builds' \in Seq(Style!Builds) /\ Len(builds) \in Nat
      /\ Len(builds') = Len(builds) + 1 /\ builds' # <<>>
      /\ builds'[Len(builds) + 1] = "incremental"
      /\ \A i \in 1 .. Len(builds) : builds'[i] = builds[i]
      /\ builds # <<>> => Len(builds) >= 1
  BY <1>1, AppendSeq, EmptySeq DEF Style!Observe
<1>3. Style!StyleTypeOK'
  BY <1>2 DEF TypeOK, Style!StyleTypeOK, Style!Observe
<1>4. ~compiler' => builds'[1] = "full"
  BY <1>2 DEF StyleInv, Style!Observe
<1>5. \A i \in 1 .. Len(builds') :
          builds'[i] = "full" => i = 1 /\ (compiler' => building' = "collect")
  BY <1>2 DEF StyleInv, Style!Observe
<1> QED
  BY <1>2, <1>3, <1>4, <1>5 DEF StyleInv, Style!Observe

(* Neither the page nor the builds change. *)
LEMMA KeepStyle ==
    ASSUME TypeOK, StyleInv, UNCHANGED styleVars, Classes' \subseteq Classes
    PROVE  Style!StyleTypeOK' /\ StyleInv'
  BY DEF TypeOK, StyleInv, styleVars, Style!StyleTypeOK

LEMMA ScriptInv ==
    ASSUME TypeOK, StyleInv, Style!StyleNext, Classes \subseteq ClassNames, Classes' = Classes
    PROVE  Style!StyleTypeOK' /\ StyleInv'
<1>0. /\ builds \in Seq(Style!Builds) /\ Len(builds) \in Nat
      /\ building \in {"no", "compile", "collect"} /\ compiler \in BOOLEAN
      /\ collected \subseteq ClassNames /\ sheet \subseteq ClassNames
  BY DEF TypeOK, Style!StyleTypeOK
<1>1. ASSUME builds # <<>>
      PROVE  /\ Head(builds) = builds[1] /\ Len(builds) >= 1 /\ builds[1] \in Style!Builds
             /\ Tail(builds) \in Seq(Style!Builds) /\ Len(Tail(builds)) = Len(builds) - 1
             /\ \A i \in 1 .. Len(Tail(builds)) : Tail(builds)[i] = builds[i + 1]
  BY <1>0, <1>1, HeadTailProperties
<1>2. CASE Style!BeginBuild
  <2>1. builds # <<>> /\ building = "no"
    BY <1>2 DEF Style!BeginBuild
  <2>2. builds[1] = "full" => ~compiler
    BY <1>1, <2>1 DEF StyleInv
  <2>3. /\ UNCHANGED <<builds, compiler, collected, sheet>>
        /\ \/ building' = "compile" /\ ~compiler
           \/ building' = "collect" /\ compiler /\ builds[1] # "full"
    BY <1>1, <1>2, <2>1, <2>2 DEF Style!BeginBuild, StyleInv
  <2>4. Style!StyleTypeOK'
    BY <1>0, <2>3 DEF Style!StyleTypeOK
  <2> QED
    BY <2>1, <2>3, <2>4 DEF StyleInv
<1>3. CASE Style!CreateCompiler
  <2>1. /\ building = "compile" /\ building' = "collect" /\ compiler' = TRUE
        /\ collected' = {} /\ UNCHANGED <<builds, sheet>>
    BY <1>3 DEF Style!CreateCompiler
  <2>2. Style!StyleTypeOK'
    BY <1>0, <2>1 DEF Style!StyleTypeOK
  <2> QED
    BY <2>1, <2>2 DEF StyleInv
<1>4. CASE Style!Collect
  <2>1. /\ builds # <<>> /\ building = "collect" /\ building' = "no" /\ compiler' = compiler
        /\ collected' = collected \cup Classes /\ builds' = Tail(builds) /\ compiler
        /\ sheet' = collected'
    BY <1>4 DEF Style!Collect, StyleInv
  <2>2. Style!StyleTypeOK'
    BY <1>0, <1>1, <2>1 DEF Style!StyleTypeOK
  <2>3. \A i \in 1 .. Len(builds') : builds'[i] # "full"
    <3> TAKE i \in 1 .. Len(builds')
    <3>1. i + 1 \in 1 .. Len(builds) /\ i + 1 # 1 /\ builds'[i] = builds[i + 1]
      BY <1>0, <1>1, <2>1
    <3> QED
      BY <3>1 DEF StyleInv
  <2> QED
    BY <2>1, <2>2, <2>3 DEF StyleInv
<1> QED
  BY <1>2, <1>3, <1>4 DEF Style!StyleNext

-----------------------------------------------------------------------------
(* The types, and the queries when one of them changes *)

LEMMA QueryTypes ==
    ASSUME TypeOK
    PROVE  /\ queries \in Seq(Queries) /\ Len(queries) \in Nat
           /\ DOMAIN queries = 1 .. Len(queries) /\ burst \subseteq 1 .. Len(queries)
           /\ \A q \in 1 .. Len(queries) : queries[q] \in Queries
           /\ sent \in Seq(Accounts) /\ Len(sent) \in Nat /\ DOMAIN sent = 1 .. Len(sent)
           /\ queue \in SUBSET (1 .. Len(sent)) /\ 1 .. Len(sent) \subseteq Positions
<1>1. /\ queries \in Seq(Queries) /\ sent \in Seq(Accounts)
      /\ queue \subseteq DOMAIN sent /\ burst \subseteq DOMAIN queries /\ Len(sent) <= MaxSends
  BY DEF TypeOK, QueueTypeOK
<1>2. Len(queries) \in Nat /\ DOMAIN queries = 1 .. Len(queries)
  BY <1>1
<1>3. Len(sent) \in Nat /\ DOMAIN sent = 1 .. Len(sent)
  BY <1>1
<1>4. 1 .. Len(sent) \subseteq Positions
  BY <1>1, <1>3, QueueAssumption DEF Positions
<1>5. \A q \in 1 .. Len(queries) : queries[q] \in Queries
  BY <1>1
<1> QED
  BY <1>1, <1>2, <1>3, <1>4, <1>5

LEMMA ClassesTyped ==
    ASSUME TypeOK, PageInv
    PROVE  Classes \subseteq ClassNames
<1>1. page.rows \in Bodies /\ \A i \in page.accounts : sent[i] \in Accounts
  BY QueryTypes DEF TypeOK, PageInv
<1> QED
  BY <1>1 DEF Classes, ClassNames

LEMMA OneQuery ==
    ASSUME TypeOK, QueriesInv, UNCHANGED jms, NEW q \in 1 .. Len(queries), NEW r \in Queries,
           BrowseInv(r, sent, queue), queries' = [queries EXCEPT ![q] = r]
    PROVE  /\ queries' \in Seq(Queries) /\ Len(queries') = Len(queries)
           /\ DOMAIN queries' = 1 .. Len(queries) /\ queries'[q] = r
           /\ \A p \in 1 .. Len(queries) : p # q => queries'[p] = queries[p]
           /\ QueueTypeOK' /\ QueriesInv'
<1>1. /\ queries \in [1 .. Len(queries) -> Queries] /\ Len(queries) \in Nat
  BY QueryTypes
<1>2. /\ queries' \in [1 .. Len(queries) -> Queries] /\ queries'[q] = r
      /\ \A p \in 1 .. Len(queries) : p # q => queries'[p] = queries[p]
  BY <1>1
<1>3. queries' \in Seq(Queries) /\ Len(queries') = Len(queries)
  BY <1>1, <1>2, FunctionIsSeq
<1>4. QueriesInv'
  BY <1>2, <1>3 DEF QueriesInv, jms
<1>5. QueueTypeOK'
  BY DEF TypeOK, QueueTypeOK, jms
<1> QED
  BY <1>2, <1>3, <1>4, <1>5

(* The page stays as it is while no query comes back. *)
LEMMA PageKept ==
    ASSUME TypeOK, PageInv, UNCHANGED <<page, burst>>, DOMAIN queries' = DOMAIN queries,
           \A q \in DOMAIN queries : /\ queries'[q].state = queries[q].state
                                     /\ queries'[q].answer = queries[q].answer,
           1 .. Len(sent) \subseteq 1 .. Len(sent')
    PROVE  PageInv'
<1>1. Waiting' = Waiting
  BY DEF Waiting
<1>2. \A q \in burst : Shows(q) => Shows(q)'
  <2> SUFFICES ASSUME NEW q \in burst, Shows(q) PROVE Shows(q)'
    OBVIOUS
  <2>1. /\ queries'[q].state = queries[q].state /\ queries'[q].answer = queries[q].answer
        /\ page' = page
    BY QueryTypes
  <2> QED
    BY <2>1 DEF Shows
<1>3. page'.alert => \E q \in burst' : queries'[q].state = "rejected"
  BY QueryTypes DEF PageInv
<1> QED
  BY <1>1, <1>2, <1>3 DEF PageInv

-----------------------------------------------------------------------------
(* The steps *)

LEMMA QueryPageInit == Init => QueryPageInv
<1> SUFFICES ASSUME Init PROVE QueryPageInv
  OBVIOUS
<1>1. /\ sent = <<>> /\ queue = {} /\ queries = <<>> /\ loaded = FALSE /\ burst = {} /\ faults = 0
      /\ page = [rows |-> "initial", accounts |-> {}, recordCount |-> 0, alert |-> FALSE]
      /\ builds = <<"full">> /\ building = "no" /\ compiler = FALSE
      /\ collected = {} /\ sheet = {}
  BY DEF Init, QueueInit, Style!StyleInit
<1>2. /\ sent \in Seq(Accounts) /\ Len(sent) = 0 /\ queries \in Seq(Queries) /\ Len(queries) = 0
      /\ DOMAIN queries = {}
  BY <1>1
<1>3. /\ page \in [rows : Bodies, accounts : SUBSET Positions, recordCount : 0 .. MaxSends,
                   alert : BOOLEAN]
  BY <1>1, QueueAssumption DEF Bodies
<1>4. /\ builds \in Seq(Style!Builds) /\ Len(builds) = 1 /\ builds # <<>> /\ builds[1] = "full"
  BY <1>1 DEF Style!Builds
<1>5. Style!StyleTypeOK
  BY <1>1, <1>4 DEF Style!StyleTypeOK
<1>6. TypeOK
  <2>1. QueueTypeOK
    BY <1>1, <1>2, QueueAssumption DEF QueueTypeOK
  <2>2. Len(queries) <= MaxQueries /\ faults \in 0 .. MaxFaults
    BY <1>1, <1>2, QueryAssumption
  <2> QED
    BY <1>1, <1>2, <1>3, <1>5, <2>1, <2>2 DEF TypeOK
<1>7. QueriesInv
  BY <1>2 DEF QueriesInv
<1>8. PageInv
  BY <1>1, <1>2 DEF PageInv, Waiting
<1>9. StyleInv
  BY <1>1, <1>4 DEF StyleInv
<1> QED
  BY <1>6, <1>7, <1>8, <1>9 DEF QueryPageInv

(* A change of the queue, of which the queries that are active keep record. *)
LEMMA QueueStep ==
    ASSUME QueryPageInv, UNCHANGED <<page, loaded, burst, faults, styleVars>>, QueueTypeOK',
           queries' \in [1 .. Len(queries) -> Queries],
           \A q \in 1 .. Len(queries) :
               /\ BrowseInv(queries'[q], sent', queue')
               /\ queries'[q].state = queries[q].state
               /\ queries'[q].answer = queries[q].answer,
           1 .. Len(sent) \subseteq 1 .. Len(sent'),
           \A i \in 1 .. Len(sent) : sent'[i] = sent[i]
    PROVE  QueryPageInv'
<1>1. TypeOK /\ QueriesInv /\ PageInv /\ StyleInv
  BY DEF QueryPageInv
<1>2. /\ DOMAIN queries = 1 .. Len(queries) /\ Len(queries) \in Nat
      /\ burst \subseteq 1 .. Len(queries)
  BY <1>1, QueryTypes
<1>4. queries' \in Seq(Queries) /\ Len(queries') = Len(queries)
  BY <1>2, FunctionIsSeq
<1>5. QueriesInv'
  BY <1>4 DEF QueriesInv
<1>6. PageInv'
  BY <1>1, <1>2, PageKept
<1>7. Classes' \subseteq Classes
  BY <1>1 DEF Classes, PageInv
<1>8. Style!StyleTypeOK' /\ StyleInv'
  BY <1>1, <1>7, KeepStyle
<1>9. TypeOK'
  BY <1>1, <1>2, <1>4, <1>8 DEF TypeOK
<1> QED
  BY <1>5, <1>6, <1>8, <1>9 DEF QueryPageInv

LEMMA SendStep ==
    ASSUME QueryPageInv, NEW a \in Accounts, Send(a)
    PROVE  QueryPageInv'
<1>1. TypeOK /\ QueriesInv
  BY DEF QueryPageInv
<1>2. /\ sent \in Seq(Accounts) /\ Len(sent) \in Nat /\ Len(sent) < MaxSends
      /\ queue \in SUBSET (1 .. Len(sent)) /\ DOMAIN queries = 1 .. Len(queries)
      /\ \A q \in 1 .. Len(queries) : queries[q] \in Queries
  BY <1>1, QueryTypes DEF Send, SendAccount
<1>3. /\ sent' = Append(sent, a) /\ sent' \in Seq(Accounts) /\ Len(sent') = Len(sent) + 1
      /\ DOMAIN sent' = 1 .. (Len(sent) + 1) /\ \A i \in 1 .. Len(sent) : sent'[i] = sent[i]
      /\ queue' = queue \cup {Len(sent) + 1}
  BY <1>2, AppendSeq DEF Send, SendAccount
<1>4. QueueTypeOK' /\ queue' \subseteq Positions /\ 1 .. Len(sent) \subseteq 1 .. Len(sent')
  <2>0. Len(sent) + 1 \in 1 .. (Len(sent) + 1) /\ 1 .. Len(sent) \subseteq 1 .. (Len(sent) + 1)
    BY <1>2
  <2>1. queue' \subseteq 1 .. (Len(sent) + 1)
    BY <1>2, <1>3, <2>0
  <2>2. 1 .. (Len(sent) + 1) \subseteq Positions
    BY <1>2, QueueAssumption DEF Positions
  <2>3. Len(sent') <= MaxSends
    BY <1>2, <1>3, QueueAssumption
  <2> QED
    BY <1>2, <1>3, <2>0, <2>1, <2>2, <2>3 DEF QueueTypeOK
<1>5. /\ UNCHANGED <<page, loaded, burst, faults, styleVars>>
      /\ queries' = [q \in 1 .. Len(queries) |->
                      IF Active(q) THEN [queries[q] EXCEPT !.ever = @ \cup queue'] ELSE queries[q]]
  BY <1>2 DEF Send
<1>6. ASSUME NEW q \in 1 .. Len(queries)
      PROVE  /\ queries'[q] \in Queries /\ BrowseInv(queries'[q], sent', queue')
             /\ queries'[q].state = queries[q].state /\ queries'[q].answer = queries[q].answer
  <2>1. queries[q] \in Queries /\ BrowseInv(queries[q], sent, queue)
    BY <1>1, <1>2 DEF QueriesInv
  <2>2. CASE Active(q)
    <3>1. queries'[q] = [queries[q] EXCEPT !.ever = @ \cup queue']
      BY <1>5, <2>2
    <3>2. BrowseInv(queries'[q], sent', queue')
      BY <1>2, <1>3, <2>1, <2>2, <3>1, BrowseSend DEF Active
    <3> QED
      BY <1>4, <2>1, <3>1, <3>2 DEF Queries
  <2>3. CASE ~Active(q)
    BY <1>2, <1>3, <1>5, <2>1, <2>3, BrowseSend DEF Active
  <2> QED
    BY <2>2, <2>3
<1>7. queries' \in [1 .. Len(queries) -> Queries]
  BY <1>5, <1>6
<1> QED
  BY <1>3, <1>4, <1>5, <1>6, <1>7, QueueStep

LEMMA TakeStep ==
    ASSUME QueryPageInv, NEW k \in queue, Take(k)
    PROVE  QueryPageInv'
<1>1. TypeOK /\ QueriesInv
  BY DEF QueryPageInv
<1>2. /\ sent \in Seq(Accounts) /\ Len(sent) \in Nat
      /\ queue \in SUBSET (1 .. Len(sent)) /\ DOMAIN queries = 1 .. Len(queries)
      /\ \A q \in 1 .. Len(queries) : queries[q] \in Queries
  BY <1>1, QueryTypes
<1>3. sent' = sent /\ queue' = queue \ {k}
  BY DEF Take, Consume
<1>4. QueueTypeOK'
  BY <1>1, <1>3 DEF TypeOK, QueueTypeOK
<1>5. /\ UNCHANGED <<page, loaded, burst, faults, styleVars>>
      /\ queries' = [q \in 1 .. Len(queries) |->
                      IF Active(q) THEN [queries[q] EXCEPT !.always = @ \cap queue'] ELSE queries[q]]
  BY <1>2 DEF Take
<1>6. ASSUME NEW q \in 1 .. Len(queries)
      PROVE  /\ queries'[q] \in Queries /\ BrowseInv(queries'[q], sent', queue')
             /\ queries'[q].state = queries[q].state /\ queries'[q].answer = queries[q].answer
  <2>1. queries[q] \in Queries /\ BrowseInv(queries[q], sent, queue)
    BY <1>1, <1>2 DEF QueriesInv
  <2>2. CASE Active(q)
    <3>1. queries'[q] = [queries[q] EXCEPT !.always = @ \cap queue']
      BY <1>5, <2>2
    <3>2. BrowseInv([queries[q] EXCEPT !.always = @ \cap (queue \ {k})], sent, queue \ {k})
      BY <1>2, <2>1, <2>2, BrowseTake DEF Active
    <3>3. BrowseInv(queries'[q], sent', queue')
      BY <1>3, <3>1, <3>2
    <3> QED
      BY <2>1, <3>1, <3>3 DEF Queries
  <2>3. CASE ~Active(q)
    BY <1>2, <1>3, <1>5, <2>1, <2>3, BrowseTake DEF Active
  <2> QED
    BY <2>2, <2>3
<1>7. queries' \in [1 .. Len(queries) -> Queries]
  BY <1>5, <1>6
<1> QED
  BY <1>3, <1>4, <1>5, <1>6, <1>7, QueueStep

(* One step of a query that is waited for after it too. *)
LEMMA StillWaiting ==
    ASSUME QueryPageInv, UNCHANGED <<jms, page, loaded, burst, styleVars>>,
           faults' \in 0 .. MaxFaults,
           NEW q \in 1 .. Len(queries), queries[q].state \notin {"shown", "rejected"},
           NEW r \in Queries, r.state \notin {"shown", "rejected"},
           BrowseInv(r, sent, queue), queries' = [queries EXCEPT ![q] = r]
    PROVE  QueryPageInv'
<1>1. TypeOK /\ QueriesInv /\ PageInv /\ StyleInv
  BY DEF QueryPageInv
<1>2. /\ queries' \in Seq(Queries) /\ Len(queries') = Len(queries)
      /\ DOMAIN queries' = 1 .. Len(queries) /\ queries'[q] = r
      /\ \A p \in 1 .. Len(queries) : p # q => queries'[p] = queries[p]
      /\ QueueTypeOK' /\ QueriesInv'
  BY <1>1, OneQuery
<1>3. DOMAIN queries = 1 .. Len(queries) /\ burst \subseteq 1 .. Len(queries)
  BY <1>1, QueryTypes
<1>4. Waiting' = Waiting /\ q \in Waiting
  BY <1>2, <1>3 DEF Waiting
<1>5. page.alert => \E p \in burst : queries'[p].state = "rejected"
  BY <1>1, <1>2, <1>3 DEF PageInv
<1>6. PageInv'
  BY <1>1, <1>4, <1>5 DEF PageInv, jms
<1>7. Classes' = Classes
  BY DEF Classes, jms
<1>8. Style!StyleTypeOK' /\ StyleInv'
  BY <1>1, <1>7, KeepStyle
<1>9. TypeOK'
  BY <1>1, <1>2, <1>3, <1>8 DEF TypeOK
<1> QED
  BY <1>2, <1>6, <1>8, <1>9 DEF QueryPageInv

(* The step that shows a query. *)
LEMMA NowShown ==
    ASSUME QueryPageInv, UNCHANGED <<jms, loaded, burst, faults>>, Style!Observe,
           NEW q \in 1 .. Len(queries), queries[q].state \notin {"shown", "rejected"},
           NEW r \in Queries, r.state \in {"shown", "rejected"},
           BrowseInv(r, sent, queue), queries' = [queries EXCEPT ![q] = r],
           page' \in [rows : Bodies, accounts : SUBSET Positions, recordCount : 0 .. MaxSends,
                      alert : BOOLEAN],
           page'.accounts \subseteq 1 .. Len(sent), Shows(q)',
           page'.alert => page.alert \/ r.state = "rejected"
    PROVE  QueryPageInv'
<1>1. TypeOK /\ QueriesInv /\ PageInv /\ StyleInv
  BY DEF QueryPageInv
<1>2. /\ queries' \in Seq(Queries) /\ Len(queries') = Len(queries)
      /\ DOMAIN queries' = 1 .. Len(queries) /\ queries'[q] = r
      /\ \A p \in 1 .. Len(queries) : p # q => queries'[p] = queries[p]
      /\ QueueTypeOK' /\ QueriesInv'
  BY <1>1, OneQuery
<1>3. DOMAIN queries = 1 .. Len(queries) /\ burst \subseteq 1 .. Len(queries)
  BY <1>1, QueryTypes
<1>4. Waiting' \subseteq Waiting /\ q \in Waiting
  BY <1>2, <1>3 DEF Waiting
<1>5. q \in burst' /\ Waiting' \subseteq burst'
  BY <1>1, <1>4 DEF PageInv
<1>6. page'.alert => \E p \in burst' : queries'[p].state = "rejected"
  <2> SUFFICES ASSUME page'.alert PROVE \E p \in burst' : queries'[p].state = "rejected"
    OBVIOUS
  <2>1. CASE r.state = "rejected"
    BY <1>2, <1>5, <2>1
  <2>2. CASE page.alert
    <3>1. PICK p \in burst : queries[p].state = "rejected"
      BY <1>1, <2>2 DEF PageInv
    <3>2. p # q /\ p \in 1 .. Len(queries)
      BY <1>3, <3>1
    <3> QED
      BY <1>2, <3>1, <3>2
  <2> QED
    BY <2>1, <2>2
<1>7. PageInv'
  BY <1>5, <1>6 DEF PageInv, jms
<1>8. Style!StyleTypeOK' /\ StyleInv'
  BY <1>1, ObserveInv
<1>9. TypeOK'
  BY <1>1, <1>2, <1>3, <1>8 DEF TypeOK
<1> QED
  BY <1>2, <1>7, <1>8, <1>9 DEF QueryPageInv

(* The query that comes back, and what is left of it. *)
LEMMA OverInv ==
    ASSUME QueryPageInv, NEW q \in 1 .. Len(queries), NEW state \in {"failed", "shown"},
           NEW answer \in SUBSET (1 .. Len(sent))
    PROVE  /\ Over(q, state, answer) \in Queries
           /\ Over(q, state, answer).state = state /\ Over(q, state, answer).answer = answer
           /\ BrowseInv(Over(q, state, answer), sent, queue)
<1>1. queries[q] \in Queries /\ answer \subseteq Positions
  BY QueryTypes DEF QueryPageInv
<1>2. 0 \in 0 .. MaxSends
  BY QueueAssumption
<1>3. /\ Over(q, state, answer) \in Queries
      /\ Over(q, state, answer).state = state /\ Over(q, state, answer).answer = answer
  BY <1>1, <1>2 DEF Over, Queries
<1>4. BrowseInv(Over(q, state, answer), sent, queue)
  BY <1>3 DEF BrowseInv
<1> QED
  BY <1>3, <1>4

LEMMA CreateBrowserStep ==
    ASSUME QueryPageInv, NEW q \in 1 .. Len(queries), CreateBrowser(q)
    PROVE  QueryPageInv'
<1>1. TypeOK /\ QueriesInv
  BY DEF QueryPageInv
<1>2. /\ queries[q].state = "posted" /\ queries[q] \in Queries
      /\ BrowseInv(queries[q], sent, queue)
      /\ UNCHANGED <<jms, page, loaded, burst, faults, styleVars>>
  BY <1>1, QueryTypes DEF CreateBrowser, QueriesInv
<1>3. faults' \in 0 .. MaxFaults
  BY <1>1, <1>2 DEF TypeOK
<1>4. CASE queries[q].selector \in Invalid
  <2> DEFINE r == Over(q, "failed", {})
  <2>1. queries' = [queries EXCEPT ![q] = r]
    BY <1>4 DEF CreateBrowser
  <2>2. r \in Queries /\ r.state = "failed" /\ BrowseInv(r, sent, queue)
    BY OverInv
  <2> HIDE DEF r
  <2> QED
    BY <1>2, <1>3, <2>1, <2>2, StillWaiting
<1>5. CASE queries[q].selector \notin Invalid
  <2> DEFINE r == [queries[q] EXCEPT !.state = "browsing"]
  <2>1. queries' = [queries EXCEPT ![q] = r]
    BY <1>5 DEF CreateBrowser
  <2>2. /\ r \in Queries /\ r.state = "browsing" /\ r.selector = queries[q].selector
        /\ r.last = queries[q].last /\ r.answer = queries[q].answer
        /\ r.always = queries[q].always /\ r.ever = queries[q].ever
    BY <1>2 DEF Queries
  <2> HIDE DEF r
  <2>3. BrowseInv(r, sent, queue)
    BY <1>2, <2>2 DEF BrowseInv, Matches
  <2> QED
    BY <1>2, <1>3, <2>1, <2>2, <2>3, StillWaiting
<1> QED
  BY <1>4, <1>5

LEMMA NextElementStep ==
    ASSUME QueryPageInv, NEW q \in 1 .. Len(queries), NextElement(q)
    PROVE  QueryPageInv'
<1>1. TypeOK /\ QueriesInv
  BY DEF QueryPageInv
<1>2. /\ queries[q].state = "browsing" /\ queries[q] \in Queries
      /\ BrowseInv(queries[q], sent, queue)
      /\ UNCHANGED <<jms, page, loaded, burst, faults, styleVars>>
  BY <1>1, QueryTypes DEF NextElement, QueriesInv
<1>3. faults' \in 0 .. MaxFaults
  BY <1>1, <1>2 DEF TypeOK
<1>4. PICK k \in Ahead(q) :
          /\ \A j \in Ahead(q) : k <= j
          /\ queries' = [queries EXCEPT ![q].last = k, ![q].answer = @ \cup {k}]
  BY DEF NextElement
<1>5. /\ k \in queue /\ k > queries[q].last /\ Matches(queries[q], sent, k)
      /\ \A j \in queue : j > queries[q].last /\ Matches(queries[q], sent, j) => k <= j
  BY <1>4 DEF Ahead, Matches
<1>6. /\ sent \in Seq(Accounts) /\ queue \in SUBSET (1 .. Len(sent))
      /\ k \in Positions /\ k \in 0 .. MaxSends
      /\ queries \in [1 .. Len(queries) -> Queries]
  BY <1>1, <1>5, QueryTypes DEF Positions
<1> DEFINE r == [queries[q] EXCEPT !.last = k, !.answer = @ \cup {k}]
<1>7. queries' = [queries EXCEPT ![q] = r]
  BY <1>4, <1>6
<1>8. r \in Queries /\ r.state = "browsing"
  BY <1>2, <1>6 DEF Queries
<1>9. BrowseInv(r, sent, queue)
  BY <1>2, <1>5, <1>6, BrowseNext
<1> HIDE DEF r
<1> QED
  BY <1>2, <1>3, <1>7, <1>8, <1>9, StillWaiting

LEMMA NoMoreElementsStep ==
    ASSUME QueryPageInv, NEW q \in 1 .. Len(queries), NoMoreElements(q)
    PROVE  QueryPageInv'
<1>1. TypeOK /\ QueriesInv
  BY DEF QueryPageInv
<1>2. /\ queries[q].state = "browsing" /\ queries[q] \in Queries
      /\ BrowseInv(queries[q], sent, queue)
      /\ UNCHANGED <<jms, page, loaded, burst, faults, styleVars>>
  BY <1>1, QueryTypes DEF NoMoreElements, QueriesInv
<1>3. faults' \in 0 .. MaxFaults
  BY <1>1, <1>2 DEF TypeOK
<1>4. \A j \in queue : ~(j > queries[q].last /\ Matches(queries[q], sent, j))
  BY DEF NoMoreElements, Ahead, Matches
<1>5. /\ sent \in Seq(Accounts) /\ queue \in SUBSET (1 .. Len(sent))
      /\ queries \in [1 .. Len(queries) -> Queries]
  BY <1>1, QueryTypes
<1> DEFINE r == [queries[q] EXCEPT !.state = "answered"]
<1>6. queries' = [queries EXCEPT ![q] = r]
  BY <1>5 DEF NoMoreElements
<1>7. r \in Queries /\ r.state = "answered"
  BY <1>2 DEF Queries
<1>8. BrowseInv(r, sent, queue)
  BY <1>2, <1>4, <1>5, BrowseEnd
<1> HIDE DEF r
<1> QED
  BY <1>2, <1>3, <1>6, <1>7, <1>8, StillWaiting

LEMMA LoseRequestStep ==
    ASSUME QueryPageInv, NEW q \in 1 .. Len(queries), LoseRequest(q)
    PROVE  QueryPageInv'
<1>1. faults' \in 0 .. MaxFaults
  BY QueryAssumption DEF LoseRequest, QueryPageInv, TypeOK
<1> DEFINE r == Over(q, "failed", {})
<1>2. r \in Queries /\ r.state = "failed" /\ BrowseInv(r, sent, queue)
  BY OverInv
<1>3. /\ queries' = [queries EXCEPT ![q] = r] /\ queries[q].state \notin {"shown", "rejected"}
      /\ UNCHANGED <<jms, page, loaded, burst, styleVars>>
  BY DEF LoseRequest
<1> HIDE DEF r
<1> QED
  BY <1>1, <1>2, <1>3, StillWaiting

LEMMA RecordCountType ==
    ASSUME NEW S \in SUBSET Positions
    PROVE  Cardinality(S) \in 0 .. MaxSends
<1>1. MaxSends \in Nat /\ 1 \in Int /\ MaxSends \in Int
  BY QueueAssumption
<1>2. IsFiniteSet(Positions) /\ Cardinality(Positions) = MaxSends
  BY <1>1, FS_Interval DEF Positions
<1>3. IsFiniteSet(S) /\ Cardinality(S) <= Cardinality(Positions)
  BY <1>2, FS_Subset
<1>4. Cardinality(S) \in Nat
  BY <1>3, FS_CardinalityType
<1> QED
  BY <1>1, <1>2, <1>3, <1>4

LEMMA RenderTableStep ==
    ASSUME QueryPageInv, NEW q \in 1 .. Len(queries), RenderTable(q)
    PROVE  QueryPageInv'
<1>1. TypeOK /\ QueriesInv
  BY DEF QueryPageInv
<1> DEFINE answer == queries[q].answer
           r == Over(q, "shown", answer)
<1>2. /\ queries[q].state = "answered" /\ queries' = [queries EXCEPT ![q] = r]
      /\ UNCHANGED <<jms, loaded, burst, faults>> /\ Style!Observe
      /\ page' = [page EXCEPT !.rows = IF answer = {} THEN "none" ELSE "rows",
                              !.accounts = answer, !.recordCount = Cardinality(answer)]
  BY DEF RenderTable
<1>3. BrowseInv(queries[q], sent, queue) /\ 1 .. Len(sent) \subseteq Positions
  BY <1>1, QueryTypes DEF QueriesInv
<1>4. answer \in SUBSET (1 .. Len(sent)) /\ answer \in SUBSET Positions
  BY <1>3 DEF BrowseInv
<1> HIDE DEF answer
<1>5. /\ r \in Queries /\ r.state = "shown" /\ r.answer = answer /\ BrowseInv(r, sent, queue)
  BY <1>4, OverInv
<1>6. Cardinality(answer) \in 0 .. MaxSends
  BY <1>4, RecordCountType
<1> HIDE DEF r
<1>7. page \in [rows : Bodies, accounts : SUBSET Positions, recordCount : 0 .. MaxSends,
                alert : BOOLEAN]
  BY <1>1 DEF TypeOK
<1>8. /\ page' \in [rows : Bodies, accounts : SUBSET Positions, recordCount : 0 .. MaxSends,
                    alert : BOOLEAN]
      /\ page'.rows = (IF answer = {} THEN "none" ELSE "rows") /\ page'.accounts = answer
      /\ page'.recordCount = Cardinality(answer) /\ page'.alert = page.alert
  BY <1>2, <1>4, <1>6, <1>7 DEF Bodies
<1>9. queries'[q] = r
  BY <1>1, <1>2, QueryTypes
<1>10. Shows(q)'
  BY <1>5, <1>8, <1>9 DEF Shows
<1> QED
  BY <1>2, <1>4, <1>5, <1>8, <1>10, NowShown

LEMMA ShowErrorStep ==
    ASSUME QueryPageInv, NEW q \in 1 .. Len(queries), ShowError(q)
    PROVE  QueryPageInv'
<1>1. TypeOK /\ QueriesInv
  BY DEF QueryPageInv
<1> DEFINE r == [queries[q] EXCEPT !.state = "rejected"]
<1>2. /\ queries[q].state = "failed" /\ UNCHANGED <<jms, loaded, burst, faults>> /\ Style!Observe
      /\ page' = [rows |-> "failed", accounts |-> {}, recordCount |-> 0, alert |-> TRUE]
  BY DEF ShowError
<1>3. /\ queries[q] \in Queries /\ BrowseInv(queries[q], sent, queue)
      /\ queries \in [1 .. Len(queries) -> Queries]
  BY <1>1, QueryTypes DEF QueriesInv
<1>4. queries' = [queries EXCEPT ![q] = r]
  BY <1>3 DEF ShowError
<1>5. r \in Queries /\ r.state = "rejected" /\ r.answer = queries[q].answer
  BY <1>3 DEF Queries
<1> HIDE DEF r
<1>6. BrowseInv(r, sent, queue)
  BY <1>3, <1>5 DEF BrowseInv
<1>7. queries'[q] = r
  BY <1>3, <1>4
<1>8. page' \in [rows : Bodies, accounts : SUBSET Positions, recordCount : 0 .. MaxSends,
                 alert : BOOLEAN]
  BY <1>2, QueueAssumption DEF Bodies
<1>9. Shows(q)' /\ page'.accounts = {}
  BY <1>2, <1>5, <1>7 DEF Shows
<1> QED
  BY <1>2, <1>4, <1>5, <1>6, <1>8, <1>9, NowShown

LEMMA SubmitStep ==
    ASSUME QueryPageInv, NEW s \in Selectors, Submit(s)
    PROVE  QueryPageInv'
<1>1. TypeOK /\ QueriesInv /\ PageInv /\ StyleInv
  BY DEF QueryPageInv
<1> DEFINE n == Len(queries) + 1
           r == Posted(s)
<1>2. /\ Len(queries) < MaxQueries /\ queries' = Append(queries, r)
      /\ page' = [page EXCEPT !.rows = "querying", !.accounts = {}, !.alert = FALSE]
      /\ UNCHANGED <<jms, loaded, faults>> /\ Style!Observe
  BY DEF Submit
<1>3. /\ queries \in Seq(Queries) /\ Len(queries) \in Nat
      /\ DOMAIN queries = 1 .. Len(queries) /\ burst \subseteq 1 .. Len(queries)
      /\ queue \in SUBSET (1 .. Len(sent)) /\ 1 .. Len(sent) \subseteq Positions
  BY <1>1, QueryTypes
<1>4. /\ r \in Queries /\ r.selector = s /\ r.state = "posted" /\ r.last = 0 /\ r.answer = {}
      /\ r.always = queue /\ r.ever = queue
  BY <1>3, QueueAssumption DEF Posted, Queries
<1> HIDE DEF r
<1>5. BrowseInv(r, sent, queue)
  <2>1. \A i \in queue : ~(i <= 0)
    BY <1>3, QueryTypes DEF QueryPageInv
  <2> QED
    BY <1>3, <1>4, <2>1 DEF BrowseInv
<1>6. /\ queries' \in Seq(Queries) /\ Len(queries') = n /\ DOMAIN queries' = 1 .. n
      /\ queries'[n] = r /\ \A p \in 1 .. Len(queries) : queries'[p] = queries[p]
      /\ n \in 1 .. n /\ \A p \in 1 .. n : p = n \/ p \in 1 .. Len(queries)
      /\ n \notin 1 .. Len(queries) /\ 1 .. Len(queries) \subseteq 1 .. n
  BY <1>2, <1>3, <1>4, AppendSeq
<1>7. burst' = {n} \cup (IF Waiting = {} THEN {} ELSE burst)
  BY <1>6 DEF Submit
<1>8. Len(queries') <= MaxQueries /\ burst' \subseteq DOMAIN queries'
  BY <1>2, <1>3, <1>6, <1>7, QueryAssumption
<1> HIDE DEF n
<1>9. QueriesInv'
  BY <1>1, <1>2, <1>5, <1>6 DEF QueriesInv, jms
<1>10. Waiting' = Waiting \cup {n}
  BY <1>3, <1>4, <1>6 DEF Waiting
<1>11. /\ page' \in [rows : Bodies, accounts : SUBSET Positions, recordCount : 0 .. MaxSends,
                     alert : BOOLEAN]
       /\ page'.accounts = {} /\ ~page'.alert
  BY <1>1, <1>2 DEF TypeOK, Bodies
<1>12. PageInv'
  BY <1>1, <1>7, <1>10, <1>11 DEF PageInv
<1>13. Style!StyleTypeOK' /\ StyleInv'
  BY <1>1, <1>2, ObserveInv
<1>14. TypeOK'
  <2>1. QueueTypeOK'
    BY <1>1, <1>2 DEF TypeOK, QueueTypeOK, jms
  <2>2. loaded' \in BOOLEAN /\ faults' \in 0 .. MaxFaults
    BY <1>1, <1>2 DEF TypeOK
  <2> QED
    BY <1>6, <1>8, <1>11, <1>13, <2>1, <2>2 DEF TypeOK
<1> QED
  BY <1>9, <1>12, <1>13, <1>14 DEF QueryPageInv

(* The queries, the queue and what the page shows stay. *)
LEMMA PageStill ==
    ASSUME TypeOK, QueriesInv, PageInv, UNCHANGED <<jms, queries, page, burst, faults>>,
           loaded' \in BOOLEAN, Style!StyleTypeOK'
    PROVE  TypeOK' /\ QueriesInv' /\ PageInv'
<1>1. QueueTypeOK' /\ TypeOK'
  BY DEF TypeOK, QueueTypeOK, jms
<1>2. QueriesInv'
  BY DEF QueriesInv, jms
<1>3. PageInv'
  BY PageKept DEF jms
<1> QED
  BY <1>1, <1>2, <1>3

(***************************************************************************)
(* The step lemma: whatever happens next, to the queue, to a query, on the *)
(* page or in the chain of builds, the invariant stays.                    *)
(***************************************************************************)
LEMMA QueryPageStep == QueryPageInv /\ [Next]_vars => QueryPageInv'
<1> SUFFICES ASSUME QueryPageInv, [Next]_vars PROVE QueryPageInv'
  OBVIOUS
<1>0. TypeOK /\ QueriesInv /\ PageInv /\ StyleInv /\ DOMAIN queries = 1 .. Len(queries)
  BY QueryTypes DEF QueryPageInv
<1>1. ASSUME NEW a \in Accounts, Send(a) PROVE QueryPageInv'
  BY <1>1, SendStep
<1>2. ASSUME NEW i \in queue, Take(i) PROVE QueryPageInv'
  BY <1>2, TakeStep
<1>3. ASSUME NEW q \in DOMAIN queries, Answer(q) \/ LoseRequest(q) PROVE QueryPageInv'
  BY <1>0, <1>3, CreateBrowserStep, NextElementStep, NoMoreElementsStep, RenderTableStep,
     ShowErrorStep, LoseRequestStep
  DEF Answer
<1>4. CASE Load
  <2>1. Style!StyleTypeOK' /\ StyleInv' /\ loaded' \in BOOLEAN
    BY <1>0, <1>4, ObserveInv DEF Load
  <2> QED
    BY <1>0, <1>4, <2>1, PageStill DEF Load, QueryPageInv
<1>5. ASSUME NEW s \in Selectors, Submit(s) PROVE QueryPageInv'
  BY <1>5, SubmitStep
<1>6. CASE Script
  <2>1. Classes' = Classes /\ Classes \subseteq ClassNames
    BY <1>0, <1>6, ClassesTyped DEF Script, Classes, jms
  <2>2. Style!StyleTypeOK' /\ StyleInv'
    BY <1>0, <1>6, <2>1, ScriptInv DEF Script
  <2>3. loaded' \in BOOLEAN
    BY <1>0, <1>6 DEF Script, TypeOK
  <2> QED
    BY <1>0, <1>6, <2>2, <2>3, PageStill DEF Script, QueryPageInv
<1>7. CASE UNCHANGED vars
  <2>1. Classes' = Classes
    BY <1>7 DEF vars, Classes, jms
  <2>2. Style!StyleTypeOK' /\ StyleInv'
    BY <1>0, <1>7, <2>1, KeepStyle DEF vars
  <2>3. loaded' \in BOOLEAN
    BY <1>0, <1>7 DEF vars, TypeOK
  <2> QED
    BY <1>0, <1>7, <2>2, <2>3, PageStill DEF vars, QueryPageInv
<1> QED
  BY <1>1, <1>2, <1>3, <1>4, <1>5, <1>6, <1>7 DEF Next

-----------------------------------------------------------------------------
(***************************************************************************)
(* The invariant: each query has an exact record of the part of the queue  *)
(* it has read, the page has come from a query that overlaps the last one, *)
(* and no change of the page is missing in the chain of builds.            *)
(***************************************************************************)
THEOREM QueryPageInvariant == Spec => []QueryPageInv
  BY QueryPageInit, QueryPageStep, PTL DEF Spec

(***************************************************************************)
(* Type correctness of the page, QueryController's queries, the queue and  *)
(* the style sheet; that the classes that scripts.js collects are classes  *)
(* of the page needs that no row shows a message that was not sent.        *)
(***************************************************************************)
THEOREM QueryPageTypeCorrect == Spec => []TypeOK
<1>1. QueryPageInv => TypeOK
  BY DEF QueryPageInv
<1> QED
  BY <1>1, QueryPageInvariant, PTL

(***************************************************************************)
(* When every query has come back, the page shows one of those that        *)
(* overlapped: its table and its count or its error, and an alert only if  *)
(* one of them failed, whatever the order in which the handlers of the     *)
(* page go on after their awaits.                                          *)
(***************************************************************************)
THEOREM QueryPageShowsAQuery == Spec => []PageShowsAQuery
<1>1. QueryPageInv => PageShowsAQuery
  BY DEF QueryPageInv, PageInv, PageShowsAQuery
<1> QED
  BY <1>1, QueryPageInvariant, PTL

(***************************************************************************)
(* An answer of QueryController.query holds every matching message that    *)
(* was in the queue from the submission until the browsing ended, and no   *)
(* message that does not match or was not there meanwhile.                 *)
(***************************************************************************)
THEOREM QueryPageAnswerMatches == Spec => []AnswerMatchesQueue
<1>1. QueryPageInv => AnswerMatchesQueue
  <2> SUFFICES ASSUME QueryPageInv, NEW q \in DOMAIN queries, queries[q].state = "answered"
               PROVE  LET matching(set) == {i \in set : sent[i] \in Selected[queries[q].selector]}
                      IN  /\ matching(queries[q].always) \subseteq queries[q].answer
                          /\ queries[q].answer \subseteq matching(queries[q].ever)
    BY DEF AnswerMatchesQueue
  <2>1. BrowseInv(queries[q], sent, queue)
    BY QueryTypes DEF QueryPageInv, QueriesInv
  <2> QED
    BY <2>1 DEF BrowseInv, Matches
<1> QED
  BY <1>1, QueryPageInvariant, PTL

(***************************************************************************)
(* When the chain of builds of scripts.js is empty, the style sheet covers *)
(* every class on the page: no mutation is lost while a build runs.        *)
(***************************************************************************)
THEOREM QueryPageIdleIsStyled == Spec => []IdleIsStyled
<1>1. QueryPageInv => IdleIsStyled
  BY DEF QueryPageInv, StyleInv, IdleIsStyled, Style!IdleIsStyled, Style!Styled
<1> QED
  BY <1>1, QueryPageInvariant, PTL
=============================================================================
