----------------------------- MODULE StyleBuild -----------------------------
(***************************************************************************)
(* The build queue of scripts.js, the style sheet compiler that the page   *)
(* of the query browser loads.  Builds are chained on one promise: a full  *)
(* one when the script is loaded, which creates the compiler, and an       *)
(* incremental one whenever a MutationObserver sees elements or classes    *)
(* change; its callback is a microtask of the task that has changed them,  *)
(* and part of the same step here.  A build collects the classes that it   *)
(* has not seen before and, if there are any, writes the style sheet.      *)
(* What the compiler makes of a class is not modelled: a style sheet is    *)
(* the set of classes it covers.  The page has no style element of its     *)
(* own, so there is one full build.                                        *)
(***************************************************************************)
EXTENDS Sequences, FiniteSets

CONSTANTS ClassNames

VARIABLES
    classes,    \* the classes in the document (of the page)
    builds,     \* Or: the builds of the chain that have not finished
    building,   \* the first of them: not begun, creating the compiler, or past it
    compiler,   \* Cr: there is a compiler
    collected,  \* Vr: the classes given to the compiler
    sheet       \* Er: the classes that the style sheet covers

styleVars == <<builds, building, compiler, collected, sheet>>

Builds == {"full", "incremental"}

StyleTypeOK ==
    /\ builds \in Seq(Builds)
    /\ building \in {"no", "compile", "collect"}
    /\ compiler \in BOOLEAN
    /\ collected \subseteq ClassNames
    /\ sheet \subseteq ClassNames

\* The script has been loaded, in the head of a document without a body yet.
StyleInit ==
    /\ builds = <<"full">>
    /\ building = "no"
    /\ compiler = FALSE
    /\ collected = {} /\ sheet = {}

\* The MutationObserver's callback.
Observe ==
    /\ builds' = Append(builds, "incremental")
    /\ UNCHANGED <<building, compiler, collected, sheet>>

\* The next function of the chain starts; without a compiler an incremental
\* build is nothing.
BeginBuild ==
    /\ building = "no" /\ builds # <<>>
    /\ IF Head(builds) = "full" THEN building' = "compile" /\ UNCHANGED builds
       ELSE IF compiler THEN building' = "collect" /\ UNCHANGED builds
       ELSE builds' = Tail(builds) /\ UNCHANGED building
    /\ UNCHANGED <<compiler, collected, sheet>>

\* The compiler that the full build awaited is there.
CreateCompiler ==
    /\ building = "compile"
    /\ compiler' = TRUE
    /\ collected' = {}
    /\ building' = "collect"
    /\ UNCHANGED <<builds, sheet>>

\* Faulty: an incremental build writes nothing.
CollectFullOnly ==
    /\ building = "collect"
    /\ collected' = collected \cup classes
    /\ sheet' = IF collected' # collected /\ Head(builds) = "full" THEN collected' ELSE sheet
    /\ builds' = Tail(builds)
    /\ building' = "no"
    /\ UNCHANGED compiler

\* Collects the new classes and builds.
Collect ==
    /\ building = "collect"
    /\ collected' = collected \cup classes
    /\ sheet' = IF collected' # collected \/ Head(builds) = "full" THEN collected' ELSE sheet
    /\ builds' = Tail(builds)
    /\ building' = "no"
    /\ UNCHANGED compiler

StyleNext == BeginBuild \/ CreateCompiler \/ Collect

-----------------------------------------------------------------------------
Styled == classes \subseteq sheet

(***************************************************************************)
(* When no build is left in the chain, the style sheet covers every class  *)
(* on the page: no change is lost while the compiler is created or another *)
(* build runs.                                                             *)
(***************************************************************************)
IdleIsStyled == builds = <<>> => Styled
=============================================================================
