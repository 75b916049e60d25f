------------------------------ MODULE MCTasksEnd ------------------------------
(***************************************************************************)
(* What must come to an end, side by side: the kept workflow, the          *)
(* enrichment of a Paper and the Crossref manifest of a Run                *)
(* (KeptWorkflow, Enrichment, CrossrefManifest), each under the fairness   *)
(* of its module.  In each behaviour one of them moves.                    *)
(***************************************************************************)
EXTENDS KeptWorkflow, CrossrefManifest, TLC

CONSTANTS a, i1, t1, p1, n1, n2, d1, d2

VARIABLES part,
          papers, notes, enrichment, starting, save, completed, owner, online, number, savers, makers

enrichmentOf == <<papers, notes, enrichment, starting, save, completed, owner, online, number, savers, makers>>
all == <<part, keptVars, enrichmentOf, vars>>

Queues == {<<>>, <<a>>}

Gaps(abstract, authors, date) ==
    [candidate |-> TRUE, abstract |-> abstract, authors |-> authors, date |-> date, edits |-> 0]
E == INSTANCE Enrichment WITH
        task <- enrichment, browser <- owner, Paper <- {p1}, MaxAuthors <- 1, MaxTasks <- 1, MaxEdits <- 0,
        Deadline <- 2, Patience <- 2,
        Fresh <- {Gaps("none", "none", "none"), Gaps("user", "none", "month"), Gaps("none", "user", "day")}

\* Two ISSNs of one Journal and two works of one day, one of them listed under both.
MCISSNs == <<n1, n2>>
MCDOIs == {d1, d2}
MCIssnsOf == d1 :> {n1} @@ d2 :> {n1, n2}
MCDayOf == d1 :> 1 @@ d2 :> 1

Works == part = "workflow" /\ KeptNext /\ UNCHANGED <<part, enrichmentOf, vars>>
Enriches == part = "enrichment" /\ E!Next /\ UNCHANGED <<part, keptVars, vars>>
Asks == part = "manifest" /\ Next /\ UNCHANGED <<part, keptVars, enrichmentOf>>

\* The parts that do not move stay in one of their initial states.
EndsInit == /\ part \in {"workflow", "enrichment", "manifest"}
            /\ part # "enrichment" => papers = (p1 :> Gaps("none", "none", "none")) /\ notes = (<<p1, 1>> :> "absent")
            /\ part # "manifest" => rev = (d1 :> 0 @@ d2 :> 0)
            /\ FlowInit /\ E!Init /\ Init

\* The fairness of FairKeptSpec, Enrichment's FairSpec and CrossrefManifest's Spec.
EndsSpec ==
    /\ EndsInit /\ [][Works \/ Enriches \/ Asks]_all
    /\ WF_all(part = "workflow" /\ WorkerTick /\ UNCHANGED <<part, enrichmentOf, vars>>)
    /\ WF_all(part = "workflow" /\ FlowTime /\ UNCHANGED <<part, enrichmentOf, vars>>)
    /\ WF_all(part = "workflow" /\ BatchEnds /\ UNCHANGED <<part, enrichmentOf, vars>>)
    /\ WF_all(part = "workflow" /\ BatchExits /\ UNCHANGED <<part, enrichmentOf, vars>>)
    /\ SF_all(/\ part = "workflow" /\ \E i \in Instance : Claim(i)
              /\ UNCHANGED <<part, flowVars, enrichmentOf, vars>>)
    /\ WF_all(part = "enrichment" /\ E!Tick /\ UNCHANGED <<part, keptVars, vars>>)
    /\ WF_all(part = "enrichment" /\ E!SaveNext /\ UNCHANGED <<part, keptVars, vars>>)
    /\ WF_all(part = "manifest" /\ Retrieve /\ UNCHANGED <<part, keptVars, enrichmentOf>>)

\* Whatever the Connector reports, an enrichment's hold of the browser ends (Enrichment).
BrowserIsLetGo == E!BrowserIsLetGo

\* The retrieval ends, even when the service serves the same page under ever new cursors
\* (CrossrefManifest).
RetrievalEnds == part = "manifest" => ManifestEnds
===============================================================================
