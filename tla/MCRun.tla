--------------------------------- MODULE MCRun ---------------------------------
(***************************************************************************)
(* A Run, the pipeline that gives it its evidence and the Settings it is   *)
(* configured by, side by side: MonitorRun, CandidatePipeline and          *)
(* Settings.  In each behaviour one of them moves.                         *)
(***************************************************************************)
EXTENDS Settings, MonitorRun, CandidatePipeline, TLC

CONSTANTS d1, a, p, p1, j1, j2, j3, q1, q2

VARIABLE part

MCDOI == {d1}
MCPages == {p1}
MCJournals == {j1, j2, j3}
MCPublisherOf == j1 :> q1 @@ j2 :> q2 @@ j3 :> q1
MCSeeded == {{j1, j2}}
Current(journals, publishers) == [shape |-> "current", journals |-> journals, kept |-> publishers, text |-> 0]
MCUploads == {Current({j2}, {q2}), Current({j1, j3}, {})}

MCDOIs == {a, p}
MCFinds == {"hit", "thin", "none"}
OnlyPrime == {p}

\* The parts that do not move stay in one of their initial states.
RunRests == config = [valid |-> TRUE, dir |-> 1] /\ saved = (d1 :> None) /\ db = Whole({}) /\ RunInit
EvidenceRests ==
    /\ live = (a :> NoRecord @@ p :> NoRecord) /\ aliased = FALSE /\ openalex = (a :> "none" @@ p :> "none")
    /\ crossref = {} /\ held = {} /\ state = live /\ PipelineInit
SettingsRest ==
    list = Current({j1, j2}, {q1, q2}) /\ monitor = [shape |-> "current", text |-> 0, value |-> 0] /\ Init

MCInit == \/ part = "run" /\ EvidenceRests /\ SettingsRest /\ RunInit
          \/ part = "evidence" /\ RunRests /\ SettingsRest /\ PipelineInit
          \/ part = "settings" /\ RunRests /\ EvidenceRests /\ Init

Runs == part = "run" /\ RunNext /\ UNCHANGED <<part, pipelineVars, vars>>
Gathers == part = "evidence" /\ PipelineNext /\ UNCHANGED <<part, runVars, vars>>
Saves == part = "settings" /\ Next /\ UNCHANGED <<part, runVars, pipelineVars>>

MCSpec == MCInit /\ [][Runs \/ Gathers \/ Saves]_<<part, runVars, pipelineVars, vars>>
================================================================================
