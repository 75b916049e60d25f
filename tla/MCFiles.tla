-------------------------------- MODULE MCFiles --------------------------------
(***************************************************************************)
(* What writes a Workspace, and what it writes from, side by side: the     *)
(* decisions and the reset (WorkspaceFiles), the notes of a Run            *)
(* (Materialization) and the works OpenAlex has (OpenAlexDiscovery).  In   *)
(* each behaviour one of them moves.                                       *)
(***************************************************************************)
EXTENDS WorkspaceFiles, Materialization, OpenAlexDiscovery, TLC

CONSTANTS x1, x2, o1, n1, n2, m1, m2, own, my, i1, i2, s1, s2, k1, k2, k3

VARIABLE part

A(name, openalex, orcid) == [name |-> name, openalex |-> openalex, orcid |-> orcid]

\* Two authors of one key pair and one without keys; and two Papers of one DOI.
Two == << [doi |-> n1, authors |-> <<A(m1, x1, o1), A(m2, Absent, Absent)>>],
          [doi |-> n2, authors |-> <<A(m1, Absent, o1), A(m1, x2, o1)>>] >>
Twins == << [doi |-> n1, authors |-> <<>>], [doi |-> n1, authors |-> <<>>] >>
MCBatch == {Two, Twins}
MCOwnName == {own}

UserPaper(type, id, doi, external) ==
    [type |-> type, id |-> id, doi |-> doi, external |-> external, legacy |-> FALSE]
MCPaperText == {UserPaper("paper", my, n1, Absent), UserPaper("paper", my, Absent, Bad),
                UserPaper("broken", Absent, Absent, Absent), UserPaper("other", Absent, Absent, Absent)}
MCAuthorText == {[type |-> "author", name |-> m1, openalex |-> Absent, orcid |-> o1],
                 [type |-> "author", name |-> m2, openalex |-> x2, orcid |-> Absent],
                 [type |-> "opaque"]}

MCISSNs == <<i1, i2>>
MCSources == <<s1, s2>>
MCWorks == {k1, k2, k3}
MCSourceOf == k1 :> s1 @@ k2 :> s2 @@ k3 :> s2

FilesInit == /\ Init /\ MatInit /\ DiscoveryInit
             /\ part \in {"files", "notes", "works"}
             /\ part # "works" => exists = {} /\ \A s \in {s1, s2} : supports[s] = {}

Files == part = "files" /\ Next /\ UNCHANGED <<part, matVars, discoveryVars>>
Saves == part = "notes" /\ MatNext /\ UNCHANGED <<part, vars, discoveryVars>>
Asks == part = "works" /\ DiscoveryNext /\ UNCHANGED <<part, vars, matVars>>

FilesSpec == FilesInit /\ [][Files \/ Saves \/ Asks]_<<part, vars, matVars, discoveryVars>>

Symmetries == Permutations(Process)
================================================================================
