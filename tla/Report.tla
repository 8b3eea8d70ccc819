------------------------------- MODULE Report -------------------------------
(***************************************************************************)
(* The findings section of the terminal report (src/reporter/terminal.rs)  *)
(* in its four modes, grouped by tactic or flat and collapsed or expanded, *)
(* the MITRE tables behind it (src/mitre.rs), and the technique entries of *)
(* the JSON report (src/reporter/json_dto.rs).                             *)
(*                                                                         *)
(* A finding has about (its category and summary), verdict, confidence,    *)
(* evidence and mitre_techniques.  A rendered item is the findings it      *)
(* stands for, by their position in the list, and what it prints of them.  *)
(* Wording, colour and escaping are left out.                              *)
(***************************************************************************)
EXTENDS Integers, Sequences, SequencesExt

CONSTANTS
    ReportFinding,              \* the findings
    COLLAPSE_EVIDENCE_SAMPLES,  \* 3
    MaxReported                 \* bound of the model

VARIABLE rp     \* the findings handed to the reporter, in order

-----------------------------------------------------------------------------
(* MITRE tables                                                            *)

Tactics ==
    << "Reconnaissance", "ResourceDevelopment", "InitialAccess", "Execution", "Persistence",
       "PrivilegeEscalation", "DefenseEvasion", "CredentialAccess", "Discovery", "LateralMovement",
       "Collection", "CommandAndControl", "Exfiltration", "Impact", "IcsInhibitResponseFunction",
       "IcsImpairProcessControl", "IcsImpact", "IcsDiscovery", "IcsCollection",
       "IcsCommandAndControl", "IcsExecution" >>

\* all_tactics_in_report_order, a list of its own
TacticsInReportOrder ==
    << "Reconnaissance", "ResourceDevelopment", "InitialAccess", "Execution", "Persistence",
       "PrivilegeEscalation", "DefenseEvasion", "CredentialAccess", "Discovery", "LateralMovement",
       "Collection", "CommandAndControl", "Exfiltration", "Impact", "IcsInhibitResponseFunction",
       "IcsImpairProcessControl", "IcsImpact", "IcsDiscovery", "IcsCollection",
       "IcsCommandAndControl", "IcsExecution" >>

\* in the order of Tactics
TacticIds ==
    << 43, 42, 1, 2, 3, 4, 5, 6, 7, 8, 9, 11, 10, 40, 107, 106, 105, 102, 100, 101, 104 >>

TacticId(tactic) == TacticIds[CHOOSE i \in DOMAIN Tactics : Tactics[i] = tactic]

\* the techniques of each tactic
TechniquesOf ==
    [ DefenseEvasion |-> {"T1027", "T1036"}, CredentialAccess |-> {"T1040", "T1557.002"},
      Discovery |-> {"T1046", "T1083"}, Impact |-> {"T1499.002"}, Persistence |-> {"T1505.003"},
      CommandAndControl |-> {"T1071", "T1071.001", "T1071.004", "T1573"},
      IcsDiscovery |-> {"T0846", "T0888"}, IcsCommandAndControl |-> {"T0885"},
      IcsImpairProcessControl |-> {"T1692.001", "T1692.002", "T0836", "T0806", "T0835"},
      IcsInhibitResponseFunction |-> {"T0814", "T1691.001", "T0816", "T1693.001", "T0881"},
      IcsImpact |-> {"T0831", "T0827"}, IcsCollection |-> {"T0830"}, IcsExecution |-> {"T0858"} ]

TechniqueKnown(id) == \E t \in DOMAIN TechniquesOf : id \in TechniquesOf[t]

TechniqueTactic(id) == CHOOSE t \in DOMAIN TechniquesOf : id \in TechniquesOf[t]

\* the table of technique_tactic_id, which is a second copy of tactic_id's
TechniqueTacticId(id) ==
    CASE TechniqueTactic(id) = "Persistence" -> 3
      [] TechniqueTactic(id) = "DefenseEvasion" -> 5
      [] TechniqueTactic(id) = "CredentialAccess" -> 6
      [] TechniqueTactic(id) = "Discovery" -> 7
      [] TechniqueTactic(id) = "CommandAndControl" -> 11
      [] TechniqueTactic(id) = "Impact" -> 40
      [] TechniqueTactic(id) = "IcsInhibitResponseFunction" -> 107
      [] TechniqueTactic(id) = "IcsImpairProcessControl" -> 106
      [] TechniqueTactic(id) = "IcsImpact" -> 105
      [] TechniqueTactic(id) = "IcsDiscovery" -> 102
      [] TechniqueTactic(id) = "IcsCollection" -> 100
      [] TechniqueTactic(id) = "IcsCommandAndControl" -> 101
      [] TechniqueTactic(id) = "IcsExecution" -> 104

\* the mitre_attack array of a finding in the JSON report
MitreAttack(f) ==
    [ i \in DOMAIN f.mitre_techniques |->
        LET id == f.mitre_techniques[i]
        IN  [id |-> id, tactic_id |-> IF TechniqueKnown(id) THEN TechniqueTacticId(id) ELSE 0] ]

-----------------------------------------------------------------------------
(* Grouping and collapsing                                                 *)

VerdictRank == [Likely |-> 0, Possible |-> 1, Inconclusive |-> 2, Unlikely |-> 3]

ConfidenceRank == [High |-> 0, Medium |-> 1, Low |-> 2]

\* by verdict, then confidence, then position
SeverityOrder(i, j) ==
    LET rank(f) == 3 * VerdictRank[f.verdict] + ConfidenceRank[f.confidence]
    IN  rank(rp[i]) < rank(rp[j]) \/ (rank(rp[i]) = rank(rp[j]) /\ i < j)

\* the section of a finding: the tactic of its first technique
SectionOf(f) ==
    IF f.mitre_techniques # <<>> /\ TechniqueKnown(f.mitre_techniques[1])
    THEN TechniqueTactic(f.mitre_techniques[1]) ELSE "Uncategorized"

Bucket(section) == SetToSortSeq({i \in DOMAIN rp : SectionOf(rp[i]) = section}, SeverityOrder)

CollapseKey(f) == [about |-> f.about, verdict |-> f.verdict, confidence |-> f.confidence]

\* Faulty variant: only neighbours are collapsed.
CollapseFindingsPassAdjacent(members) ==
    LET firsts == SelectSeq([p \in DOMAIN members |-> p],
                            LAMBDA p : p = 1 \/ CollapseKey(rp[members[p - 1]]) # CollapseKey(rp[members[p]]))
    IN  [ g \in DOMAIN firsts |->
            SubSeq(members, firsts[g], IF g = Len(firsts) THEN Len(members) ELSE firsts[g + 1] - 1) ]

\* one group per key, in the order in which the keys first occur
CollapseFindingsPass(members) ==
    LET key(p) == CollapseKey(rp[members[p]])
        firsts == SelectSeq([p \in DOMAIN members |-> p], LAMBDA p : \A q \in 1 .. p - 1 : key(q) # key(p))
    IN  [g \in DOMAIN firsts |-> SelectSeq(members, LAMBDA i : CollapseKey(rp[i]) = key(firsts[g]))]

\* a finding on its own prints all its evidence, a group a sample
Evidence(members) ==
    IF Len(members) = 1 THEN rp[members[1]].evidence
    ELSE LET window == SubSeq(members, 1, IF Len(members) < COLLAPSE_EVIDENCE_SAMPLES
                                          THEN Len(members) ELSE COLLAPSE_EVIDENCE_SAMPLES)
             shown  == SelectSeq(window, LAMBDA i : rp[i].evidence # <<>>)
         IN  [i \in DOMAIN shown |-> rp[shown[i]].evidence[1]]

Item(members) ==
    [ members |-> members, evidence |-> Evidence(members),
      mitre |-> rp[members[1]].mitre_techniques ]

Items(members, collapse) ==
    LET groups == IF collapse THEN CollapseFindingsPass(members) ELSE [p \in DOMAIN members |-> <<members[p]>>]
    IN  [g \in DOMAIN groups |-> Item(groups[g])]

\* the findings section: its headings, each with its items
RenderFindings(grouped, collapse) ==
    LET sections == SelectSeq(Append(TacticsInReportOrder, "Uncategorized"), LAMBDA t : Bucket(t) # <<>>)
    IN  IF ~grouped THEN <<[heading |-> "none", items |-> Items([i \in DOMAIN rp |-> i], collapse)]>>
        ELSE [s \in DOMAIN sections |->
                [heading |-> sections[s], items |-> Items(Bucket(sections[s]), collapse)]]

-----------------------------------------------------------------------------
(* Behaviour: the list of findings grows                                   *)

ReportInit == rp = <<>>

ReportAdd(f) == Len(rp) < MaxReported /\ rp' = Append(rp, f)

ReportNext == \E f \in ReportFinding : ReportAdd(f)

ReportSpec == ReportInit /\ [][ReportNext]_rp

-----------------------------------------------------------------------------
(* Properties                                                              *)

\* the members of all items, in the order in which they are printed
Printed(sections) ==
    FlattenSeq([s \in DOMAIN sections |->
        FlattenSeq([i \in DOMAIN sections[s].items |-> sections[s].items[i].members])])

Headers(sections) ==
    FlattenSeq([s \in DOMAIN sections |->
        [i \in DOMAIN sections[s].items |-> <<sections[s].heading, CollapseKey(rp[sections[s].items[i].members[1]])>>]])

\* the report order has the tactic of every technique
OrderComplete == DOMAIN TechniquesOf \subseteq ToSet(TacticsInReportOrder)

\* Every finding is printed, or counted in a group, exactly once in each mode: no
\* bucket is left out, and the report order has the tactic of every technique.
ReportComplete ==
    /\ OrderComplete
    /\ \A grouped, collapse \in BOOLEAN :
          LET printed == Printed(RenderFindings(grouped, collapse))
          IN  Len(printed) = Len(rp) /\ ToSet(printed) = DOMAIN rp

\* Collapsing takes later findings of the same kind out of the list and changes
\* nothing else: the headers that remain are those of the expanded report, in its
\* order, each where its first finding was.
ReportCollapseStable ==
    \A grouped \in BOOLEAN :
        LET headers == Headers(RenderFindings(grouped, FALSE))
            firsts  == SelectSeq([p \in DOMAIN headers |-> p], LAMBDA p : \A q \in 1 .. p - 1 : headers[q] # headers[p])
        IN  Headers(RenderFindings(grouped, TRUE)) = [i \in DOMAIN firsts |-> headers[firsts[i]]]

\* The evidence of a group is drawn from its earliest findings, whatever the mode.
ReportEvidenceEarliest ==
    \A grouped \in BOOLEAN :
        LET sections == RenderFindings(grouped, TRUE)
        IN  \A s \in DOMAIN sections : \A i \in DOMAIN sections[s].items :
                LET members == sections[s].items[i].members
                IN  \A p \in 2 .. Len(members) : members[p - 1] < members[p]

\* the two tables of tactic numbers agree, on every technique
TablesAgree ==
    \A tactic \in DOMAIN TechniquesOf : \A id \in TechniquesOf[tactic] :
        TechniqueTacticId(id) = TacticId(tactic)

\* The terminal heads a finding with the tactic that the JSON report gives to its
\* first technique: the two tables of tactic numbers agree, on every technique.
ReportTacticsAgree ==
    /\ TablesAgree
    /\ LET sections == RenderFindings(TRUE, FALSE)
       IN  \A s \in DOMAIN sections : \A i \in DOMAIN sections[s].items :
               LET attack == MitreAttack(rp[sections[s].items[i].members[1]])
               IN  IF sections[s].heading = "Uncategorized" THEN attack = <<>> \/ attack[1].tactic_id = 0
                   ELSE attack[1].tactic_id = TacticId(sections[s].heading)
=============================================================================
