---------------------------- MODULE Constitution ----------------------------
(***************************************************************************)
(* The constitutional validation engine with the rules of the default      *)
(* constitution: what a rule finds in a match report, the status the       *)
(* findings add up to, and the override of a blocking rule.                *)
(*                                                                         *)
(* A finding is its rule and severity; its text is left out.  An artifact  *)
(* is [id, type, report]; report is what Matcher returns, or one a caller  *)
(* made.  A text is "Empty" or not; a score is its sign.                   *)
(***************************************************************************)
EXTENDS Matcher

Severities == <<"Pass", "Warn", "Fail", "Block">>
RuleIds == <<"EVID-001", "SCHEMA-001", "SCORE-001">>  \* in lexicographic order
NoOverride == [rule |-> "None", boundTo |-> "None"]

Rank(order, x) == CHOOSE i \in DOMAIN order : order[i] = x

Finding(rule, severity) == [rule |-> rule, severity |-> severity]

\* A finding if the condition holds.
When(condition, finding) == IF condition THEN <<finding>> ELSE <<>>

\* What of(m) finds in each of the matches.
PerMatch(report, of(_)) ==
  FlattenSeq([i \in 1 .. Len(report.matches) |-> of(report.matches[i])])

HasAtom(match) == match.atom # NoAtom

-----------------------------------------------------------------------------
\* SCHEMA-001: the artifact is a well-formed match report.
SchemaBlock == Finding("SCHEMA-001", "Block")

Malformed(m) ==
  When(m.text = "Empty", SchemaBlock)
    \o When(m.score = "Negative", SchemaBlock)
    \o When(m.matched # HasAtom(m), SchemaBlock)

Schema001(artifact) ==
  IF artifact.type # "MatchReport"
  THEN <<SchemaBlock>>
  ELSE When(artifact.report.score = "Negative", SchemaBlock)
         \o PerMatch(artifact.report, Malformed)

\* EVID-001: a match names its atom and its evidence.
EvidenceFail == Finding("EVID-001", "Fail")

Unfounded(m) ==
  When(m.matched /\ ~HasAtom(m), EvidenceFail)
    \o When(m.matched /\ m.evidence = {}, EvidenceFail)

Evid001(artifact) ==
  IF artifact.type # "MatchReport" THEN <<>> ELSE PerMatch(artifact.report, Unfounded)

\* SCORE-001: a score of zero for requirements there are.
ScoreWarning == Finding("SCORE-001", "Warn")

Score001(artifact) ==
  When(/\ artifact.type = "MatchReport"
       /\ artifact.report.score = "Zero"
       /\ artifact.report.matches # <<>>,
       ScoreWarning)

-----------------------------------------------------------------------------
\* The order validate sorts findings into.
Severity(f) == Rank(Severities, f.severity)

Graver(findings) ==
  {pair \in findings \X findings :
     \/ Severity(pair[1]) > Severity(pair[2])
     \/ /\ Severity(pair[1]) = Severity(pair[2])
        /\ Rank(RuleIds, pair[1].rule) < Rank(RuleIds, pair[2].rule)}

\* make_default_constitution.
Findings(artifact) ==
  LET found == Schema001(artifact) \o Evid001(artifact) \o Score001(artifact)
  IN  Arranged(found, DOMAIN found, Graver(ToSet(found)))

\* Mutation: a warning has no status of its own.
StatusWithoutWarning(findings) ==
  LET Found(severity) == \E f \in ToSet(findings) : f.severity = severity
  IN  IF Found("Block") THEN "blocked"
      ELSE IF Found("Fail") THEN "rejected"
      ELSE IF Found("Warn") THEN "unknown"
      ELSE "accepted"

\* compute_status_from_findings: the worst severity decides.
Status(findings) ==
  LET Found(severity) == \E f \in ToSet(findings) : f.severity = severity
  IN  IF Found("Block") THEN "blocked"
      ELSE IF Found("Fail") THEN "rejected"
      ELSE IF Found("Warn") THEN "needs_review"
      ELSE "accepted"

\* Mutation: any override of a blocked report is good enough.
LiftsAnyway(override, artifact, findings) ==
  override # NoOverride /\ override.boundTo = artifact.id

\* The override names a blocking rule and is bound to this artifact.
Lifts(override, artifact, findings) ==
  /\ Finding(override.rule, "Block") \in ToSet(findings)
  /\ override.boundTo = artifact.id

\* ValidationEngine::validate.
Validate(artifact, override) ==
  LET findings == Findings(artifact)
      status == Status(findings)
  IN  [findings |-> findings,
       status |-> IF status = "blocked" /\ Lifts(override, artifact, findings)
                  THEN "overridden" ELSE status]
=============================================================================
