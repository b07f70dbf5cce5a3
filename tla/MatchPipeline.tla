---------------------------- MODULE MatchPipeline ----------------------------
(***************************************************************************)
(* Matching an opportunity against atoms: run_match_pipeline with the      *)
(* validation and the decision record behind the tool match_opportunity    *)
(* ("Tool"), the command ccmcp_cli match that runs the same pieces on data *)
(* of its own ("Demo"), and run_validation_pipeline on its own for a       *)
(* report its caller made ("Check").  They work on one database; a runner  *)
(* does one run at a time.                                                 *)
(*                                                                         *)
(* A request's trace is the run's: log[n] is what run n appended to it.    *)
(* Whatever throws ends the run, in the tool with an error as the answer.  *)
(* Things that go wrong are bounded by MaxFaults, runs by MaxRuns.         *)
(***************************************************************************)
EXTENDS Constitution

CONSTANTS Runners,
          KindOf,        \* what each runner runs
          Opps,          \* ids of opportunities
          Opportunities, \* what the database may hold at first
          Verifieds,
          DemoOpp, DemoRequirements, DemoVerified,  \* the data of the demo,
          DemoOptions,   \* and its command lines
          Requests,      \* what the tool is asked
          Drafts,        \* reports to check
          Overrides,     \* and the rules to override for them
          HitLists,      \* what the vector index may return
          MaxRuns,       \* bound: runs begun
          MaxFaults      \* bound: how often something goes wrong

NoOpp == <<[text |-> "NoOpp", tokens |-> {}]>>  \* the opportunity is not in the database
All == <<NoAtom>>  \* the request names no atoms
Numbers == 1 .. MaxRuns

IsList(s) == s \in Seq(ToSet(s))
IsTable(atoms) == DOMAIN atoms \subseteq Atoms /\ \A a \in DOMAIN atoms : atoms[a] \in BOOLEAN

ASSUME PipelineAssumption ==
  /\ KindOf \in [Runners -> {"Tool", "Demo", "Check"}]
  /\ \A o \in Opportunities : DOMAIN o = Opps /\ \A opp \in Opps : IsList(o[opp])
  /\ DemoOpp \in Opps /\ IsList(DemoRequirements)
  /\ \A atoms \in Verifieds \cup {DemoVerified} : IsTable(atoms)
  /\ \A request \in Requests : IsList(request.atoms)
  /\ \A draft \in Drafts :
       IsList(draft.matches) /\ \A m \in ToSet(draft.matches) : m.matched \in BOOLEAN
  /\ \A hits \in HitLists : IsList(hits) /\ Len(hits) <= KEmbedding
  /\ MaxRuns \in Nat /\ MaxFaults \in Nat

VARIABLES opps,       \* the requirements of each opportunity
          verified,   \* which atoms are verified; those not in its domain do not exist
          log,        \* the events of each run
          decisions,  \* the decision record of each run
          run,        \* what each runner is doing
          told,       \* the runs whose answer was sent
          lost,       \* the runs whose decision the store did not take
          begun,      \* how many runs there were
          faults      \* how much may still go wrong

vars == <<opps, verified, log, decisions, run, told, lost, begun, faults>>

NoReport == [score |-> "None", matches |-> <<>>]
NoDecision == [status |-> "None"]
Nothing == [findings |-> <<>>, status |-> "None"]
Idle == [phase |-> "Idle", number |-> 0, request |-> [opp |-> "None"],
         requirements |-> <<>>, atoms |-> <<>>, hits |-> <<>>,
         report |-> NoReport, validation |-> Nothing]

Init ==
  /\ opps \in Opportunities
  /\ verified \in Verifieds
  /\ log = [n \in Numbers |-> <<>>]
  /\ decisions = [n \in Numbers |-> NoDecision]
  /\ run = [r \in Runners |-> Idle]
  /\ told = {} /\ lost = {}
  /\ begun = 0
  /\ faults = MaxFaults

Fault == faults > 0 /\ faults' = faults - 1

Does(r, kinds, phases) == KindOf[r] \in kinds /\ run[r].phase \in phases

Event(type, status, count) == [type |-> type, status |-> status, count |-> count]

Logs(r, event) == log' = [log EXCEPT ![run[r].number] = Append(@, event)]

Goes(r, phase) == run' = [run EXCEPT ![r].phase = phase]

Ends(r) == run' = [run EXCEPT ![r] = Idle]

-----------------------------------------------------------------------------
\* A run begins with its first event.
Begin(r, request) ==
  /\ Does(r, {"Tool"}, {"Idle"})
  /\ begun < MaxRuns
  /\ begun' = begun + 1
  /\ run' = [run EXCEPT ![r] = [Idle EXCEPT !.phase = "Started", !.number = begun + 1,
                                            !.request = request]]
  /\ log' = [log EXCEPT ![begun + 1] = <<Event("RunStarted", "None", 0)>>]
  /\ UNCHANGED <<opps, verified, decisions, told, lost, faults>>

\* Every demo uses the same event ids, and the id is the primary key.
DemoRan == \E n \in Numbers : log[n] # <<>> /\ log[n][1].type = "DemoStarted"

BeginDemo(r, options) ==
  /\ Does(r, {"Demo"}, {"Idle"})
  /\ begun < MaxRuns
  /\ ~DemoRan
  /\ begun' = begun + 1
  /\ run' = [run EXCEPT ![r] = [Idle EXCEPT !.phase = "Started", !.number = begun + 1,
       !.request = [opp |-> DemoOpp, atoms |-> All, strategy |-> options.strategy,
                    override |-> options.override]]]
  /\ log' = [log EXCEPT ![begun + 1] = <<Event("DemoStarted", "None", 0)>>]
  /\ UNCHANGED <<opps, verified, decisions, told, lost, faults>>

\* run_validation_pipeline is called with a report.
BeginCheck(r, draft, opp, override) ==
  /\ Does(r, {"Check"}, {"Idle"})
  /\ begun < MaxRuns
  /\ begun' = begun + 1
  /\ run' = [run EXCEPT ![r] = [Idle EXCEPT !.phase = "Matched", !.number = begun + 1,
       !.request = [opp |-> opp, atoms |-> All, strategy |-> "Lexical", override |-> override],
       !.report = draft]]
  /\ UNCHANGED <<opps, verified, log, decisions, told, lost, faults>>

\* The atoms after these of the demo were stored.
Updated(stored) ==
  [a \in DOMAIN verified \cup stored |-> IF a \in stored THEN DemoVerified[a] ELSE verified[a]]

\* The demo stores its opportunity in a transaction, and its atoms.
StoreDemo(r) ==
  /\ Does(r, {"Demo"}, {"Started"})
  /\ opps' = [opps EXCEPT ![DemoOpp] = DemoRequirements]
  /\ verified' = Updated(DOMAIN DemoVerified)
  /\ Goes(r, "Stored")
  /\ UNCHANGED <<log, decisions, told, lost, begun, faults>>

\* A statement that fails is passed over in silence: the old opportunity
\* stays, or the new one lacks a requirement; atoms stay as they were.
StoreDemoPartly(r) ==
  /\ Does(r, {"Demo"}, {"Started"})
  /\ Fault
  /\ \E kept \in {opps[DemoOpp]} \cup
                 {RemoveAt(DemoRequirements, i) : i \in DOMAIN DemoRequirements} :
       opps' = [opps EXCEPT ![DemoOpp] = kept]
  /\ \E stored \in SUBSET DOMAIN DemoVerified : verified' = Updated(stored)
  /\ Goes(r, "Stored")
  /\ UNCHANGED <<log, decisions, told, lost, begun>>

-----------------------------------------------------------------------------
\* The opportunity, and its requirements under the read lock of the first
\* SELECT; the demo has them in memory.
ReadOpportunity(r) ==
  LET opp == run[r].request.opp
  IN  /\ \/ /\ Does(r, {"Tool"}, {"Started"})
            /\ opp \in Opps /\ opps[opp] # NoOpp
            /\ run' = [run EXCEPT ![r].phase = "Resolved", ![r].requirements = opps[opp]]
         \/ /\ Does(r, {"Demo"}, {"Stored"})
            /\ run' = [run EXCEPT ![r].phase = "Resolved", ![r].requirements = DemoRequirements]
      /\ UNCHANGED <<opps, verified, log, decisions, told, lost, begun, faults>>

\* No id was given, or there is no such opportunity.
OpportunityMissing(r) ==
  /\ Does(r, {"Tool"}, {"Started"})
  /\ \/ run[r].request.opp \notin Opps
     \/ run[r].request.opp \in Opps /\ opps[run[r].request.opp] = NoOpp
  /\ Ends(r)
  /\ UNCHANGED <<opps, verified, log, decisions, told, lost, begun, faults>>

Loaded(id) == [id |-> id, verified |-> verified[id]]

\* Mutation: the list of all atoms.
ListAll ==
  LET ids == Ascending(DOMAIN verified)
  IN  [i \in DOMAIN ids |-> Loaded(ids[i])]

\* list_verified, in the order of ids.
ListVerified ==
  LET ids == Ascending({a \in DOMAIN verified : verified[a]})
  IN  [i \in DOMAIN ids |-> Loaded(ids[i])]

\* The atoms the caller names, in its order, or all verified ones.
ReadAtoms(r) ==
  LET names == run[r].request.atoms
  IN  /\ run[r].phase = "Resolved"
      /\ names # All => ToSet(names) \subseteq DOMAIN verified
      /\ run' = [run EXCEPT ![r].phase = "Ready",
           ![r].atoms = IF names = All THEN ListVerified
                        ELSE [i \in DOMAIN names |-> Loaded(names[i])]]
      /\ UNCHANGED <<opps, verified, log, decisions, told, lost, begun, faults>>

AtomMissing(r) ==
  LET names == run[r].request.atoms
  IN  /\ run[r].phase = "Resolved"
      /\ names # All
      /\ ~(ToSet(names) \subseteq DOMAIN verified)
      /\ Ends(r)
      /\ UNCHANGED <<opps, verified, log, decisions, told, lost, begun, faults>>

\* The list of verified atoms meets a lock: it is empty.
ReadAtomsBusy(r) ==
  /\ run[r].phase = "Resolved"
  /\ run[r].request.atoms = All
  /\ Fault
  /\ run' = [run EXCEPT ![r].phase = "Ready"]
  /\ UNCHANGED <<opps, verified, log, decisions, told, lost, begun>>

-----------------------------------------------------------------------------
\* The matcher, and MatchCompleted.  Only the tool has embeddings.
Match(r, hits) ==
  LET q == run[r]
  IN  /\ q.phase = "Ready"
      /\ hits # <<>> => KindOf[r] = "Tool" /\ IsHybrid(q.request.strategy, q.requirements)
      /\ run' = [run EXCEPT ![r].phase = "Matched", ![r].hits = hits,
           ![r].report = Evaluate(q.request.strategy, q.requirements, q.atoms, hits)]
      /\ Logs(r, Event("MatchCompleted", "None", 0))
      /\ UNCHANGED <<opps, verified, decisions, told, lost, begun, faults>>

ArtifactOf(r) == [id |-> run[r].request.opp, type |-> "MatchReport", report |-> run[r].report]

\* The pipeline binds the override to the artifact at hand.
Bound(r) ==
  IF run[r].request.override = "None" THEN NoOverride
  ELSE [rule |-> run[r].request.override, boundTo |-> ArtifactOf(r).id]

\* The event and the answer have no word for needs_review.
StatusText(status) == IF status = "needs_review" THEN "unknown" ELSE status

\* The validation, and ValidationCompleted.
ValidateReport(r) ==
  LET result == Validate(ArtifactOf(r), Bound(r))
  IN  /\ run[r].phase = "Matched"
      /\ run' = [run EXCEPT ![r].phase = "Validated", ![r].validation = result]
      /\ Logs(r, Event("ValidationCompleted", StatusText(result.status), Len(result.findings)))
      /\ UNCHANGED <<opps, verified, decisions, told, lost, begun, faults>>

IsOverridden(r) == run[r].validation.status = "overridden"

\* ConstitutionOverrideApplied.
AnnounceOverride(r) ==
  /\ run[r].phase = "Validated"
  /\ IsOverridden(r)
  /\ Goes(r, "Cleared")
  /\ Logs(r, Event("ConstitutionOverrideApplied", "None", 0))
  /\ UNCHANGED <<opps, verified, decisions, told, lost, begun, faults>>

IsCleared(r) ==
  \/ run[r].phase = "Cleared"
  \/ run[r].phase = "Validated" /\ ~IsOverridden(r)

\* run_validation_pipeline returns to a caller of its own.
EndCheck(r) ==
  /\ KindOf[r] = "Check"
  /\ IsCleared(r)
  /\ Ends(r)
  /\ UNCHANGED <<opps, verified, log, decisions, told, lost, begun, faults>>

\* RunCompleted; the demo is done with it.
Complete(r) ==
  /\ KindOf[r] # "Check"
  /\ IsCleared(r)
  /\ Logs(r, Event("RunCompleted", "None", 0))
  /\ IF KindOf[r] = "Demo" THEN Ends(r) ELSE Goes(r, "Completed")
  /\ UNCHANGED <<opps, verified, decisions, told, lost, begun, faults>>

-----------------------------------------------------------------------------
\* Mutation: findings that block are not counted.
IsFailureOnly(f) == f.severity = "Fail"

IsFailure(f) == f.severity \in {"Fail", "Block"}

\* build_decision_record.
DecisionOf(r) ==
  LET findings == run[r].validation.findings
      matches == run[r].report.matches
  IN  [opp |-> run[r].request.opp,
       status |-> run[r].validation.status,
       findings |-> Len(findings),
       fails |-> Cardinality({i \in DOMAIN findings : IsFailure(findings[i])}),
       warnings |-> Cardinality({i \in DOMAIN findings : findings[i].severity = "Warn"}),
       rules |-> {f.rule : f \in ToSet(findings)},
       evidence |-> [i \in DOMAIN matches |-> [atom |-> matches[i].atom,
                                               tokens |-> matches[i].evidence]],
       stats |-> run[r].report.stats]

\* record_match_decision stores the record.
StoreDecision(r) ==
  /\ run[r].phase = "Completed"
  /\ decisions' = [decisions EXCEPT ![run[r].number] = DecisionOf(r)]
  /\ Goes(r, "Recorded")
  /\ UNCHANGED <<opps, verified, log, told, lost, begun, faults>>

\* The store says nothing when the row is refused.
StoreDecisionFails(r) ==
  /\ run[r].phase = "Completed"
  /\ Fault
  /\ lost' = lost \cup {run[r].number}
  /\ Goes(r, "Recorded")
  /\ UNCHANGED <<opps, verified, log, decisions, told, begun>>

\* DecisionRecorded, and the answer with the decision's id.
AnswerMatch(r) ==
  /\ run[r].phase = "Recorded"
  /\ Logs(r, Event("DecisionRecorded", "None", 0))
  /\ told' = told \cup {run[r].number}
  /\ Ends(r)
  /\ UNCHANGED <<opps, verified, decisions, lost, begun, faults>>

\* append throws, or the process ends, at any step.
Break(r) ==
  /\ run[r].phase # "Idle"
  /\ Fault
  /\ Ends(r)
  /\ UNCHANGED <<opps, verified, log, decisions, told, lost, begun>>

-----------------------------------------------------------------------------
Next ==
  \E r \in Runners :
    \/ \E request \in Requests : Begin(r, request)
    \/ \E options \in DemoOptions : BeginDemo(r, options)
    \/ \E draft \in Drafts, opp \in Opps, override \in Overrides :
         BeginCheck(r, draft, opp, override)
    \/ StoreDemo(r)
    \/ StoreDemoPartly(r)
    \/ ReadOpportunity(r)
    \/ OpportunityMissing(r)
    \/ ReadAtoms(r)
    \/ AtomMissing(r)
    \/ ReadAtomsBusy(r)
    \/ \E hits \in HitLists : Match(r, hits)
    \/ ValidateReport(r)
    \/ AnnounceOverride(r)
    \/ EndCheck(r)
    \/ Complete(r)
    \/ StoreDecision(r)
    \/ StoreDecisionFails(r)
    \/ AnswerMatch(r)
    \/ Break(r)

Spec == Init /\ [][Next]_vars

-----------------------------------------------------------------------------
\* Type correctness: every run is at a step of its kind, and events, records
\* and answers belong to runs that were begun.
Statuses == {"accepted", "needs_review", "rejected", "blocked", "overridden"}
TypeOK ==
  /\ DOMAIN opps = Opps /\ DOMAIN verified \subseteq Atoms
  /\ begun \in 0 .. MaxRuns /\ faults \in 0 .. MaxFaults
  /\ \A n \in Numbers : n > begun =>
       log[n] = <<>> /\ decisions[n] = NoDecision /\ n \notin told \cup lost
  /\ \A n \in Numbers : decisions[n] # NoDecision => decisions[n].status \in Statuses
  /\ \A r \in Runners :
       /\ run[r].number \in 0 .. begun
       /\ run[r].phase \in {"Validated", "Cleared", "Completed", "Recorded"}
            <=> run[r].validation.status \in Statuses

\* The evidence of Matcher::evaluate is the best there is: whatever the order
\* atoms are given in, in both strategies and with atoms listed twice, each
\* requirement is matched by the eligible atom that overlaps it most, the
\* smallest id among equals, and by none only when none overlaps it.
ReportsAreBest ==
  \A r \in Runners :
    LET q == run[r]
        eligible == {a \in Atoms :
          Eligible(q.request.strategy, q.requirements, q.atoms, q.hits, a)}
    IN  KindOf[r] # "Check" /\ q.report # NoReport =>
          /\ DOMAIN q.report.matches = DOMAIN q.requirements
          /\ \A i \in DOMAIN q.requirements :
               IsBestMatch(q.requirements[i], q.report.matches[i], eligible)

\* An atom that is not verified is evidence nowhere but where the caller named
\* it and the vector index found it.  The documents allow it nowhere ("Only
\* verified atoms are used in matching", ARCHITECTURE.md:77): select_candidates
\* asks verify() of what the lexical stage ranks, and not of what the index
\* returns.  This bounds the divergence, which README.md reports.
UnverifiedIsNamed ==
  \A r \in Runners :
    \A m \in ToSet(run[r].report.matches) :
      KindOf[r] # "Check" /\ m.matched /\ [id |-> m.atom, verified |-> FALSE] \in ToSet(run[r].atoms) =>
        /\ run[r].request.atoms # All
        /\ run[r].request.strategy = "Hybrid"
        /\ m.atom \in ToSet(run[r].hits)

\* The matcher and the rules agree: a report of the matcher is never
\* rejected, it is blocked only for a requirement without text, and it is
\* accepted only if something matched.  An opportunity without requirements is
\* accepted.
MatcherMeetsRules ==
  \A r \in Runners :
    LET q == run[r]
    IN  KindOf[r] # "Check" /\ q.validation # Nothing =>
          /\ q.validation.status # "rejected"
          /\ q.validation.status \in {"blocked", "overridden"} <=>
               \E m \in ToSet(q.report.matches) : m.text = "Empty"
          /\ q.validation.status = "accepted" =>
               \/ \E m \in ToSet(q.report.matches) : m.matched
               \/ q.requirements = <<>>

\* An override lifts what it names and nothing else: the one rule that blocks
\* is the rule it names, every other status stands, and the trace says
\* ConstitutionOverrideApplied right after a ValidationCompleted that says
\* overridden, and only there.
OverridesAreEarned ==
  /\ \A r \in Runners :
       run[r].validation.status = "overridden" =>
         LET blocking == {f \in ToSet(run[r].validation.findings) : f.severity = "Block"}
         IN  {f.rule : f \in blocking} = {run[r].request.override}
  /\ \A n \in Numbers : \A i \in DOMAIN log[n] :
       log[n][i].type = "ConstitutionOverrideApplied" =>
         i > 1 /\ log[n][i - 1].type = "ValidationCompleted" /\ log[n][i - 1].status = "overridden"

\* ValidationCompleted tells what a decision says, but for one status:
\* needs_review is "unknown" in the event (app_service.cpp:130) and
\* "needs_review" in the decision (:287).
Announces(e, d) ==
  /\ e.type = "ValidationCompleted"
  /\ e.count = d.findings
  /\ IF d.status = "needs_review" THEN e.status = "unknown" ELSE e.status = d.status

\* A decision agrees with its trace: its run completed, the number of findings
\* and, needs_review apart, the status are those ValidationCompleted announced,
\* and no other status is announced as "unknown".  A run that was answered has
\* a decision, unless the store dropped it silently, and the trace names every
\* step in order.
DecisionsAreTraced ==
  \A n \in Numbers :
    LET types == [i \in DOMAIN log[n] |-> log[n][i].type]
        d == decisions[n]
    IN  /\ d # NoDecision =>
             /\ "RunCompleted" \in ToSet(types)
             /\ \E e \in ToSet(log[n]) : Announces(e, d)
             /\ d.findings = d.fails + d.warnings
             /\ (d.fails > 0) = (d.status \in {"rejected", "blocked", "overridden"})
        /\ n \in told =>
             /\ d # NoDecision \/ n \in lost
             /\ types \in {<<"RunStarted", "MatchCompleted", "ValidationCompleted",
                             "RunCompleted", "DecisionRecorded">>,
                           <<"RunStarted", "MatchCompleted", "ValidationCompleted",
                             "ConstitutionOverrideApplied", "RunCompleted",
                             "DecisionRecorded">>}
=============================================================================
