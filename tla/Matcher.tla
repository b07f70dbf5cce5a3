------------------------------- MODULE Matcher -------------------------------
(***************************************************************************)
(* Matcher::evaluate: which atoms are candidates for an opportunity, and   *)
(* which of them is the evidence for each of its requirements.             *)
(*                                                                         *)
(* A text is the set of its tokens.  Ids of atoms are numbers, ordered as  *)
(* the strings are.  Scores of one requirement share a denominator, so     *)
(* they compare as the sizes of overlaps do; of the overall score only its *)
(* sign is kept.  What the vector index finds is a list of keys, among     *)
(* them keys of resumes, opportunities and atoms the caller did not give.  *)
(***************************************************************************)
EXTENDS Naturals, SequencesExt

CONSTANTS Atoms,       \* the ids of atoms
          AtomTokens,  \* the tokens of each atom: claim, title and tags
          KLexical,    \* HybridConfig
          KEmbedding

ASSUME MatcherAssumption ==
  /\ Atoms \subseteq Nat \ {0} /\ IsFiniteSet(Atoms)
  /\ DOMAIN AtomTokens = Atoms /\ \A a \in Atoms : IsFiniteSet(AtomTokens[a])
  /\ KLexical \in Nat /\ KEmbedding \in Nat

NoAtom == 0  \* an id that is empty, or none

\* The places in front of place i when s is sorted, stably, by a relation.
Ahead(s, places, before, i) ==
  {j \in places : <<s[j], s[i]>> \in before \/ (<<s[i], s[j]>> \notin before /\ j < i)}

\* The entries of s at these places, so sorted.
Arranged(s, places, before) ==
  [n \in 1 .. Cardinality(places) |->
     s[CHOOSE i \in places : Cardinality(Ahead(s, places, before, i)) = n - 1]]

\* A set of numbers in ascending order.
Ascending(S) ==
  LET s == SetToSeq(S) IN Arranged(s, DOMAIN s, {pair \in S \X S : pair[1] < pair[2]})

Overlap(tokens, atom) == Cardinality(tokens \cap AtomTokens[atom])

\* The tokens of all requirements.
Query(requirements) == UNION {r.tokens : r \in ToSet(requirements)}

-----------------------------------------------------------------------------
\* Candidates.  given is a list of atoms [id, verified].

Ids(given) == [i \in DOMAIN given |-> given[i].id]

VerifiedPlaces(given) == {i \in DOMAIN given : given[i].verified}

VerifiedIds(given) == Arranged(Ids(given), VerifiedPlaces(given), {})

Better(query) ==
  {pair \in Atoms \X Atoms :
     \/ Overlap(query, pair[1]) > Overlap(query, pair[2])
     \/ Overlap(query, pair[1]) = Overlap(query, pair[2]) /\ pair[1] < pair[2]}

TopLexical(given, query) ==
  LET ranked == Arranged(Ids(given), VerifiedPlaces(given), Better(query))
  IN  {ranked[n] : n \in {n \in DOMAIN ranked : n <= KLexical}}

\* hits is what the vector index returns, at most KEmbedding keys.
Merged(given, query, hits) == TopLexical(given, query) \cup ToSet(hits)

IsHybrid(strategy, requirements) == strategy = "Hybrid" /\ Query(requirements) # {}

Candidates(strategy, requirements, given, hits) ==
  IF IsHybrid(strategy, requirements)
  THEN Ascending(ToSet(Ids(given)) \cap Merged(given, Query(requirements), hits))
  ELSE VerifiedIds(given)

RetrievalStats(strategy, requirements, given, hits) ==
  IF IsHybrid(strategy, requirements)
  THEN [lexical |-> Cardinality(TopLexical(given, Query(requirements))),
        embedding |-> Cardinality(ToSet(hits)),
        merged |-> Cardinality(Merged(given, Query(requirements), hits))]
  ELSE LET all == Len(VerifiedIds(given))
       IN  [lexical |-> all, embedding |-> 0, merged |-> all]

-----------------------------------------------------------------------------
\* Evidence.  The candidates are gone through in order.

\* Mutation: no tie-break by id.
PrefersFirst(tokens, atom, best) == best = NoAtom \/ Overlap(tokens, atom) > Overlap(tokens, best)

Prefers(tokens, atom, best) ==
  \/ best = NoAtom
  \/ Overlap(tokens, atom) > Overlap(tokens, best)
  \/ Overlap(tokens, atom) = Overlap(tokens, best) /\ atom < best

BestAtom(tokens, candidates) ==
  LET best[n \in 0 .. Len(candidates)] ==
        IF n = 0 THEN NoAtom
        ELSE IF Prefers(tokens, candidates[n], best[n - 1]) THEN candidates[n] ELSE best[n - 1]
  IN  best[Len(candidates)]

\* Mutation: the best atom is evidence even when nothing overlaps.
IsMatchAtAll(tokens, best) == tokens # {} /\ best # NoAtom

\* A requirement without tokens, or that no candidate overlaps, is missing.
IsMatch(tokens, best) == tokens # {} /\ best # NoAtom /\ Overlap(tokens, best) > 0

RequirementMatch(requirement, candidates) ==
  LET best == BestAtom(requirement.tokens, candidates)
  IN  IF IsMatch(requirement.tokens, best)
      THEN [text |-> requirement.text, matched |-> TRUE, score |-> "Positive", atom |-> best,
            evidence |-> requirement.tokens \cap AtomTokens[best]]
      ELSE [text |-> requirement.text, matched |-> FALSE, score |-> "Zero", atom |-> NoAtom,
            evidence |-> {}]

Evaluate(strategy, requirements, given, hits) ==
  LET candidates == Candidates(strategy, requirements, given, hits)
      matches == [i \in DOMAIN requirements |-> RequirementMatch(requirements[i], candidates)]
  IN  [score |-> IF \E m \in ToSet(matches) : m.matched THEN "Positive" ELSE "Zero",
       matches |-> matches,
       stats |-> RetrievalStats(strategy, requirements, given, hits)]

-----------------------------------------------------------------------------
\* Reference definitions, for properties.

\* Verified and among the KLexical first: fewer than that many entries of the
\* list are better.  An atom that is listed twice takes two places.
RanksHigh(given, query, atom) ==
  /\ [id |-> atom, verified |-> TRUE] \in ToSet(given)
  /\ Cardinality({i \in VerifiedPlaces(given) :
       \/ Overlap(query, given[i].id) > Overlap(query, atom)
       \/ Overlap(query, given[i].id) = Overlap(query, atom) /\ given[i].id < atom}) < KLexical

\* An atom that may be evidence.
Eligible(strategy, requirements, given, hits, atom) ==
  /\ \E a \in ToSet(given) : a.id = atom
  /\ IF IsHybrid(strategy, requirements)
     THEN RanksHigh(given, Query(requirements), atom) \/ atom \in ToSet(hits)
     ELSE [id |-> atom, verified |-> TRUE] \in ToSet(given)

IsBestMatch(requirement, match, eligible) ==
  LET overlapping == {a \in eligible : Overlap(requirement.tokens, a) > 0}
  IN  /\ match.matched <=> overlapping # {}
      /\ match.matched =>
           /\ match.atom \in overlapping
           /\ \A a \in overlapping \ {match.atom} :
                \/ Overlap(requirement.tokens, a) < Overlap(requirement.tokens, match.atom)
                \/ Overlap(requirement.tokens, a) = Overlap(requirement.tokens, match.atom)
                   /\ match.atom < a
           /\ match.evidence = requirement.tokens \cap AtomTokens[match.atom]
=============================================================================
