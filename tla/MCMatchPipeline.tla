--------------------------- MODULE MCMatchPipeline ---------------------------
(***************************************************************************)
(* An instance of MatchPipeline: the tool, the demo and a caller of the    *)
(* validation pipeline on two atoms and two tokens.                        *)
(***************************************************************************)
EXTENDS MatchPipeline

\* x is what atom 1 and 2 share, y and z tell them apart.
TheTokens == (1 :> {"x", "y"}) @@ (2 :> {"x", "z"})

Kinds == [r \in Runners |-> CASE r = "tool" -> "Tool" [] r = "demo" -> "Demo" [] r = "check" -> "Check"]

Requirement(tokens) == [text |-> "Some", tokens |-> tokens]
NoText == [text |-> "Empty", tokens |-> {}]

\* The demo's first requirement fits its unverified atom only.
TheDemo == <<Requirement({"z"}), Requirement({"y", "v"})>>
TheDemoAtoms == (1 :> TRUE) @@ (2 :> FALSE)
TheOptions == {[strategy |-> "Hybrid", override |-> "SCHEMA-001"]}

TheOpps == {"o"}
TheOpportunities ==
  {[o \in TheOpps |-> requirements] : requirements \in
     {NoOpp, <<>>, <<NoText, Requirement({"x"})>>, <<Requirement({}), Requirement({"y", "z"})>>,
      <<Requirement({"x"}), Requirement({"x", "z"})>>, <<Requirement({"v"})>>}}

TheVerifieds ==
  {(1 :> TRUE) @@ (2 :> TRUE), (1 :> TRUE) @@ (2 :> FALSE), (1 :> FALSE) @@ (2 :> TRUE), 2 :> TRUE}

Request(opp, atoms, strategy, override) ==
  [opp |-> opp, atoms |-> atoms, strategy |-> strategy, override |-> override]
TheRequests ==
  {Request("o", atoms, strategy, "SCHEMA-001") :
     atoms \in {All, <<2, 1>>, <<1, 1, 2>>}, strategy \in {"Lexical", "Hybrid"}}
    \cup {Request("o", All, "Lexical", "None"), Request("o", All, "Lexical", "EVID-001"),
          Request("None", All, "Lexical", "None")}

\* Reports no matcher makes.
Draft(score, text, matched, atom, evidence) ==
  [score |-> score, stats |-> "None",
   matches |-> <<[text |-> text, matched |-> matched, score |-> score, atom |-> atom,
                  evidence |-> evidence]>>]
TheDrafts ==
  {Draft("Zero", "Some", matched, atom, evidence) :
     matched \in BOOLEAN, atom \in {NoAtom, 1}, evidence \in {{}, {"x"}}}
    \cup {Draft("Negative", "Empty", TRUE, NoAtom, {}), Draft("Positive", "Empty", TRUE, 1, {})}
TheOverrides == {"None", "SCHEMA-001", "EVID-001"}

\* 9 is a key of something else.
TheHits == {<<>>, <<1>>, <<2>>, <<9>>}
=============================================================================
