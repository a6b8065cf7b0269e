---------------------------- MODULE MCPhasePlan ----------------------------
(***************************************************************************)
(* TLC instance of PhasePlan.  Every plan has the phase verify, which      *)
(* projects to a node of the instance under its second name; a graph may   *)
(* require a round of feedback, whose two phases are written as one.       *)
(***************************************************************************)
EXTENDS PhasePlan, TLC

CONSTANTS verify, feedback

MCPhase == {verify, feedback}
MCGiven == {<<"complete", TRUE, "yes">>, <<"pending", FALSE, "keep">>}
MCGraph == {[requires |-> {feedback}, required |-> {1}, allowed |-> {1}]}
MCRound == <<feedback>>
MCCandidates ==
  [p \in MCPhase |-> IF p = verify THEN <<"final_verify", "verify">> ELSE <<>>]

\* By hand somebody approves a phase, or says that it was set.
ByHand(line) == [line EXCEPT !.by = "user"]
MCHandLine == {ByHand(Event("recorded", verify, "approved", "keep")),
               ByHand(Event("updated", verify, "complete", "yes"))}

\* Of the log, steps and properties tell apart only decisions, whoever took
\* them, and the helper's inits and sets; of a command, what it has yet to
\* write.
Told(line) ==
  IF line.type = "recorded" THEN [line EXCEPT !.by = "helper"]
  ELSE IF Recorded(line) \in {"initialized", "updated"} THEN line
  ELSE Plain("other")
ToldOp ==
  CASE step = "append" -> [op EXCEPT !.event = Told(@)]
    [] step = "plan"   -> [op EXCEPT !.event = Plain("other")]
    [] OTHER           -> NoOp
View == <<run, plan, [i \in DOMAIN log |-> Told(log[i])], last, ToldOp, step,
          reader, touched, edits>>
=============================================================================
