------------------------------ MODULE Runbooks ------------------------------
(***************************************************************************)
(* agent/tools/runbooks.py: search_runbooks.                               *)
(*                                                                         *)
(* The symptoms a model describes are given by the keywords of each        *)
(* runbook they hit: phrases and long stems, and short words.              *)
(***************************************************************************)
EXTENDS ToolCall

CONSTANTS
  RUNBOOKS,      \* number of runbooks, in the order of the corpus
  MIN_SCORE,
  MAX_RESULTS,
  NoSymptoms     \* blank text

\* _score: a phrase or a long stem is worth two, a short word one.
Score(symptoms, rb) == 2 * symptoms[rb].phrases + symptoms[rb].words

ASSUME RunbooksAssumption ==
  /\ {RUNBOOKS, MIN_SCORE, MAX_RESULTS} \subseteq Nat \ {0}
  /\ \A r \in Request :
       r.tool = "search_runbooks" /\ r.fits /\ r.symptoms # NoSymptoms =>
         \A rb \in 1..RUNBOOKS : Score(r.symptoms, rb) \in Nat

\* The runbooks that score MIN_SCORE.
Applicable(symptoms) == {rb \in 1..RUNBOOKS : Score(symptoms, rb) >= MIN_SCORE}

\* The sort is by score, descending, and stable.
Precedes(symptoms, r, s) == \/ Score(symptoms, r) > Score(symptoms, s)
                            \/ Score(symptoms, r) = Score(symptoms, s) /\ r < s

Place(symptoms, rb) ==
  1 + Cardinality({r \in Applicable(symptoms) : Precedes(symptoms, r, rb)})

\* The first MAX_RESULTS of the sorted runbooks.
Ranked(symptoms) ==
  LET n == Cardinality(Applicable(symptoms))
  IN  [k \in 1..(IF n < MAX_RESULTS THEN n ELSE MAX_RESULTS) |->
         CHOOSE rb \in Applicable(symptoms) : Place(symptoms, rb) = k]

\* run: the runbooks found, or the answer that none applies.
RunbookSearch ==
  /\ pc = "match"
  /\ LET found == IF call.symptoms = NoSymptoms THEN <<>> ELSE Ranked(call.symptoms)
     IN  Return([tool |-> "search_runbooks", matched |-> found # <<>>, runbooks |-> found])
  /\ UNCHANGED <<call, clock>>

-----------------------------------------------------------------------------
\* No better procedure is withheld: a runbook that reaches MIN_SCORE is left out
\* only for MAX_RESULTS others that score no less, and none below it is offered.
BestRunbooksAreOffered ==
  pc = "done" /\ payload.tool = "search_runbooks" /\ call.symptoms # NoSymptoms =>
    LET offered == ToSet(payload.runbooks)
    IN  \A rb \in 1..RUNBOOKS :
          IF rb \in offered THEN Score(call.symptoms, rb) >= MIN_SCORE
          ELSE \/ Score(call.symptoms, rb) < MIN_SCORE
               \/ /\ Cardinality(offered) = MAX_RESULTS
                  /\ \A other \in offered : Score(call.symptoms, other) >= Score(call.symptoms, rb)
=============================================================================
