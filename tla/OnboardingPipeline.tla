-------------------------- MODULE OnboardingPipeline --------------------------
(***************************************************************************)
(* The stages of an application that is being onboarded, OnboardingPipeline *)
(* of routes/applications/ApplicationsRoute.tsx.  They are made of the      *)
(* status of the row and of the history of events, two queries whose        *)
(* answers are of different times.  The pipeline itself is external: each   *)
(* step ends with its event and status, and any of them may fail.           *)
(***************************************************************************)
EXTENDS Integers, FiniteSetsExt

CONSTANT Steps \* number of steps

ASSUME StepsAssumption == Steps \in Nat \ {0}

Failing == -1

VARIABLES
    done,   \* steps that are done
    failed, \* did the next one fail?
    status, \* the status the list holds: the last step done, or Failing
    events  \* the events the history holds

onboardingVars == <<done, failed, status, events>>

OnboardingPipelineInit == done = 1 /\ failed = FALSE /\ status = 1 /\ events = 0

StepEnds ==
    /\ done < Steps /\ ~failed
    /\ \/ done' = done + 1 /\ UNCHANGED failed
       \/ failed' = TRUE /\ UNCHANGED done
    /\ UNCHANGED <<status, events>>

ListAnswers == status' = (IF failed THEN Failing ELSE done) /\ UNCHANGED <<done, failed, events>>
HistoryAnswers == events' = done /\ UNCHANGED <<done, failed, status>>

OnboardingPipelineNext == StepEnds \/ ListAnswers \/ HistoryAnswers

OnboardingPipelineSpec == OnboardingPipelineInit /\ [][OnboardingPipelineNext]_onboardingVars

\* The step the status names: 0 when it names none.
currentIndex == IF status = Failing THEN 0 ELSE status

\* Mutant: a step is complete only with its event.
CompleteByEvent(k) == k <= events
Complete(k) == k <= events \/ (status # Failing /\ k <= currentIndex)

\* The first step after that of the status that has no event.
firstIncomplete ==
    LET later == {k \in 1..Steps : k > events /\ k > currentIndex}
    IN  IF later = {} THEN 0 ELSE Min(later)

Shown(k) ==
    IF Complete(k) THEN "complete"
    ELSE IF k # firstIncomplete /\ ~(status = Failing /\ k = 1) THEN "pending"
    ELSE IF status = Failing THEN "failed" ELSE "in progress"

\* Whichever of status and history is the older one: the complete steps come first, the
\* step after them is the one in progress or failed, none shown complete is still to be
\* done, and a failure is shown where it happened once the history is complete.
StagesInOrder ==
    /\ \A k \in 1..Steps : Shown(k) = "complete" => k <= done
    /\ \A k \in 1..Steps :
          Shown(k) \in {"in progress", "failed"} <=> (\A j \in 1..Steps : (j < k) <=> (Shown(j) = "complete"))
    /\ (status = Failing /\ events = done) => Shown(done + 1) = "failed"
=============================================================================
