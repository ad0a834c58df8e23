-------------------------- MODULE OnboardingReview --------------------------
(***************************************************************************)
(* The review an administrator gives to what the system extracts while a   *)
(* project is onboarded.  A prompt or a file is drafted into facts; facts  *)
(* of low confidence are corrected, the corrections checked by the server, *)
(* and the whole approved.  Then rules and documents are generated, read,  *)
(* and approved, which ingests the documents one by one.                   *)
(*                                                                         *)
(* Every call answers into the state of that moment.  Uploads and project  *)
(* changes are never disabled, so drafts, checks and approvals overlap.    *)
(***************************************************************************)
EXTENDS Integers, Sequences, FiniteSets, TLC

CONSTANTS
    FactKeys,       \* the facts of a knowledge pack
    Texts,          \* what may be typed over a fact, apart from nothing
    DocumentSets,   \* sequences of documents a generation may return
    MaxReviewCalls, \* bound on the calls made
    MaxReviewFaults,\* bound on failed calls
    MaxEdits        \* bound on the corrections typed

ASSUME OnboardingAssumption ==
    /\ "" \notin Texts /\ MaxReviewCalls \in Nat /\ MaxReviewFaults \in Nat /\ MaxEdits \in Nat
    /\ \A documents \in DocumentSets : documents \in Seq(STRING)

VARIABLES
    sources,        \* onboardingSourceDocs.rows with a text
    pack,           \* knowledgePackState: [facts, loading, approved]; a fact is accepted or not
    corrections,    \* knowledgePackCorrections: a partial function from facts to texts
    revalidation,   \* knowledgePackRevalidation: [loading, facts, texts]
    documents,      \* onboardingGeneratedDocs
    docApproval,    \* onboardingDocApprovalState: [loading, approved]
    docsAck,        \* onboardingReviewAck.docs
    saving,         \* onboardingState.loading
    reviewCalls,    \* the calls under way
    verified,       \* the <<fact, text>> the server has accepted
    ingested,       \* the documents the server has ingested
    announced,      \* the documents the console has called approved
    asked, faulted, edited

onboardingVars ==
    <<sources, pack, corrections, revalidation, documents, docApproval, docsAck, saving,
      reviewCalls, verified, ingested, announced, asked, faulted, edited>>
knowledgeVars == <<sources, pack, corrections, revalidation, verified>>
documentVars == <<documents, docApproval, docsAck, ingested, announced>>

NoDraft == [k \in {} |-> FALSE]
NoPack == [facts |-> NoDraft, loading |-> FALSE, approved |-> FALSE]
NothingChecked == [loading |-> FALSE, facts |-> NoDraft, texts |-> <<>>]
Unreviewed == [loading |-> FALSE, approved |-> FALSE]
Drafted == pack.facts # NoDraft

\* Mutant: an answer of the server counts for whatever is in the box.
TrustedOnce(k) == k \in DOMAIN revalidation.texts

\* The server's verdict is trusted for exactly the text it was computed from.
Trusted(k) == k \in DOMAIN revalidation.texts /\ revalidation.texts[k] = corrections[k]

\* correctedKnowledgeFacts: an untouched fact stands, an emptied or unchecked one does not.
FactAccepted(k) ==
    IF k \notin DOMAIN corrections THEN pack.facts[k]
    ELSE corrections[k] # "" /\ Trusted(k) /\ revalidation.facts[k]

knowledgeReviewReady == Drafted /\ \A k \in DOMAIN pack.facts : FactAccepted(k)
knowledgeHasUnvalidatedInput == sources # {} /\ Drafted /\ ~pack.approved
hasPendingApproval == documents # <<>> /\ ~docApproval.approved

OnboardingInit ==
    /\ sources = {} /\ pack = NoPack /\ corrections = <<>> /\ revalidation = NothingChecked
    /\ documents = <<>> /\ docApproval = Unreviewed /\ docsAck = FALSE /\ saving = FALSE
    /\ reviewCalls = {} /\ verified = {} /\ ingested = {} /\ announced = {}
    /\ asked = 0 /\ faulted = 0 /\ edited = 0

Call(c) == /\ asked < MaxReviewCalls /\ asked' = asked + 1
           /\ reviewCalls' = reviewCalls \cup {[n |-> asked, call |-> c]}
Over(c) == reviewCalls' = reviewCalls \ {c} /\ UNCHANGED asked
Becomes(c, next) == /\ reviewCalls' = (reviewCalls \ {c}) \cup {[n |-> c.n, call |-> next]}
                    /\ UNCHANGED asked
Fault == faulted < MaxReviewFaults /\ faulted' = faulted + 1

(* The knowledge pack ****************************************************)

\* draftKnowledgePack up to its call.
DraftBegins == pack' = [pack EXCEPT !.loading = TRUE, !.approved = FALSE]

DraftKnowledgePackFromPrompt ==
    /\ ~pack.loading
    /\ sources' = sources \cup {"prompt"}
    /\ DraftBegins /\ Call([kind |-> "draft"])
    /\ UNCHANGED <<corrections, revalidation, verified, documentVars, saving, faulted, edited>>

FilePicked ==
    /\ Call([kind |-> "read"])
    /\ UNCHANGED <<knowledgeVars, documentVars, saving, faulted, edited>>

\* The file takes the place of every row of its category, the prompt's too.
FileRead(c) ==
    /\ c.call.kind = "read"
    /\ \/ /\ sources' = {"file"}
          /\ DraftBegins /\ Becomes(c, [kind |-> "draft"])
          /\ UNCHANGED <<corrections, faulted>>
       \/ /\ sources' = {}      \* no document is left, and the pack goes with them
          /\ pack' = NoPack /\ corrections' = <<>> /\ Over(c)
          /\ UNCHANGED faulted
       \/ Fault /\ Over(c) /\ UNCHANGED <<sources, pack, corrections>>
    /\ UNCHANGED <<revalidation, verified, documentVars, saving, edited>>

DraftAnswered(c) ==
    /\ c.call.kind = "draft"
    /\ \E facts \in [FactKeys -> BOOLEAN] : pack' = [facts |-> facts, loading |-> FALSE, approved |-> FALSE]
    /\ corrections' = <<>> /\ revalidation' = NothingChecked
    /\ Over(c)
    /\ UNCHANGED <<sources, verified, documentVars, saving, faulted, edited>>

DraftFails(c) ==
    /\ c.call.kind = "draft" /\ Fault
    /\ pack' = [pack EXCEPT !.loading = FALSE, !.approved = FALSE]
    /\ Over(c)
    /\ UNCHANGED <<sources, corrections, revalidation, verified, documentVars, saving, edited>>

UpdateKnowledgeFactCorrection ==
    /\ Drafted /\ edited < MaxEdits /\ edited' = edited + 1
    /\ \E k \in DOMAIN pack.facts, text \in Texts \cup {""} : corrections' = (k :> text) @@ corrections
    /\ UNCHANGED <<sources, pack, revalidation, verified, documentVars, saving, reviewCalls, asked, faulted>>

\* The texts of this moment are sent, and kept with the call.
RevalidateKnowledgeCorrections ==
    /\ Drafted /\ ~revalidation.loading
    /\ \E k \in DOMAIN corrections : corrections[k] # ""
    /\ revalidation' = [revalidation EXCEPT !.loading = TRUE]
    /\ Call([kind |-> "validate", texts |-> corrections])
    /\ UNCHANGED <<sources, pack, corrections, verified, documentVars, saving, faulted, edited>>

RevalidationAnswered(c) ==
    /\ c.call.kind = "validate"
    /\ \E facts \in [FactKeys -> BOOLEAN] :
          /\ revalidation' = [loading |-> FALSE, facts |-> facts, texts |-> c.call.texts]
          /\ verified' = verified \cup {<<k, c.call.texts[k]>> : k \in {j \in DOMAIN c.call.texts : facts[j]}}
    /\ Over(c)
    /\ UNCHANGED <<sources, pack, corrections, documentVars, saving, faulted, edited>>

RevalidationFails(c) ==
    /\ c.call.kind = "validate" /\ Fault
    /\ revalidation' = [revalidation EXCEPT !.loading = FALSE]
    /\ Over(c)
    /\ UNCHANGED <<sources, pack, corrections, verified, documentVars, saving, edited>>

ApproveKnowledgePack ==
    /\ ~pack.loading /\ sources # {} /\ knowledgeReviewReady
    /\ pack' = [pack EXCEPT !.loading = TRUE]
    /\ Call([kind |-> "approve", texts |-> corrections, facts |-> pack.facts])
    /\ UNCHANGED <<sources, corrections, revalidation, verified, documentVars, saving, faulted, edited>>

\* The answer is the new pack; it also ticks the box of the documents.
ApprovalAnswered(c) ==
    /\ c.call.kind = "approve"
    /\ \E facts \in [FactKeys -> BOOLEAN] : pack' = [facts |-> facts, loading |-> FALSE, approved |-> TRUE]
    /\ docsAck' = TRUE
    /\ Over(c)
    /\ UNCHANGED <<sources, corrections, revalidation, verified, documents, docApproval, ingested, announced,
                   saving, faulted, edited>>

ApprovalFails(c) ==
    /\ c.call.kind = "approve" /\ Fault
    /\ pack' = [pack EXCEPT !.loading = FALSE, !.approved = FALSE]
    /\ Over(c)
    /\ UNCHANGED <<sources, corrections, revalidation, verified, documentVars, saving, edited>>

(* The project and the generated documents *******************************)

\* Another project is chosen, or the form is cleared for a new one.
ApplyProjectOnboardingRow ==
    /\ sources # {} /\ sources' = {}
    /\ UNCHANGED <<pack, corrections, revalidation, verified, documentVars, saving, reviewCalls, asked, faulted, edited>>

ResetNewProjectOnboardingDraft ==
    /\ sources' = {} /\ documents' = <<>> /\ docApproval' = Unreviewed
    /\ UNCHANGED <<pack, corrections, revalidation, verified, docsAck, ingested, announced, saving,
                   reviewCalls, asked, faulted, edited>>

LoadOnboardingAdminData ==
    /\ saving' = TRUE
    /\ Call([kind |-> "load", refresh |-> FALSE])
    /\ UNCHANGED <<knowledgeVars, documentVars, faulted, edited>>

SaveOnboardingConnectivity ==
    /\ ~saving /\ ~hasPendingApproval /\ ~knowledgeHasUnvalidatedInput
    /\ saving' = TRUE
    /\ documents' = <<>> /\ docApproval' = Unreviewed /\ docsAck' = FALSE
    /\ Call([kind |-> "save"])
    /\ UNCHANGED <<knowledgeVars, ingested, announced, faulted, edited>>

\* What was generated is shown, and the state of the project is loaded, twice.
SaveAnswered(c) ==
    /\ c.call.kind = "save"
    /\ documents' \in DocumentSets
    /\ Becomes(c, [kind |-> "load", refresh |-> TRUE])
    /\ saving' = TRUE
    /\ UNCHANGED <<knowledgeVars, docApproval, docsAck, ingested, announced, faulted, edited>>

SaveFails(c) ==
    /\ c.call.kind = "save" /\ Fault
    /\ saving' = FALSE
    /\ Over(c)
    /\ UNCHANGED <<knowledgeVars, documentVars, edited>>

\* A project of the answer is applied unless a new one is being made; a failed load is shown only.
LoadAnswered(c) ==
    /\ c.call.kind = "load"
    /\ sources' \in {sources, {}}
    /\ saving' = FALSE
    /\ IF c.call.refresh THEN Becomes(c, [kind |-> "refresh"]) ELSE Over(c)
    /\ UNCHANGED <<pack, corrections, revalidation, verified, documentVars, faulted, edited>>

RefreshViewsAfterSubmit(c) ==
    /\ c.call.kind = "refresh"
    /\ saving' = TRUE
    /\ Becomes(c, [kind |-> "load", refresh |-> FALSE])
    /\ UNCHANGED <<knowledgeVars, documentVars, faulted, edited>>

AcknowledgeDocuments ==
    /\ documents # <<>> /\ docsAck' = ~docsAck
    /\ UNCHANGED <<knowledgeVars, documents, docApproval, ingested, announced, saving,
                   reviewCalls, asked, faulted, edited>>

ClearDocuments ==
    /\ documents # <<>> /\ ~docApproval.loading
    /\ documents' = <<>> /\ docApproval' = Unreviewed
    /\ UNCHANGED <<knowledgeVars, docsAck, ingested, announced, saving, reviewCalls, asked, faulted, edited>>

\* A run through a batch: the document it is at, and the failures so far.
Ingestion(batch, next, failed) == [kind |-> "ingest", batch |-> batch, next |-> next, failed |-> failed]

ApproveGeneratedOnboardingDocuments ==
    /\ documents # <<>> /\ docApproval = Unreviewed /\ docsAck
    /\ docApproval' = [loading |-> TRUE, approved |-> FALSE]
    /\ Call(Ingestion(documents, 1, 0))
    /\ UNCHANGED <<knowledgeVars, documents, docsAck, ingested, announced, saving, faulted, edited>>

\* One document after the other; a failure is counted and the rest goes on.
IngestDocument(c) ==
    /\ c.call.kind = "ingest" /\ c.call.next <= Len(c.call.batch)
    /\ \/ /\ ingested' = ingested \cup {c.call.batch[c.call.next]}
          /\ Becomes(c, Ingestion(c.call.batch, c.call.next + 1, c.call.failed))
          /\ UNCHANGED faulted
       \/ /\ Fault
          /\ Becomes(c, Ingestion(c.call.batch, c.call.next + 1, c.call.failed + 1))
          /\ UNCHANGED ingested
    /\ UNCHANGED <<knowledgeVars, documents, docApproval, docsAck, announced, saving, edited>>

AllIngested(call) == call.failed = 0

DocumentsApproved(c) ==
    /\ c.call.kind = "ingest" /\ c.call.next > Len(c.call.batch)
    /\ docApproval' = [loading |-> FALSE, approved |-> AllIngested(c.call)]
    /\ docsAck' = (AllIngested(c.call) \/ docsAck)
    /\ announced' = IF AllIngested(c.call)
                    THEN announced \cup {c.call.batch[i] : i \in DOMAIN c.call.batch} ELSE announced
    /\ Over(c)
    /\ UNCHANGED <<knowledgeVars, documents, ingested, saving, faulted, edited>>

KnowledgeNext ==
    \/ DraftKnowledgePackFromPrompt \/ FilePicked \/ UpdateKnowledgeFactCorrection
    \/ RevalidateKnowledgeCorrections \/ ApproveKnowledgePack
    \/ \E c \in reviewCalls :
          \/ FileRead(c) \/ DraftAnswered(c) \/ DraftFails(c)
          \/ RevalidationAnswered(c) \/ RevalidationFails(c)
          \/ ApprovalAnswered(c) \/ ApprovalFails(c)

DocumentsNext ==
    \/ ApplyProjectOnboardingRow \/ ResetNewProjectOnboardingDraft
    \/ LoadOnboardingAdminData \/ SaveOnboardingConnectivity
    \/ AcknowledgeDocuments \/ ClearDocuments \/ ApproveGeneratedOnboardingDocuments
    \/ \E c \in reviewCalls :
          \/ SaveAnswered(c) \/ SaveFails(c) \/ LoadAnswered(c) \/ RefreshViewsAfterSubmit(c)
          \/ IngestDocument(c) \/ DocumentsApproved(c)

OnboardingNext == KnowledgeNext \/ DocumentsNext
OnboardingSpec == OnboardingInit /\ [][OnboardingNext]_onboardingVars

(***************************************************************************)
(* Properties                                                              *)
(***************************************************************************)
\* Whatever drafts, checks and approvals overlap: no correction goes into an approved
\* pack that the server has not accepted in exactly these words, and no document is
\* called approved that the server has not ingested.
OnlyTheCheckedIsAccepted ==
    /\ \A c \in reviewCalls : c.call.kind = "approve" =>
          \A k \in DOMAIN c.call.facts :
             IF k \in DOMAIN c.call.texts THEN <<k, c.call.texts[k]>> \in verified ELSE c.call.facts[k]
    /\ announced \subseteq ingested
=============================================================================
