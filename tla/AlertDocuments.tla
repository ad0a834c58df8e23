--------------------------- MODULE AlertDocuments ---------------------------
(***************************************************************************)
(* The dialog in which an operator provides the documents of an alert: one *)
(* of each kind.  The dialog is opened for an alert and shows one kind at  *)
(* a time: a draft, unless the list of documents has a document that       *)
(* matches.  What the form holds is uploaded; a document can also be made  *)
(* from the analysis without the form, or all of them at once.             *)
(*                                                                         *)
(* The form, the flag that disables the buttons and the document the       *)
(* dialog is about are single states of the page: every answer writes them *)
(* whatever the operator has opened meanwhile.                             *)
(*                                                                         *)
(* The services of this repository store a new document and list them all. *)
(* They have no route to read one, none to replace one, and take no jira   *)
(* and no remediation documents: these calls are refused, and what the     *)
(* console does when they succeed is left out.                             *)
(***************************************************************************)
EXTENDS Integers, Sequences
LOCAL INSTANCE SequencesExt

CONSTANTS
    DocAlerts,      \* the alerts
    DocKinds,       \* ALERT_DOC_KIND_OPTIONS: the kinds, in order
    Matching,       \* the pairs of an alert and an alert whose documents match it, too
    NoDoc,          \* no document, and no alert
    MaxDocActs,     \* bound on what the operator does
    MaxDocFaults    \* bound on lost calls

ASSUME DocumentsAssumption ==
    /\ DocKinds \in Seq(STRING) /\ {"incident", "runbook", "remediation"} \subseteq ToSet(DocKinds)
    /\ Matching \subseteq DocAlerts \X DocAlerts /\ \A a \in DocAlerts : <<a, a>> \in Matching
    /\ NoDoc \notin DocAlerts /\ MaxDocActs \in Nat /\ MaxDocFaults \in Nat

VARIABLES
    savedDocs,  \* by alert and kind: the alert whose words the stored document holds
    docRows,    \* ragDocs.rows
    docPrompt,  \* the dialog: [alert, kind, existing, update]
    docForm,    \* alertOnboarding: [doc, words], what it is a document of and whose words it holds
    docLoading, \* alertOnboardingState.loading
    docCalls,   \* the calls under way
    docActs, docFaults

dialogVars == <<savedDocs, docRows, docPrompt, docForm, docLoading, docCalls, docActs, docFaults>>

Kinds == ToSet(DocKinds)
AlertDocs == DocAlerts \X Kinds
Closed == [alert |-> NoDoc, kind |-> "runbook", existing |-> NoDoc, update |-> FALSE]
StoredDocs(docs) == {d \in AlertDocs : docs[d] # NoDoc}

\* Some documents exist, and the list of them has been read.
DialogInit ==
    /\ savedDocs \in {[d \in AlertDocs |-> IF d = e THEN d[1] ELSE NoDoc] :
                         e \in {NoDoc} \cup (DocAlerts \X {"runbook"})}
    /\ docRows = StoredDocs(savedDocs)
    /\ docPrompt = Closed
    /\ docForm = [doc |-> <<NoDoc, "incident">>, words |-> NoDoc]
    /\ docLoading = FALSE /\ docCalls = {} /\ docActs = 0 /\ docFaults = 0

(***************************************************************************)
(* What the operator does                                                  *)
(***************************************************************************)
Act == /\ docActs < MaxDocActs /\ docActs' = docActs + 1
       /\ UNCHANGED <<savedDocs, docRows, docFaults>>
Sends(call) == docCalls' = docCalls \cup {[n |-> docActs, call |-> call]}

\* The first document of the kind that names the alert, or its type and one of its services.
findMatchingRagDocument(rows, a, kind) ==
    LET found == {d \in rows : <<a, d[1]>> \in Matching /\ d[2] = kind} IN
    IF found = {} THEN NoDoc ELSE CHOOSE d \in found : TRUE

buildAlertDocumentDraft(a, kind) == [doc |-> <<a, kind>>, words |-> a]

\* setDocPromptDraftForKind: a stored document is asked for, anything else is drafted at once.
Shows(a, kind) ==
    LET existing == findMatchingRagDocument(docRows, a, kind) IN
    /\ docPrompt' = [alert |-> a, kind |-> kind, existing |-> existing, update |-> existing # NoDoc]
    /\ IF existing # NoDoc THEN Sends([op |-> "read"]) /\ UNCHANGED docForm
       ELSE docForm' = buildAlertDocumentDraft(a, kind) /\ UNCHANGED docCalls

\* The first kind that has a document, or else a runbook.
InitialKind(a) ==
    LET i == SelectInSeq(DocKinds, LAMBDA kind : findMatchingRagDocument(docRows, a, kind) # NoDoc)
    IN  IF i = 0 THEN "runbook" ELSE DocKinds[i]

\* Opening the dialog ends by clearing the state, while the read is still out.
OpenDocumentPrompt(a) ==
    /\ Act /\ Shows(a, InitialKind(a))
    /\ docLoading' = FALSE

IsOpen == docPrompt.alert # NoDoc

ChooseDocKind(kind) ==
    /\ IsOpen /\ Act /\ Shows(docPrompt.alert, kind)
    /\ docLoading' = (docLoading \/ docPrompt'.existing # NoDoc)

ChooseDocMode(update) ==
    /\ IsOpen /\ docPrompt.update # update
    /\ update => docPrompt.existing # NoDoc
    /\ Act /\ docPrompt' = [docPrompt EXCEPT !.update = update]
    /\ UNCHANGED <<docForm, docLoading, docCalls>>

\* The kind of what the form holds, whose words stay.
ChooseFormKind(kind) ==
    /\ IsOpen /\ docForm.doc[2] # kind
    /\ Act /\ docForm' = [docForm EXCEPT !.doc[2] = kind]
    /\ UNCHANGED <<docPrompt, docLoading, docCalls>>

CloseDocumentPrompt ==
    /\ IsOpen /\ Act /\ docPrompt' = Closed
    /\ UNCHANGED <<docForm, docLoading, docCalls>>

\* Re-Analyze, and the plan of a remediation: neither disables anything while it waits.
ReAnalyze ==
    /\ IsOpen /\ ~docLoading
    /\ \E kind \in {docPrompt.kind} \cup ({docForm.doc[2]} \cap {"remediation"}) :
          Sends([op |-> "draft", alert |-> docPrompt.alert, kind |-> kind])
    /\ Act /\ UNCHANGED <<docPrompt, docForm, docLoading>>

\* Mutant: the document is uploaded as one of the alert of the dialog.
FormOfDialog == [docForm EXCEPT !.doc[1] = docPrompt.alert]

UploadedForm == docForm

\* A document of the list is replaced, which is refused, or a new one stored.
SubmitAlertOnboarding ==
    /\ IsOpen /\ ~docLoading
    /\ Act /\ docLoading' = TRUE
    /\ Sends([op |-> IF docPrompt.update /\ docPrompt.existing # NoDoc THEN "replace" ELSE "upload",
              form |-> UploadedForm])
    /\ UNCHANGED <<docPrompt, docForm>>

\* A document of one kind, or of each kind in turn, made from the analysis; the call looks
\* for documents in the list of this moment.
Creation(op, kind) == [op |-> op, alert |-> docPrompt.alert, kind |-> kind, rows |-> docRows]

AutoCreateAlertDocument ==
    /\ IsOpen /\ ~docLoading
    /\ Act /\ docLoading' = TRUE /\ Sends(Creation("create", docPrompt.kind))
    /\ UNCHANGED <<docPrompt, docForm>>

AutoCreateAllAlertDocuments ==
    /\ IsOpen /\ ~docLoading
    /\ Act /\ docLoading' = TRUE /\ Sends(Creation("create all", DocKinds[1]))
    /\ UNCHANGED <<docPrompt, docForm>>

(***************************************************************************)
(* What is answered                                                        *)
(***************************************************************************)
CallOver(c) == docCalls' = docCalls \ {c}
GoesOn(c, next) == docCalls' = (docCalls \ {c}) \cup {[n |-> c.n, call |-> next]}
Answers == UNCHANGED <<docActs, docFaults>>
CallLost == docFaults < MaxDocFaults /\ docFaults' = docFaults + 1 /\ UNCHANGED docActs

AcceptedKind(kind) == kind \notin {"jira", "remediation"}

\* The form of an answer under way: what it holds, or the draft of the analysis.
FormOf(call) == IF "form" \in DOMAIN call THEN call.form ELSE buildAlertDocumentDraft(call.alert, call.kind)

Refused(call) ==
    \/ call.op \in {"read", "replace"}
    \/ call.op \in {"upload", "create", "create all"} /\ ~AcceptedKind(FormOf(call).doc[2])
    \/ call.op \in {"create", "create all"}
          /\ findMatchingRagDocument(call.rows, call.alert, call.kind) # NoDoc

\* Whatever fails leaves the form, the dialog and the list as they are.
CallRefused(c) ==
    /\ Refused(c.call) /\ Answers
    /\ docLoading' = FALSE
    /\ CallOver(c) /\ UNCHANGED <<savedDocs, docRows, docPrompt, docForm>>

\* The analysis that cannot be read is taken as empty: a draft never fails.
DraftShown(c) ==
    /\ c.call.op = "draft"
    /\ docForm' = buildAlertDocumentDraft(c.call.alert, c.call.kind)
    /\ CallOver(c) /\ Answers /\ UNCHANGED <<savedDocs, docRows, docPrompt, docLoading>>

\* write_rag_document: the file is named by alert and kind, so a second one replaces the
\* first; a document without an alert gets a name of its own.
WriteRagDocument(form) ==
    savedDocs' = IF form.doc \in AlertDocs THEN [savedDocs EXCEPT ![form.doc] = form.words] ELSE savedDocs

\* The dialog, whatever it is about by now, turns to the document that was stored.
Turned(d) == [docPrompt EXCEPT !.existing = d, !.update = TRUE]

DocumentUploaded(c) ==
    /\ c.call.op = "upload" /\ ~Refused(c.call) /\ Answers
    /\ WriteRagDocument(c.call.form)
    /\ docLoading' = FALSE /\ docPrompt' = Turned(c.call.form.doc)
    /\ GoesOn(c, [op |-> "list", turn |-> NoDoc])
    /\ UNCHANGED <<docRows, docForm>>

\* Here the dialog turns after the list has been read again.
DocumentCreated(c) ==
    /\ c.call.op = "create" /\ ~Refused(c.call) /\ Answers
    /\ WriteRagDocument(FormOf(c.call))
    /\ docLoading' = FALSE
    /\ GoesOn(c, [op |-> "list", turn |-> FormOf(c.call).doc])
    /\ UNCHANGED <<docRows, docPrompt, docForm>>

\* The next kind.  One of the kinds is always refused, which ends the run: the list is
\* never read again.
NextCreated(c) ==
    /\ c.call.op = "create all" /\ ~Refused(c.call) /\ Answers
    /\ WriteRagDocument(FormOf(c.call))
    /\ LET i == SelectInSeq(DocKinds, LAMBDA kind : kind = c.call.kind) IN
       i < Len(DocKinds) /\ GoesOn(c, [c.call EXCEPT !.kind = DocKinds[i + 1]])
    /\ UNCHANGED <<docRows, docPrompt, docForm, docLoading>>

\* The answer is lost: the document may have been stored all the same.
SaveLost(c) ==
    /\ c.call.op \in {"upload", "create", "create all"} /\ ~Refused(c.call) /\ CallLost
    /\ UNCHANGED savedDocs \/ WriteRagDocument(FormOf(c.call))
    /\ docLoading' = FALSE
    /\ CallOver(c) /\ UNCHANGED <<docRows, docPrompt, docForm>>

\* loadRagDocs: the server reads its documents, and the answer arrives later.
DocumentsListed(c) ==
    /\ c.call.op = "list"
    /\ GoesOn(c, [op |-> "listed", turn |-> c.call.turn, rows |-> StoredDocs(savedDocs)])
    /\ Answers /\ UNCHANGED <<savedDocs, docRows, docPrompt, docForm, docLoading>>

\* It never raises: a list that cannot be read is empty.
LoadRagDocs(c) ==
    /\ c.call.op = "listed"
    /\ \/ docRows' = c.call.rows /\ Answers
       \/ docRows' = {} /\ CallLost
    /\ docPrompt' = IF c.call.turn = NoDoc THEN docPrompt ELSE Turned(c.call.turn)
    /\ CallOver(c) /\ UNCHANGED <<savedDocs, docForm, docLoading>>

DialogActs ==
    \/ \E a \in DocAlerts : OpenDocumentPrompt(a)
    \/ \E kind \in Kinds : ChooseDocKind(kind) \/ ChooseFormKind(kind)
    \/ \E update \in BOOLEAN : ChooseDocMode(update)
    \/ CloseDocumentPrompt \/ ReAnalyze \/ SubmitAlertOnboarding
    \/ AutoCreateAlertDocument \/ AutoCreateAllAlertDocuments

DialogAnswers ==
    \E c \in docCalls :
       \/ CallRefused(c) \/ DraftShown(c) \/ DocumentUploaded(c) \/ DocumentCreated(c)
       \/ NextCreated(c) \/ SaveLost(c) \/ DocumentsListed(c) \/ LoadRagDocs(c)

DialogNext == DialogActs \/ DialogAnswers
DialogSpec == DialogInit /\ [][DialogNext]_dialogVars

(***************************************************************************)
(* Properties                                                              *)
(***************************************************************************)
AnyDoc == (DocAlerts \cup {NoDoc}) \X Kinds

DocumentsTypeOK ==
    /\ savedDocs \in [AlertDocs -> DocAlerts \cup {NoDoc}] /\ docRows \in SUBSET AlertDocs
    /\ docForm \in [doc : AnyDoc, words : DocAlerts \cup {NoDoc}]
    /\ docPrompt \in [alert : DocAlerts \cup {NoDoc}, kind : Kinds,
                      existing : AnyDoc \cup {NoDoc}, update : BOOLEAN]
    /\ docLoading \in BOOLEAN
    /\ docActs \in 0..MaxDocActs /\ docFaults \in 0..MaxDocFaults

\* No document of an alert ever holds the words of another one, although the form goes on
\* showing what it held when a read is refused, answers come late, lists are stale, and
\* documents of one alert match another.
DocumentsKeepTheirWords == \A d \in StoredDocs(savedDocs) : savedDocs[d] = d[1]

=============================================================================
