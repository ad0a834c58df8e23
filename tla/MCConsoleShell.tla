--------------------------- MODULE MCConsoleShell ---------------------------
(***************************************************************************)
(* The parts of the console that share no variable: the session, the       *)
(* navigation, the stream of events, the consolidated lists of alerts, the *)
(* review of an onboarding, the documents of an alert and the timeline of  *)
(* an incident.  A behaviour runs one of them; the others stay at rest.    *)
(***************************************************************************)
EXTENDS ConsoleSession, WorkspaceNavigation, OperationalEvents, AlertConsolidation,
        OnboardingReview, AlertDocuments, IncidentTimeline

VARIABLE part

\* Three sightings of one failure that know each other by an identity each, another
\* type of the same source, and a mail about it.
Gateway(id, fingerprint, incident, correlation, signature, time) ==
    [BlankRow EXCEPT !.id = id, !.fingerprint = fingerprint, !.incident = incident,
                     !.correlation = correlation, !.signature = signature, !.time = time,
                     !.name = "GatewayFailed", !.service = "gateway", !.severity = "high", !.data = 1]
MCAlertRows ==
    {Gateway("a1", "f1", "i1", "", "", 12), Gateway("a2", "", "i1", "c1", "refused", 18),
     Gateway("a3", "", "", "c1", "refused", 24),
     [BlankRow EXCEPT !.id = "a4", !.fingerprint = "f2", !.name = "MySQLDown", !.service = "mysql", !.time = 3],
     [BlankRow EXCEPT !.id = "a5", !.channel = "email", !.ticket = "t1", !.signature = "refused",
                      !.service = "gateway", !.time = 19]}
\* The incident of that failure, and one that only its ticket identifies.
MCClosedRows ==
    {[BlankRow EXCEPT !.id = "a1", !.incident = "i1", !.time = 30, !.channel = "ticket", !.data = 2],
     [BlankRow EXCEPT !.incident = "i2", !.ticket = "t1", !.time = 20, !.channel = "ticket"]}
\* Its file, which names no incident, and a ticket's.
MCLandingRows ==
    {[BlankRow EXCEPT !.id = "f1.json", !.name = "GatewayFailed", !.service = "gateway",
                      !.severity = "high", !.time = 11],
     [BlankRow EXCEPT !.id = "f2.json", !.ticket = "t1", !.time = 25, !.channel = "ticket", !.data = 3]}

\* Two alerts; a document of the first matches the second, too.
MCDocAlerts == {"d1", "d2"}
MCDocKinds == <<"incident", "remediation", "runbook">>
MCMatching == {<<"d1", "d1">>, <<"d2", "d2">>, <<"d2", "d1">>}

\* What the policy and an error may say: nothing that is read, or a word that is misread.
MCReasons == {{}, {"fallback"}}

MCDocumentSets == {<<>>, <<"runbook", "baseline">>}

\* A navigation at rest on the home tab, for the behaviours that run another part.
NavigationAtRest ==
    /\ path = "/" /\ tab = "home" /\ arriving = "none" /\ skip = FALSE /\ role = "none" /\ moves = 0
    /\ shown = Shown

ShellInit ==
    /\ part \in {"session", "navigation", "events", "lists", "onboarding", "documents", "timeline"}
    /\ ConsoleInit /\ EventsInit /\ ListsInit /\ OnboardingInit
    /\ DialogInit /\ (part # "documents" => docRows = {})
    /\ TimelineInit /\ (part # "timeline" => clocks = 1)
    /\ IF part = "navigation" THEN NavigationInit ELSE NavigationAtRest

InSession == part = "session" /\ UNCHANGED <<part, navigationVars, eventVars, listVars, onboardingVars, dialogVars, timelineVars>>
InNavigation == part = "navigation" /\ UNCHANGED <<part, sessionVars, eventVars, listVars, onboardingVars, dialogVars, timelineVars>>
InEvents == part = "events" /\ UNCHANGED <<part, sessionVars, navigationVars, listVars, onboardingVars, dialogVars, timelineVars>>
InLists == part = "lists" /\ UNCHANGED <<part, sessionVars, navigationVars, eventVars, onboardingVars, dialogVars, timelineVars>>
InOnboarding == part = "onboarding" /\ UNCHANGED <<part, sessionVars, navigationVars, eventVars, listVars, dialogVars, timelineVars>>
InDocuments == part = "documents" /\ UNCHANGED <<part, sessionVars, navigationVars, eventVars, listVars, onboardingVars, timelineVars>>
InTimeline == part = "timeline" /\ UNCHANGED <<part, sessionVars, navigationVars, eventVars, listVars, onboardingVars, dialogVars>>

ShellNext ==
    \/ InSession /\ ConsoleNext
    \/ InNavigation /\ NavigationNext
    \/ InEvents /\ EventsNext
    \/ InLists /\ ListsNext
    \/ InOnboarding /\ OnboardingNext
    \/ InDocuments /\ DialogNext
    \/ InTimeline /\ TimelineNext

shellVars == <<part, sessionVars, navigationVars, eventVars, listVars, onboardingVars, dialogVars, timelineVars>>

\* The fairness of three of the modules, each while its part runs; what the other parts
\* keep unchanged is already said by every step.
CallGoesOn(k) == part = "session" /\ (Answered(k) \/ Denied(k) \/ Fails(k) \/ RefreshAccessToken(k))
RefreshGoesOn == part = "session" /\ \E r \in DOMAIN refreshes : RefreshStep(r)
ShellCommits == part = "navigation" /\ Commit
RouterArrives == part = "navigation" /\ Arrive
StreamConnects == part = "events" /\ \E a \in DOMAIN attempts : Opens(a) \/ TimerFires(a)
StreamReads == part = "events" /\ \E a \in DOMAIN attempts : Frame(a)

ShellFairness ==
    /\ \A k \in Requests : WF_sessionVars(CallGoesOn(k))
    /\ WF_sessionVars(RefreshGoesOn)
    /\ WF_navigationVars(ShellCommits) /\ WF_navigationVars(RouterArrives)
    /\ WF_eventVars(StreamConnects) /\ WF_eventVars(StreamReads)

ShellSpec == ShellInit /\ [][ShellNext]_shellVars /\ ShellFairness
=============================================================================
