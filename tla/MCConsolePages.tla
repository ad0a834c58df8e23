--------------------------- MODULE MCConsolePages ---------------------------
(***************************************************************************)
(* Pages of the console that share no state, one at a time: all that can   *)
(* happen to the incidents of the inbox while nobody looks; an inbox over  *)
(* two incidents that are on their way, or over none until the first one   *)
(* arrives; a portfolio of three applications, two of them with one name   *)
(* and one with that name in capitals, and of services that are only       *)
(* observed; and the stages of one application.  The pages a behaviour     *)
(* does not run stay where they start.                                     *)
(***************************************************************************)
EXTENDS IncidentInbox, ApplicationPortfolio, OnboardingPipeline, TLC

CONSTANTS shop, Shop, platform

MCNames == {shop, Shop, platform}
MCFold == [n \in MCNames |-> IF n = Shop THEN shop ELSE n]
FirstName(a) == IF a <= 2 THEN shop ELSE Shop

VARIABLE part

OnTheirWay ==
    [i \in Incidents |->
        IF i \in Human
          THEN [kind |-> "recommendation.generated", status |-> "awaiting_approval",
                mode |-> "human-approval", at |-> MaxEvents - 3]
          ELSE [kind |-> "remediation.executed", status |-> "validating",
                mode |-> "automatic", at |-> MaxEvents - 2]]

InboxOf(rowsOfServer, left) ==
    /\ projections = rowsOfServer
    /\ clock = MaxEvents - left
    /\ decided = {} /\ agreed = {} /\ worked = Incidents \ Human
    /\ screen = "home"
    /\ filter = "all" /\ rows = <<>> /\ loading = FALSE /\ listError = FALSE
    /\ request = [pending |-> FALSE, recent |-> FALSE]
    /\ call = NoRequest /\ timer = FALSE /\ stale = FALSE
    /\ page = 1 /\ view = "all"
    /\ route = NoIncident /\ lookup = NoLookup /\ targeted = {} /\ finding = NoCall
    /\ settledFor = NoIncident
    /\ acts = 0 /\ faults = 0

PagesInit ==
    /\ part \in {"events", "inbox", "portfolio", "onboarding"}
    /\ IF part = "inbox" THEN InboxOf(OnTheirWay, 1) \/ InboxOf(<<>>, 1) ELSE InboxInit
    /\ PortfolioInit
    /\ IF part = "portfolio" THEN DOMAIN registry \in {{2, 3}, Apps} ELSE DOMAIN registry = Apps
    /\ \A a \in DOMAIN registry : registry[a].name = FirstName(a)
    /\ shop \in observed
    /\ OnboardingPipelineInit

PagesNext ==
    /\ UNCHANGED part
    /\ \/ part = "events" /\ IncidentEvent /\ UNCHANGED <<portfolioVars, onboardingVars>>
       \/ part = "inbox" /\ InboxNext /\ UNCHANGED <<portfolioVars, onboardingVars>>
       \/ part = "portfolio" /\ PortfolioNext /\ UNCHANGED <<inboxVars, onboardingVars>>
       \/ part = "onboarding" /\ OnboardingPipelineNext /\ UNCHANGED <<inboxVars, portfolioVars>>

InInbox == part = "inbox"
PagesFairness ==
    /\ WF_inboxVars(InInbox /\ Poll) /\ WF_inboxVars(InInbox /\ TimerFires)
    /\ WF_inboxVars(InInbox /\ Elapse) /\ WF_inboxVars(InInbox /\ Serve)
    /\ WF_inboxVars(InInbox /\ Receive) /\ WF_inboxVars(InInbox /\ FindServed)
    /\ WF_inboxVars(InInbox /\ FindReceived)

PagesSpec ==
    PagesInit /\ [][PagesNext]_<<part, inboxVars, portfolioVars, onboardingVars>> /\ PagesFairness
=============================================================================
