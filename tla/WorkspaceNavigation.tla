------------------------ MODULE WorkspaceNavigation ------------------------
(***************************************************************************)
(* Two owners of the place the console shows: the router, which owns the   *)
(* URL, and the application, which keeps a tab of its own and offers       *)
(* shortcuts, menus and permission rules that change it.  Effects that run *)
(* after a commit carry a change of either to the other; a flag tells the  *)
(* effect that publishes the tab to stay silent once.                      *)
(***************************************************************************)
EXTENDS Integers

CONSTANTS
    Roles,      \* the roles operators sign in with
    Paths,      \* the URLs visited, legacy ones included
    MaxMoves    \* bound on moves of the operator, sign-ins and sign-outs included

VARIABLES
    path,       \* location.pathname
    arriving,   \* the path of a navigation the router has not committed, or "none"
    tab,        \* activeTab
    skip,       \* skipNextActiveTabNavigationRef
    shown,      \* what the effects of the last commit saw
    role,       \* the role signed in, or "none"
    moves       \* moves of the operator so far

navigationVars == <<path, arriving, tab, skip, shown, role, moves>>

All == {"administrator", "l1_operator", "l2_engineer", "l3_engineer", "executive"}
Engineering == {"administrator", "l2_engineer", "l3_engineer"}
Incident == Engineering \cup {"executive"}

ASSUME NavigationAssumption == Roles \subseteq All /\ "none" \notin Paths

Item(t, p, roles) == [tab |-> t, path |-> p, roles |-> roles]

\* NAVIGATION_ITEMS, in order.
Items == <<
    Item("home", "/", All), Item("summary", "/incidents", All), Item("stream", "/alerts", All),
    Item("approval", "/approvals", Incident), Item("copilot", "/copilot", Incident),
    Item("trace", "/agent-flow", Engineering), Item("admin", "/applications", Engineering),
    Item("admin", "/integrations", Engineering), Item("rag", "/knowledge", Engineering),
    Item("safety", "/automation", Engineering), Item("audit", "/audit", Engineering),
    Item("closed", "/closed-incidents", Incident), Item("admin", "/admin/users", {"administrator"}),
    Item("admin", "/service-control", Engineering),
    Item("executive", "/executive", {"administrator", "l3_engineer", "executive"}) >>

Tabs == {Items[i].tab : i \in DOMAIN Items}

Redirects ==
    [from \in {"/approval", "/approval-queue-legacy", "/stream", "/summary", "/gateway-safety",
                "/admin", "/admin/settings"} |->
        CASE from \in {"/approval", "/approval-queue-legacy"} -> "/approvals"
          [] from = "/stream" -> "/alerts"
          [] from = "/summary" -> "/incidents"
          [] from = "/gateway-safety" -> "/automation"
          [] from = "/admin" -> "/admin/users"
          [] from = "/admin/settings" -> "/service-control"]

\* A path no item owns belongs to the first item.
ItemForPath(p) ==
    IF \E i \in DOMAIN Items : Items[i].path = p
    THEN Items[CHOOSE i \in DOMAIN Items : Items[i].path = p]
    ELSE Items[1]

TabForPath(p) == ItemForPath(p).tab

\* The first of the items numbered ns.
First(ns) == Items[CHOOSE i \in ns : \A j \in ns : i <= j]

\* The path of the first item of a tab.
PathByTab(t) == First({i \in DOMAIN Items : Items[i].tab = t}).path

AllowedTabs(r) == {Items[i].tab : i \in {j \in DOMAIN Items : r \in Items[j].roles}}
FirstAllowedTab(r) == First({i \in DOMAIN Items : r \in Items[i].roles}).tab

Shown == [route |-> TabForPath(path), path |-> path, tab |-> tab, role |-> role]
Dirty == shown # Shown
Quiet == ~Dirty /\ arriving = "none"

NavigationInit ==
    /\ path \in Paths /\ tab = TabForPath(path)
    /\ arriving = "none" /\ skip = FALSE /\ role = "none" /\ moves = 0
    /\ shown = [route |-> "none", path |-> "none", tab |-> "none", role |-> "none"]

\* Events are handled between commits: what an event set is committed before the next one.
Moves ==
    /\ ~Dirty
    /\ moves < MaxMoves /\ moves' = moves + 1

(***************************************************************************)
(* The operator                                                            *)
(***************************************************************************)
SignIn(r) ==
    /\ Moves /\ role = "none"
    /\ role' = r
    /\ UNCHANGED <<path, arriving, tab, skip, shown>>

\* adminLogout and expireAdminSession both show the home tab.
SignOut ==
    /\ Moves /\ role # "none"
    /\ role' = "none" /\ tab' = "home"
    /\ UNCHANGED <<path, arriving, skip, shown>>

\* openSection, and Alt with a digit.
OpenSection(t) ==
    /\ Moves /\ role # "none" /\ t \in AllowedTabs(role)
    /\ tab' = t
    /\ UNCHANGED <<path, arriving, skip, shown, role>>

\* openNavigationItem: the URL is pushed here, so the effect need not do it.
OpenNavigationItem(i) ==
    /\ Moves /\ role \in Items[i].roles /\ Items[i].path \in Paths
    /\ skip' = TRUE
    /\ tab' = Items[i].tab
    /\ arriving' = IF Items[i].path # path THEN Items[i].path ELSE arriving
    /\ UNCHANGED <<path, shown, role>>

\* openCopilotWorkspace: only an administrator is taken to the users.
OpenCopilotWorkspace(p) ==
    /\ Moves /\ p \in Paths \cap {"/admin", "/integrations", "/applications"}
    /\ "copilot" \in AllowedTabs(role)
    /\ p = "/admin" => role = "administrator"
    /\ arriving' = IF p # path THEN p ELSE arriving
    /\ tab' = "admin"
    /\ UNCHANGED <<path, skip, shown, role>>

\* openAlertDetails: the cockpit is on the home tab, its URL is pushed here.
OpenAlertDetails ==
    /\ Moves /\ role # "none"
    /\ skip' = TRUE /\ tab' = "home" /\ arriving' = "/"
    /\ UNCHANGED <<path, shown, role>>

\* Back, forward, or a link of a route.
BrowserGoes(p) ==
    /\ Moves /\ p # path
    /\ path' = p /\ arriving' = "none"
    /\ UNCHANGED <<tab, skip, shown, role>>

(***************************************************************************)
(* The router and the effects                                              *)
(***************************************************************************)
Arrive ==
    /\ arriving # "none"
    /\ path' = arriving /\ arriving' = "none"
    /\ UNCHANGED <<tab, skip, shown, role, moves>>

\* The route of the URL has changed and the tab must follow it, silently.
Follows == shown.route # TabForPath(path) /\ TabForPath(path) # tab

\* The effect that publishes the tab runs when the tab or the path has changed.
Publishes == shown.tab # tab \/ shown.path # path

\* Mutant: the URL's own change of tab is published too.
PushesAll == Publishes /\ ~skip /\ TabForPath(path) # tab

Pushes == Publishes /\ ~(skip \/ Follows) /\ TabForPath(path) # tab

\* The role may not open the tab.
Forbidden == /\ role # "none" /\ tab \notin AllowedTabs(role)
          /\ (shown.tab # tab \/ shown.role # role)

\* Mutant: a sign-in is not a reason to look at the URL again.
RestrictedOnPath == role # "none" /\ role \notin ItemForPath(path).roles /\ shown.path # path

\* The role may not open the destination of the URL.
Restricted == /\ role # "none" /\ role \notin ItemForPath(path).roles
              /\ (shown.path # path \/ shown.role # role)

\* Effects run in the order of the source; of two that set the same thing the later wins.
Commit ==
    /\ Dirty
    /\ skip' = ((skip \/ Follows) /\ ~Publishes)
    /\ tab' = CASE Forbidden -> FirstAllowedTab(role)
                [] ~Forbidden /\ Restricted -> "home"
                [] ~Forbidden /\ ~Restricted /\ Follows -> TabForPath(path)
                [] OTHER -> tab
    /\ arriving' = CASE Restricted -> "/"
                     [] ~Restricted /\ Pushes -> PathByTab(tab)
                     [] ~Restricted /\ ~Pushes /\ shown.path # path /\ path \in DOMAIN Redirects -> Redirects[path]
                     [] OTHER -> arriving
    /\ shown' = Shown
    /\ UNCHANGED <<path, role, moves>>

NavigationNext ==
    \/ \E r \in Roles : SignIn(r)
    \/ SignOut \/ OpenAlertDetails
    \/ \E t \in Tabs : OpenSection(t)
    \/ \E i \in DOMAIN Items : OpenNavigationItem(i)
    \/ \E p \in Paths : OpenCopilotWorkspace(p) \/ BrowserGoes(p)
    \/ Arrive
    \/ Commit

\* React commits and runs effects, and the router commits its navigations.
NavigationFairness == WF_navigationVars(Commit) /\ WF_navigationVars(Arrive)

NavigationSpec == NavigationInit /\ [][NavigationNext]_navigationVars /\ NavigationFairness

(***************************************************************************)
(* Properties                                                              *)
(***************************************************************************)
NavigationTypeOK ==
    /\ path \in Paths \cup {Items[i].path : i \in DOMAIN Items}
    /\ arriving \in Paths \cup {Items[i].path : i \in DOMAIN Items} \cup {"none"}
    /\ tab \in Tabs /\ skip \in BOOLEAN
    /\ role \in Roles \cup {"none"} /\ moves \in 0 .. MaxMoves

\* Once the operator stops moving the console comes to rest: the effects that carry
\* the URL to the tab and the tab to the URL never answer each other for ever.
NavigationSettles == <>[]Quiet

\* At rest neither the tab nor the URL is one that the role signed in may not open,
\* although the URL, a sign-out, a sign-in and the shortcuts change them without asking.
RestsWhereAllowed ==
    Quiet /\ role # "none" => tab \in AllowedTabs(role) /\ role \in ItemForPath(path).roles
=============================================================================
