------------------------------ MODULE Workspace ------------------------------
(***************************************************************************)
(* The tabs of the web terminal: QuantWorkspace.tsx with                   *)
(* quantWorkspaceModel.ts and dockingModel.ts. The list of open tabs, the  *)
(* docking layout and the route are three states that an effect keeps in   *)
(* step after each render; closing a tab changes all three, in renders of  *)
(* their own. The tab of the events is in the layout beside those of the   *)
(* pages, but is no route.                                                 *)
(***************************************************************************)
EXTENDS Integers, FiniteSets, SequencesExt, Functions

CONSTANTS
    Pages,
    Pinned,         \* PINNED_WORKSPACE_TABS
    TabLimit,       \* WORKSPACE_TAB_LIMIT
    LayoutLimit     \* how many route tabs a saved layout may have

ASSUME WorkspaceAssumption ==
    /\ Pinned \in Seq(Pages) /\ Pinned # <<>> /\ IsInjective(Pinned) /\ {"none", "events"} \cap Pages = {}
    /\ {TabLimit, LayoutLimit} \subseteq Nat /\ Len(Pinned) < TabLimit

VARIABLES
    pathname,       \* the route that is rendered
    going,          \* the route that is pushed and not rendered yet
    paths,          \* the open tabs, oldest first
    dock,           \* the pages that have a tab in the layout
    front,          \* the tab that is selected, of those of the pages and the events
    closingPath,
    due,            \* paths has changed and the effect has not run
    shut,           \* the pages the operator closed and has not gone to since
    aside           \* the operator has selected the events, and no page since

workspaceVars == <<pathname, going, paths, dock, front, closingPath, due, shut, aside>>

NoPage == "none"
EventsTab == "events"
PinnedSet == ToSet(Pinned)

WorkspaceInit ==
    /\ pathname \in Pages /\ going = NoPage /\ paths = Pinned /\ dock = PinnedSet /\ front = NoPage
    /\ closingPath = NoPage /\ due = TRUE /\ shut = {} /\ aside = FALSE

\* Seeded fault: no tab goes.
Opened_Unlimited(tabs, p) == IF p \in ToSet(tabs) THEN tabs ELSE Append(tabs, p)

\* openWorkspaceTab: beyond the limit the oldest tab goes that is not pinned.
Opened(tabs, p) ==
    LET next   == Append(tabs, p)
        oldest == SelectInSeq(next, LAMBDA q : q \notin PinnedSet)
    IN  IF p \in ToSet(tabs) THEN tabs
        ELSE IF Len(next) > TabLimit THEN RemoveAt(next, oldest) ELSE next

\* closeWorkspaceTab: the tabs but p, taken one by one as filter does, and the page that is
\* active then: the one before.
Filtered(tabs, p) ==
    LET kept[i \in 0 .. Len(tabs)] ==
            IF i = 0 THEN <<>> ELSE IF tabs[i] = p THEN kept[i - 1] ELSE Append(kept[i - 1], tabs[i])
    IN  kept
Without(tabs, p) == Filtered(tabs, p)[Len(tabs)]
Neighbour(tabs, p) ==
    LET rest == Without(tabs, p)
        i    == SelectInSeq(tabs, LAMBDA q : q = p)
    IN  IF pathname # p THEN pathname ELSE rest[IF i > 2 THEN i - 1 ELSE 1]

-----------------------------------------------------------------------------
\* Seeded fault: the effect does not forget which tab was being closed.
TabEffect_Kept(p, tabs, tabsInDock) ==
    IF closingPath = p THEN paths' = tabs /\ dock' = tabsInDock /\ UNCHANGED <<front, closingPath>>
    ELSE /\ UNCHANGED closingPath
         /\ paths' = Opened(tabs, p)
         /\ dock' = tabsInDock \cup ToSet(paths')
         /\ front' = p

\* The effect, for the route p: the tabs that are open get one in the layout, and the one of
\* the route is selected. It does nothing for the route of a tab that is being closed.
TabEffect(p, tabs, tabsInDock) ==
    IF closingPath = p THEN paths' = tabs /\ dock' = tabsInDock /\ UNCHANGED <<front, closingPath>>
    ELSE /\ closingPath' = NoPage
         /\ paths' = Opened(tabs, p)
         /\ dock' = tabsInDock \cup ToSet(paths')
         /\ front' = p

\* A render: of the new route, or of the new tabs with the route there still is.
Render ==
    \/ going # NoPage /\ pathname' = going /\ going' = NoPage /\ due' = FALSE
       /\ TabEffect(going, paths, dock) /\ UNCHANGED <<shut, aside>>
    \/ due /\ due' = FALSE /\ TabEffect(pathname, paths, dock)
       /\ UNCHANGED <<pathname, going, shut, aside>>

Quiet == going = NoPage /\ ~due

\* The operator goes to a page, with the menu, a link or a command, or with its tab, which is
\* selected at once.
Go(p) ==
    /\ Quiet /\ p # pathname /\ going' = p /\ shut' = shut \ {p} /\ aside' = FALSE
    /\ front' \in IF p \in dock THEN {front, p} ELSE {front}
    /\ UNCHANGED <<pathname, paths, dock, closingPath, due>>

\* SELECT_TAB without another path: the events, or the tab of the route there is. No effect
\* follows, and only the selected tab changes.
SelectTab(tab) ==
    /\ Quiet /\ tab \in {EventsTab, pathname} /\ front' = tab /\ aside' = (tab = EventsTab)
    /\ UNCHANGED <<pathname, going, paths, dock, closingPath, due, shut>>

\* Seeded fault: the effect is not told which route is being left.
Leaving_Untold(p) == NoPage

\* closingPath while a tab that is active is closed.
Leaving(p) == IF Neighbour(paths, p) = pathname THEN closingPath ELSE pathname

\* The tab of a page is closed.
CloseTab(p) ==
    /\ Quiet /\ p \in dock \ PinnedSet
    /\ closingPath' = Leaving(p)
    /\ going' = IF Neighbour(paths, p) = pathname THEN NoPage ELSE Neighbour(paths, p)
    /\ paths' = Without(paths, p) /\ dock' = dock \ {p} /\ due' = TRUE
    /\ shut' = (shut \cup {p}) \ {going'} /\ aside' = (aside /\ p # pathname)
    /\ UNCHANGED <<pathname, front>>

\* loadWorkspaceTabs: the stored tabs are opened one after another, beside the pinned ones.
Reduced(stored) ==
    LET tabs[i \in 0 .. Len(stored)] == IF i = 0 THEN Pinned ELSE Opened(tabs[i - 1], stored[i])
    IN  tabs
StoredTabs == Reduced(paths)[Len(paths)]

\* The page is reloaded: tabs and layout come from the storage, if that is a layout that is
\* accepted.
Reload ==
    /\ Quiet /\ due' = TRUE /\ closingPath' = NoPage /\ aside' = FALSE
    /\ paths' = Opened(StoredTabs, pathname)
    /\ dock' = IF Cardinality(dock) <= LayoutLimit THEN dock ELSE PinnedSet
    /\ UNCHANGED <<pathname, going, front, shut>>

WorkspaceNext ==
    \/ Render \/ Reload
    \/ \E p \in Pages : Go(p) \/ CloseTab(p)
    \/ \E tab \in Pages \cup {EventsTab} : SelectTab(tab)

-----------------------------------------------------------------------------
WorkspaceTypeOK ==
    /\ pathname \in Pages /\ {going, closingPath} \subseteq Pages \cup {NoPage}
    /\ front \in Pages \cup {NoPage, EventsTab} /\ ToSet(paths) \subseteq Pages /\ dock \subseteq Pages
    /\ {due, aside} \subseteq BOOLEAN /\ shut \subseteq Pages

\* When all is rendered, the page that is shown has a tab, in the list and in the layout, and
\* it is the selected one, unless the operator has selected the events since a page was gone to;
\* every open tab is in the layout.
RouteHasTab ==
    Quiet => /\ pathname \in ToSet(paths) /\ PinnedSet \cup ToSet(paths) \subseteq dock
             /\ front = pathname \/ (aside /\ front = EventsTab)

\* The tabs stay within their limit, and no page has two.
TabsBounded == Len(paths) <= TabLimit /\ Cardinality(ToSet(paths)) = Len(paths)

\* A tab that was closed stays closed until the operator goes to its page again.
ClosedStaysClosed == shut \cap (dock \cup ToSet(paths)) = {}

\* The list of tabs, the layout and the route agree, and the list stays within its limit.
TabsFollowRoute == RouteHasTab /\ TabsBounded /\ ClosedStaysClosed
=============================================================================
