----------------------------- MODULE WebTerminal -----------------------------
(***************************************************************************)
(* The web terminal: the page modules side by side. They share no state    *)
(* but what the backend gives each of them, so a behaviour shows one of    *)
(* them, the scene, and leaves the others at their beginning. The          *)
(* scheduling that the browser and the backend justify is stated here.     *)
(***************************************************************************)
EXTENDS WebApi, RunPanel, MarketStream, RunSelection, AccountFeed, PageLoads, Confirmations,
        Workspace, StreamSession, WireCodec

VARIABLE scene      \* the part that is looked at

CONSTANT Scenes     \* the parts a run looks at

ASSUME ScenesAssumption ==
    Scenes \subseteq {"api", "panel", "market", "selection", "feed", "loads", "confirm", "tabs", "stream", "wire"}

\* All but one of the parts, for what a step of that one leaves alone.
pageVars == <<marketVars, selectionVars, loadsVars, workspaceVars, codecVars>>
webVars == <<scene, apiVars, panelVars, feedVars, confirmVars, streamVars, pageVars>>

\* A part that is not looked at begins in one way.
Begins(part, init, one) == init /\ (scene # part => one)

WebInit ==
    /\ scene \in Scenes
    /\ ApiInit /\ ConfirmInit
    /\ Begins("panel", PanelInit, panel.selectedGroup = (CHOOSE g \in Groups : TRUE) /\ \A g \in Groups : ~run[g].alive)
    /\ Begins("market", MarketInit, Current.instrument = CHOOSE i \in Instruments : TRUE)
    /\ Begins("selection", SelectionInit, known = {} /\ stored = Nothing)
    /\ Begins("feed", FeedInit, store.active = CHOOSE p \in Profiles : TRUE)
    /\ Begins("loads", LoadsInit, kind = "portfolio" /\ key.group = CHOOSE g \in PageGroups : TRUE)
    /\ Begins("tabs", WorkspaceInit, pathname = CHOOSE p \in Pages : TRUE)
    /\ Begins("stream", StreamInit, topic = CHOOSE s \in Streams : TRUE)
    /\ Begins("wire", CodecInit, letter.type = CHOOSE t \in MessageTypes : TRUE)

\* A step of one part.
InApi(A)       == scene = "api" /\ A /\ UNCHANGED <<scene, panelVars, feedVars, confirmVars, streamVars, pageVars>>
InPanel(A)     == scene = "panel" /\ A /\ UNCHANGED <<scene, apiVars, feedVars, confirmVars, streamVars, pageVars>>
InFeed(A)      == scene = "feed" /\ A /\ UNCHANGED <<scene, apiVars, panelVars, confirmVars, streamVars, pageVars>>
InConfirm(A)   == scene = "confirm" /\ A /\ UNCHANGED <<scene, apiVars, panelVars, feedVars, streamVars, pageVars>>
InStream(A)    == scene = "stream" /\ A /\ UNCHANGED <<scene, apiVars, panelVars, feedVars, confirmVars, pageVars>>
ElsewhereSame  == UNCHANGED <<scene, apiVars, panelVars, feedVars, confirmVars, streamVars>>
InMarket(A)    == scene = "market" /\ A /\ ElsewhereSame /\ UNCHANGED <<selectionVars, loadsVars, workspaceVars, codecVars>>
InSelection(A) == scene = "selection" /\ A /\ ElsewhereSame /\ UNCHANGED <<marketVars, loadsVars, workspaceVars, codecVars>>
InLoads(A)     == scene = "loads" /\ A /\ ElsewhereSame /\ UNCHANGED <<marketVars, selectionVars, workspaceVars, codecVars>>
InTabs(A)      == scene = "tabs" /\ A /\ ElsewhereSame /\ UNCHANGED <<marketVars, selectionVars, loadsVars, codecVars>>
InWire(A)      == scene = "wire" /\ A /\ ElsewhereSame /\ UNCHANGED <<marketVars, selectionVars, loadsVars, workspaceVars>>

WebNext ==
    \/ InApi(ApiNext) \/ InPanel(PanelNext) \/ InMarket(MarketNext) \/ InSelection(SelectionNext)
    \/ InFeed(FeedNext) \/ InLoads(LoadsNext) \/ InConfirm(ConfirmNext) \/ InTabs(WorkspaceNext)
    \/ InStream(StreamNext) \/ InWire(CodecNext)

WebSpec == WebInit /\ [][WebNext]_webVars

-----------------------------------------------------------------------------
(* Fairness, part by part.                                                 *)

\* The interval of usePoll fires, the backend and the supervisor answer, the cache ages.
ApiFairness ==
    /\ WF_webVars(InApi(SessionAnswered)) /\ WF_webVars(InApi(page = "open" /\ CacheExpires))
    /\ WF_webVars(InApi(\E s \in Slots : RunPoll(s)))
    /\ \A s \in Slots : /\ WF_webVars(InApi(Denied(s) \/ ResponseArrives(s)))
                        /\ WF_webVars(InApi(page = "open" /\ ApiServer(s)))

\* Answers arrive, the poll of a receipt goes on, and the supervisor works off what it is sent: its
\* waits and the backend's have time limits, and both give their locks in turn.
PanelFairness ==
    /\ WF_webVars(InPanel(ExecuteRoute \/ Executed))
    /\ WF_webVars(InPanel(PollReceipt \/ RouteWrites \/ ReceiptPolled))
    /\ \A i \in Ops : WF_webVars(InPanel(Take(i) \/ Act(i) \/ Performed(i)))

\* The browser runs what is due on the connections of a chart.
MarketFairness == WF_webVars(InMarket(Connections))

\* The backend writes, answers arrive, and a page that was hidden is shown again.
FeedFairness == WF_webVars(InFeed(Feed)) /\ WF_webVars(InFeed(Reads)) /\ WF_webVars(InFeed(ShowPage))

\* The interval of a page fires, and its requests are answered.
LoadsFairness ==
    /\ WF_webVars(InLoads(PollPage))
    /\ WF_webVars(InLoads(\E l \in loads : ReadPage(l) \/ LoadDone(l)))

\* The backend goes on with what it has accepted; write_lock is given in turn.
ConfirmFairness == \A i \in Ids : WF_webVars(InConfirm(FinishStart(i))) /\ WF_webVars(InConfirm(Perform(i)))

\* Both ends of a connection keep running, and connections do not break for ever (MaxBreaks).
StreamFairness ==
    /\ WF_webVars(InStream(SessionNext)) /\ WF_webVars(InStream(Connect)) /\ WF_webVars(InStream(Ingest))
    /\ WF_webVars(InStream(Frame)) /\ WF_webVars(InStream(gatewaySession.pc = "ended" /\ Closed))

WebFairSpec ==
    /\ WebSpec /\ ApiFairness /\ PanelFairness /\ MarketFairness /\ FeedFairness /\ LoadsFairness
    /\ ConfirmFairness /\ StreamFairness

-----------------------------------------------------------------------------
WebTypeOK ==
    /\ scene \in Scenes
    /\ ApiTypeOK /\ PanelTypeOK /\ MarketTypeOK /\ SelectionTypeOK /\ FeedTypeOK /\ LoadsTypeOK
    /\ ConfirmTypeOK /\ WorkspaceTypeOK /\ StreamTypeOK /\ CodecTypeOK

\* A chart that lost its connection has one again in the end (useMarket: onclose, Reconnect).
ChartReconnects == scene = "market" => MarketReconnects

\* The profiles and the account on the page are the backend's in the end (useOperator: refresh,
\* the push of events_route).
ConnectionsCatchUp == scene = "feed" => ProfilesCatchUp

\* A polled page shows the selected or the last run in the end (usePoll, the load functions).
PagesCatchUp == scene = "loads" => PageIsCurrent

\* A terminal that stays on a run shows all of it in the end (client.ts reconnect, deliver_initial).
TerminalCatchesUp == scene = "stream" => CatchesUp

\* What has changed at the backend is shown in the end: after an execute of the page, after a
\* change of the connections, and after a new run.
ShownCatchesUp == PageCatchesUp /\ ConnectionsCatchUp /\ PagesCatchUp

\* What was confirmed ends at the backend, and the page learns how it ended.
ConfirmedSettles == ReceiptSettles /\ ConfirmedEnds

\* The streams of a page, of the market and of a run, come back after every interruption.
StreamsCatchUp == ChartReconnects /\ TerminalCatchesUp
=============================================================================
