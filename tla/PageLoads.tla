------------------------------ MODULE PageLoads ------------------------------
(***************************************************************************)
(* How the pages of the web terminal load what is selected: the load       *)
(* functions of StrategyGroups, Portfolio, Engine, ModelReleases,          *)
(* ExecutionAnalytics, ResearchHistory and EventBlotter. They read several *)
(* resources at once, are polled and refreshed by hand, and answers come   *)
(* in any order, also when something else is selected. They differ in what *)
(* they ask of an answer. The groups start new runs meanwhile.             *)
(***************************************************************************)
EXTENDS Integers, FiniteSets

CONSTANTS
    PageGroups,
    MaxRuns,        \* bound: runs of a group
    MaxLoads,       \* bound: loads at once
    MaxTurns        \* bound: selections, refreshes, new runs, requests that fail

ASSUME LoadsAssumption == {MaxRuns, MaxLoads, MaxTurns} \subseteq Nat

VARIABLES
    kind,           \* which page this is
    latest,         \* by group, the number of its last run
    key,            \* the group, the run (0: the last) and the view that are selected
    loads,          \* the loads under way
    loaded,         \* what the last load that was accepted has set
    turns

loadsVars == <<kind, latest, key, loads, loaded, turns>>

Compared == {"groups", "portfolio", "engine", "models", "execution"}  \* pages with a ref of the selection
Refreshable == {"groups", "portfolio", "engine", "execution"}          \* pages with a button that loads it anew
LoadKinds == Compared \cup {"history", "blotter"}
Views == {"summary", "detail"}

Unread == [group |-> "none", run |-> 0]
NotLoaded == [key |-> [group |-> "none", run |-> 0, view |-> "summary"], passed |-> FALSE,
              detail |-> Unread, equity |-> Unread]

\* newest: it has the generation of ExecutionAnalytics. passed: a later one has been accepted.
NewLoad(k, polled) == [key |-> k, polled |-> polled, aborted |-> FALSE, newest |-> TRUE, passed |-> FALSE,
                       detail |-> Unread, equity |-> Unread]

LoadsInit ==
    /\ kind \in LoadKinds
    /\ latest = [g \in PageGroups |-> 1]
    /\ \E g \in PageGroups : key = [group |-> g, run |-> 0, view |-> "summary"]
    /\ loads = {NewLoad(key, TRUE)} /\ loaded = NotLoaded /\ turns = 0

-----------------------------------------------------------------------------
Turn == turns < MaxTurns /\ turns' = turns + 1
LoadStarted(ls, k, polled) == {[l EXCEPT !.newest = FALSE] : l \in ls} \cup {NewLoad(k, polled)}
Aborted(ls) == {[l EXCEPT !.aborted = @ \/ l.polled] : l \in ls}

\* Something else is selected, or another view of the engine: the effect of usePoll is
\* cleaned up, which aborts its load, and runs anew. A load from the button goes on.
SelectPage(k) ==
    /\ Turn /\ k # key /\ key' = k
    /\ k.view # key.view => kind = "engine"
    /\ loads' = LoadStarted(Aborted(loads), k, TRUE)
    /\ UNCHANGED <<kind, latest, loaded>>

\* Seeded fault: a page that has data is not polled.
MayPoll_Empty == loaded.key # key /\ \A l \in loads : ~l.polled \/ l.aborted

\* One poll at a time. The blotter asks once for each selection.
MayPoll == kind # "blotter" /\ \A l \in loads : ~l.polled \/ l.aborted

PollPage ==
    /\ MayPoll /\ Cardinality(loads) < MaxLoads
    /\ loads' = LoadStarted(loads, key, TRUE)
    /\ UNCHANGED <<kind, latest, key, loaded, turns>>

\* The button passes no signal: its load is never aborted.
RefreshPage ==
    /\ kind \in Refreshable /\ Turn /\ Cardinality(loads) < MaxLoads
    /\ loads' = LoadStarted(loads, key, FALSE)
    /\ UNCHANGED <<kind, latest, key, loaded>>

\* The backend answers for the run that was asked for, or the last. The page of the models asks
\* for all runs of the group, and looks for the selected one: if none is, it finds none.
LoadAnswered(l) ==
    [group |-> l.key.group,
     run   |-> IF l.key.run = 0 /\ kind # "models" THEN latest[l.key.group] ELSE l.key.run]

ReadPage(l) ==
    /\ l \in loads
    /\ \/ l.detail = Unread /\ loads' = (loads \ {l}) \cup {[l EXCEPT !.detail = LoadAnswered(l)]}
       \/ l.equity = Unread /\ loads' = (loads \ {l}) \cup {[l EXCEPT !.equity = LoadAnswered(l)]}
    /\ UNCHANGED <<kind, latest, key, loaded, turns>>

\* Seeded fault: of two loads of one selection, the one that ends last is shown.
LoadWanted_Selection(l) == ~l.aborted /\ (kind \in Compared => l.key = key)

\* What a load asks before it sets anything.
LoadWanted(l) ==
    /\ ~l.aborted
    /\ kind \in Compared => l.key = key
    /\ kind = "execution" => l.newest

\* Seeded fault: matchingPortfolio does not compare the runs.
Matches_Group(l) == TRUE

\* What it asks of the answers: that they are of the selected run, and of one.
Matches(l) ==
    /\ kind \in {"portfolio", "execution", "blotter"} /\ key.run # 0 => l.detail.run = key.run
    /\ kind = "portfolio" => l.detail = l.equity

\* What an accepted load sets; without a run the page of the models sets nothing to show.
Accepted(l) ==
    IF kind = "models" /\ l.key.run = 0
    THEN NotLoaded
    ELSE [key |-> l.key, passed |-> l.passed, detail |-> l.detail, equity |-> l.equity]

LoadDone(l) ==
    /\ l \in loads /\ Unread \notin {l.detail, l.equity}
    /\ IF LoadWanted(l) /\ Matches(l)
       THEN /\ loaded' = Accepted(l)
            /\ loads' = {[m EXCEPT !.passed = @ \/ l.newest] : m \in loads \ {l}}
       ELSE loads' = loads \ {l} /\ UNCHANGED loaded
    /\ UNCHANGED <<kind, latest, key, turns>>

\* A load that fails leaves what was loaded, but that of the models forgets it.
LoadFails(l) ==
    /\ l \in loads /\ Turn /\ loads' = loads \ {l}
    /\ loaded' = IF kind = "models" /\ LoadWanted(l) THEN NotLoaded ELSE loaded
    /\ UNCHANGED <<kind, latest, key>>

\* A group starts another run.
NextRun(g) ==
    /\ latest[g] < MaxRuns /\ Turn /\ latest' = [latest EXCEPT ![g] = @ + 1]
    /\ UNCHANGED <<kind, key, loads, loaded>>

\* Seeded fault: what was loaded last is shown.
Shown_Last == loaded # NotLoaded

\* What was loaded is shown while it is selected.
Shown ==
    /\ loaded.key = key
    /\ kind = "groups" => /\ loaded.detail.group = key.group
                          /\ key.run = 0 \/ loaded.detail.run = key.run

-----------------------------------------------------------------------------
LoadsNext ==
    \/ \E g \in PageGroups, r \in 0 .. MaxRuns, v \in Views :
         r <= latest[g] /\ SelectPage([group |-> g, run |-> r, view |-> v])
    \/ PollPage \/ RefreshPage
    \/ \E l \in loads : ReadPage(l) \/ LoadDone(l) \/ LoadFails(l)
    \/ \E g \in PageGroups : NextRun(g)

-----------------------------------------------------------------------------
LoadsTypeOK ==
    /\ kind \in LoadKinds /\ latest \in [PageGroups -> 1 .. MaxRuns]
    /\ key \in [group : PageGroups, run : 0 .. MaxRuns, view : Views]
    /\ \A l \in loads : l.key.group \in PageGroups /\ l.newest \in BOOLEAN /\ l.aborted \in BOOLEAN
    /\ loaded.passed \in BOOLEAN /\ turns \in 0 .. MaxTurns

\* A page never shows another group or run than the one selected ("A group switch must never
\* display the previous group's holdings or returns").
PageShowsSelection ==
    Shown => \A part \in {loaded.detail, loaded.equity} :
                 part.group = key.group /\ key.run \in {0, part.run}

\* The portfolio never puts the holdings of one run beside the returns of another, although
\* it reads them apart and a run may start in between.
PortfolioIsOneRun == kind = "portfolio" /\ Shown => loaded.detail = loaded.equity

\* The execution figures never go back to an older load than the one that was shown, although
\* the poll and the button load the same.
ExecutionGoesForward == kind = "execution" => ~loaded.passed

\* A page that is polled shows the run that is selected, or the last, in the end; that of the
\* models shows none as long as none is selected.
PageIsCurrent ==
    <>[](\/ kind = "blotter"
         \/ kind = "models" /\ key.run = 0 /\ ~Shown
         \/ /\ Shown /\ ~(kind = "models" /\ key.run = 0)
            /\ loaded.detail.run = IF key.run = 0 THEN latest[key.group] ELSE key.run)

\* What a page shows belongs to the selection, belongs together, and does not go back.
LoadsBelong == PageShowsSelection /\ PortfolioIsOneRun /\ ExecutionGoesForward
=============================================================================
