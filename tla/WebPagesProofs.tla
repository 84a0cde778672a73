--------------------------- MODULE WebPagesProofs ---------------------------
(***************************************************************************)
(* What the pages of the terminal show: an answer of an earlier selection  *)
(* never replaces the current one's (PageLoads), the selection that the    *)
(* operator made is not replaced by the one kept by the browser            *)
(* (RunSelection), a chart shows its instrument and goes forward with its  *)
(* stream (MarketStream), the ticket and the receipt on the screen are for *)
(* the group and the run beside them (RunPanel), and tabs, layout and      *)
(* route agree (Workspace). The five share no variable.                    *)
(***************************************************************************)
EXTENDS PageLoads, RunSelection, MarketStream, RunPanel, Workspace, FiniteSetTheorems, SequenceTheorems,
        WellFoundedInduction, TLAPS

(* PageLoads: loads that answer late. *)

Keys == [group : PageGroups, run : Nat, view : Views]
Answers == [group : PageGroups \cup {"none"}, run : Nat]
LoadRecords == [key : Keys, polled : BOOLEAN, aborted : BOOLEAN, newest : BOOLEAN, passed : BOOLEAN,
                detail : Answers, equity : Answers]

\* An answer is of the group that was asked for, and of the run if one was.
Belongs(k, part) == part.group = k.group /\ k.run \in {0, part.run}

\* Each load has read what it was begun for, of two the earlier one knows it, and only an
\* earlier one can be passed.
LoadsOrdered ==
    /\ \A l \in loads : /\ l.detail # Unread => Belongs(l.key, l.detail)
                        /\ l.equity # Unread => Belongs(l.key, l.equity)
                        /\ l.newest => ~l.passed
    /\ \A l, m \in loads : l.newest /\ m.newest => l = m

\* What was accepted belongs to the selection of its load.
LoadedBelongs ==
    /\ Belongs(loaded.key, loaded.detail) /\ Belongs(loaded.key, loaded.equity)
    /\ kind = "portfolio" => loaded.detail = loaded.equity
    /\ ExecutionGoesForward

LoadsInv ==
    /\ key \in Keys /\ latest \in [PageGroups -> Nat] /\ loads \subseteq LoadRecords
    /\ LoadsOrdered /\ LoadedBelongs

\* A new load is the newest, and has read nothing.
LEMMA NewLoads ==
    ASSUME LoadsInv, NEW k \in Keys, NEW b \in BOOLEAN, NEW ls, ls \subseteq LoadRecords,
           \A l \in ls : \E m \in loads : /\ l.key = m.key /\ l.detail = m.detail /\ l.equity = m.equity
                                          /\ l.newest = m.newest /\ l.passed = m.passed,
           loads' = LoadStarted(ls, k, b)
    PROVE  loads' \subseteq LoadRecords /\ LoadsOrdered'
<1>1. /\ NewLoad(k, b) \in LoadRecords /\ NewLoad(k, b).detail = Unread /\ NewLoad(k, b).equity = Unread
      /\ NewLoad(k, b).passed = FALSE
  BY DEF NewLoad, LoadRecords, Answers, Unread
<1>2. \A l \in ls : LET n == [l EXCEPT !.newest = FALSE]
                    IN  /\ n \in LoadRecords /\ n.newest = FALSE /\ n.key = l.key /\ n.detail = l.detail
                        /\ n.equity = l.equity
  BY DEF LoadRecords
<1>3. \A n \in loads' : n = NewLoad(k, b) \/ \E l \in ls : n = [l EXCEPT !.newest = FALSE]
  BY DEF LoadStarted
<1>4. loads' \subseteq LoadRecords
  BY <1>1, <1>2, <1>3
<1>5. \A n \in loads' : n = NewLoad(k, b) \/ /\ n.newest = FALSE
                                             /\ n.detail # Unread => Belongs(n.key, n.detail)
                                             /\ n.equity # Unread => Belongs(n.key, n.equity)
  <2>1. \A l \in ls : /\ l.detail # Unread => Belongs(l.key, l.detail)
                      /\ l.equity # Unread => Belongs(l.key, l.equity)
    BY DEF LoadsInv, LoadsOrdered
  <2>2. SUFFICES ASSUME NEW n \in loads', NEW l \in ls, n = [l EXCEPT !.newest = FALSE]
                 PROVE  /\ n.newest = FALSE
                        /\ n.detail # Unread => Belongs(n.key, n.detail)
                        /\ n.equity # Unread => Belongs(n.key, n.equity)
    BY <1>3
  <2>3. n.newest = FALSE /\ n.key = l.key /\ n.detail = l.detail /\ n.equity = l.equity
    BY <1>2, <2>2
  <2> QED BY <2>1, <2>2, <2>3
<1>6. LoadsOrdered'
  BY <1>1, <1>5 DEF LoadsOrdered
<1> QED BY <1>4, <1>6

\* The loads start in order.
LEMMA LoadsStart == LoadsInit => LoadsInv
<1> SUFFICES ASSUME LoadsInit PROVE LoadsInv
  OBVIOUS
<1>1. key \in Keys /\ latest \in [PageGroups -> Nat]
  BY DEF LoadsInit, Keys, Views
<1>2. loads \subseteq LoadRecords
  BY <1>1 DEF LoadsInit, NewLoad, LoadRecords, Answers, Unread
<1>3. LoadsOrdered
  BY DEF LoadsInit, NewLoad, LoadsOrdered
<1>4. LoadedBelongs
  BY DEF LoadsInit, NotLoaded, LoadedBelongs, Belongs, Unread, ExecutionGoesForward
<1> QED BY <1>1, <1>2, <1>3, <1>4 DEF LoadsInv

\* Every step of the loads keeps them in order.
LEMMA LoadsStep == LoadsInv /\ [LoadsNext]_loadsVars => LoadsInv'
<1> SUFFICES ASSUME LoadsInv, [LoadsNext]_loadsVars PROVE LoadsInv'
  OBVIOUS
<1> USE DEF LoadsInv
<1>1. CASE UNCHANGED loadsVars
  BY <1>1 DEF loadsVars, LoadsOrdered, LoadedBelongs, Belongs, ExecutionGoesForward
<1>2. ASSUME NEW g \in PageGroups, NEW r \in 0 .. MaxRuns, NEW v \in Views,
             SelectPage([group |-> g, run |-> r, view |-> v])
      PROVE  LoadsInv'
  <2> DEFINE k == [group |-> g, run |-> r, view |-> v]
  <2>1. k \in Keys /\ key' = k
    BY <1>2 DEF SelectPage, Keys
  <2>2. /\ Aborted(loads) \subseteq LoadRecords
        /\ \A l \in Aborted(loads) : \E m \in loads : /\ l.key = m.key /\ l.detail = m.detail /\ l.equity = m.equity
                                                      /\ l.newest = m.newest /\ l.passed = m.passed
    BY DEF Aborted, LoadRecords
  <2>3. loads' \subseteq LoadRecords /\ LoadsOrdered'
    BY <1>2, <2>1, <2>2, NewLoads DEF SelectPage
  <2>4. LoadedBelongs'
    BY <1>2 DEF SelectPage, LoadedBelongs, Belongs, ExecutionGoesForward
  <2> QED BY <1>2, <2>1, <2>3, <2>4 DEF SelectPage
<1>3. CASE PollPage \/ RefreshPage
  <2>1. PICK b \in BOOLEAN : loads' = LoadStarted(loads, key, b)
    BY <1>3 DEF PollPage, RefreshPage
  <2>2. loads' \subseteq LoadRecords /\ LoadsOrdered'
    BY <2>1, NewLoads
  <2>3. UNCHANGED <<kind, latest, key, loaded>>
    BY <1>3 DEF PollPage, RefreshPage
  <2> QED BY <2>2, <2>3 DEF LoadedBelongs, Belongs, ExecutionGoesForward
<1>4. ASSUME NEW l \in loads, ReadPage(l) PROVE LoadsInv'
  <2> DEFINE a == LoadAnswered(l)
  <2>1. a \in Answers /\ Belongs(l.key, a)
    BY DEF LoadAnswered, Belongs, Answers, LoadRecords, Keys
  <2>2. PICK n : /\ n \in {[l EXCEPT !.detail = a], [l EXCEPT !.equity = a]}
                 /\ loads' = (loads \ {l}) \cup {n}
    BY <1>4 DEF ReadPage
  <2>3. /\ n \in LoadRecords /\ n.key = l.key /\ n.newest = l.newest /\ n.passed = l.passed
        /\ n.detail \in {l.detail, a} /\ n.equity \in {l.equity, a}
    BY <2>1, <2>2 DEF LoadRecords
  <2>4. loads' \subseteq LoadRecords
    BY <2>2, <2>3
  <2>5. LoadsOrdered'
    BY <2>1, <2>2, <2>3 DEF LoadsOrdered
  <2>6. UNCHANGED <<kind, latest, key, loaded>>
    BY <1>4 DEF ReadPage
  <2> QED BY <2>4, <2>5, <2>6 DEF LoadedBelongs, Belongs, ExecutionGoesForward
<1>5. ASSUME NEW l \in loads, LoadDone(l) PROVE LoadsInv'
  <2>1. UNCHANGED <<kind, latest, key>> /\ l.detail # Unread /\ l.equity # Unread
    BY <1>5 DEF LoadDone
  <2>2. CASE LoadWanted(l) /\ Matches(l)
    <3>1. /\ loaded' = Accepted(l)
          /\ loads' = {[m EXCEPT !.passed = @ \/ l.newest] : m \in loads \ {l}}
      BY <1>5, <2>2 DEF LoadDone
    <3>2. LoadedBelongs'
      <4>1. CASE kind = "models" /\ l.key.run = 0
        <5>1. loaded' = NotLoaded
          BY <3>1, <4>1 DEF Accepted
        <5> QED BY <2>1, <5>1 DEF NotLoaded, LoadedBelongs, Belongs, Unread, ExecutionGoesForward
      <4>2. CASE ~(kind = "models" /\ l.key.run = 0)
        <5>1. /\ loaded'.key = l.key /\ loaded'.passed = l.passed /\ loaded'.detail = l.detail
              /\ loaded'.equity = l.equity
          BY <3>1, <4>2 DEF Accepted
        <5> QED BY <2>1, <2>2, <5>1
                DEF LoadWanted, Matches, LoadsOrdered, LoadedBelongs, Belongs, ExecutionGoesForward
      <4> QED BY <4>1, <4>2
    <3>3. \A n \in loads' : \E m \in loads \ {l} :
              /\ n = [m EXCEPT !.passed = @ \/ l.newest]
              /\ n \in LoadRecords /\ n.key = m.key /\ n.newest = m.newest /\ n.detail = m.detail
              /\ n.equity = m.equity
              /\ n.passed <=> m.passed \/ l.newest
      BY <3>1 DEF LoadRecords
    <3>4. loads' \subseteq LoadRecords
      BY <3>3
    <3>5. LoadsOrdered'
      BY <3>3 DEF LoadsOrdered, Belongs
    <3> QED BY <2>1, <3>2, <3>4, <3>5
  <2>3. CASE loads' = loads \ {l} /\ UNCHANGED loaded
    BY <2>1, <2>3 DEF LoadsOrdered, LoadedBelongs, Belongs, ExecutionGoesForward
  <2> QED BY <1>5, <2>2, <2>3 DEF LoadDone
<1>6. ASSUME NEW l \in loads, LoadFails(l) PROVE LoadsInv'
  <2>1. loads' = loads \ {l} /\ UNCHANGED <<kind, latest, key>> /\ loaded' \in {loaded, NotLoaded}
    BY <1>6 DEF LoadFails
  <2>2. LoadsOrdered'
    BY <2>1 DEF LoadsOrdered, Belongs
  <2>3. LoadedBelongs'
    BY <2>1 DEF NotLoaded, LoadedBelongs, Belongs, Unread, ExecutionGoesForward
  <2> QED BY <2>1, <2>2, <2>3
<1>7. ASSUME NEW g \in PageGroups, NextRun(g) PROVE LoadsInv'
  BY <1>7 DEF NextRun, LoadsOrdered, LoadedBelongs, Belongs, ExecutionGoesForward
<1> QED BY <1>1, <1>2, <1>3, <1>4, <1>5, <1>6, <1>7 DEF LoadsNext

\* What a page shows belongs to the selection its loads are for: of the answers that arrive
\* late, in any order, only one of the latest load of the current selection is taken.
THEOREM PagesShowSelection == LoadsInit /\ [][LoadsNext]_loadsVars => []LoadsBelong
<1>1. LoadsInv => LoadsBelong
  BY DEF LoadsInv, LoadedBelongs, Belongs, LoadsBelong, PageShowsSelection, PortfolioIsOneRun, Shown
<1> QED BY <1>1, LoadsStart, LoadsStep, PTL

-----------------------------------------------------------------------------
(* RunSelection: what the browser kept, and what the operator chose. *)

\* What is stored is not touched before the restoring is over, and the edits are counted.
RestoringInv == edits \in Nat /\ (owner => restoring = "done")

\* What a step writes to the selection and the storage.
LEMMA SelectionSteps ==
    ASSUME RestoringInv, SelectionNext
    PROVE  \/ UNCHANGED <<stored, selection, edits, owner>> /\ restoring \in {restoring', "session", "validating"}
           \/ edits' = edits + 1 /\ owner' = owner /\ restoring' = restoring /\ (owner => stored' = selection')
              /\ (~owner => stored' = stored)
           \/ edits' = edits /\ owner' = TRUE /\ restoring' = "done" /\ stored' = selection'
              /\ (edits > 0 => selection' = selection)
<1>1. ASSUME NEW r \in SelRuns, Runs(r) PROVE UNCHANGED <<stored, selection, edits, owner, restoring>>
  BY <1>1 DEF Runs
<1>2. ASSUME NEW s \in Selections, EditSelection(s)
      PROVE  edits' = edits + 1 /\ owner' = owner /\ restoring' = restoring /\ (owner => stored' = selection')
             /\ (~owner => stored' = stored)
  BY <1>2 DEF EditSelection, Kept
<1>3. CASE ReadSelection \/ RestoreFails
  BY <1>3 DEF ReadSelection, RestoreFails, RestoringInv
<1>4. ASSUME NEW unanswered \in SUBSET SelGroups, Restore(unanswered)
      PROVE  edits' = edits /\ owner' = TRUE /\ restoring' = "done" /\ stored' = selection'
             /\ (edits > 0 => selection' = selection)
  <2>1. /\ edits' = edits /\ owner' = TRUE /\ restoring' = "done" /\ stored' = selection'
        /\ \E s : selection' = IF edits = 0 THEN Validated(s, unanswered) ELSE selection
    BY <1>4 DEF Restore, Kept, Untouched
  <2> HIDE DEF Validated
  <2> QED BY <2>1 DEF RestoringInv
<1> QED BY <1>1, <1>2, <1>3, <1>4 DEF SelectionNext

\* A step that is not an edit neither replaces a selection that was edited nor stores another
\* than the one shown.
LEMMA RestoringStep ==
    RestoringInv /\ [SelectionNext]_selectionVars =>
        /\ RestoringInv'
        /\ [selection' # selection /\ edits > 0 => edits' > edits]_selectionVars
        /\ [stored' # stored => stored' = selection' /\ restoring' = "done"]_selectionVars
<1>1. ASSUME RestoringInv, UNCHANGED selectionVars PROVE RestoringInv'
  BY <1>1 DEF selectionVars, RestoringInv
<1>2. ASSUME RestoringInv, SelectionNext
      PROVE  /\ RestoringInv' /\ (selection' # selection /\ edits > 0 => edits' > edits)
             /\ (stored' # stored => stored' = selection' /\ restoring' = "done")
  <2>1. edits \in Nat /\ (owner => restoring = "done")
    BY <1>2 DEF RestoringInv
  <2>2. CASE UNCHANGED <<stored, selection, edits, owner>> /\ restoring \in {restoring', "session", "validating"}
    BY <2>1, <2>2 DEF RestoringInv
  <2>3. CASE edits' = edits + 1 /\ owner' = owner /\ restoring' = restoring /\ (owner => stored' = selection')
              /\ (~owner => stored' = stored)
    BY <2>1, <2>3 DEF RestoringInv
  <2>4. CASE edits' = edits /\ owner' = TRUE /\ restoring' = "done" /\ stored' = selection'
              /\ (edits > 0 => selection' = selection)
    BY <2>1, <2>4 DEF RestoringInv
  <2> QED BY <1>2, <2>2, <2>3, <2>4, SelectionSteps
<1> QED BY <1>1, <1>2

\* The selection the operator made is kept: what the browser had stored, read late, does not
\* replace it, and nothing is stored before that was read.
THEOREM SelectionKept == SelectionInit /\ [][SelectionNext]_selectionVars => SelectionIsKept
<1>1. SelectionInit => RestoringInv
  BY DEF SelectionInit, RestoringInv
<1> QED BY <1>1, RestoringStep, PTL DEF SelectionIsKept, EditsWin, StoredIsShown

-----------------------------------------------------------------------------
(* MarketStream: the inductive invariant. *)

Quotes == [of : Instruments \cup {"none"}, at : Nat, from : {"none", "snapshot", "candles", "stream"}]
Closures == [instrument : Instruments, suspended : BOOLEAN, socket : Nat, timers : Nat, connecting : Nat,
             pending : Quotes]
Connected == [gen : Nat, pc : {"opening", "open", "closing", "closed"}, queue : Seq(Nat), sent : Nat]
Charts == [ticker : Quotes, candles : Quotes, connected : BOOLEAN]
Answers1 == [gen : Nat, what : {"snapshot", "candles"}, value : Quotes]

\* The effects know their connections, and connections and requests their effects.
MarketTypes ==
    /\ market \in [Instruments -> Nat] /\ hides \in Nat
    /\ effects \in Seq(Closures) /\ Len(effects) > 0 /\ sockets \in Seq(Connected)
    /\ requests \subseteq Answers1
    /\ quote \in Charts
    /\ \A n \in 1 .. Len(effects) : effects[n].socket <= Len(sockets)
    /\ \A s \in 1 .. Len(sockets) : sockets[s].gen \in 1 .. Len(effects)
    /\ \A r \in requests : r.gen \in 1 .. Len(effects)

\* What is read for an effect, or comes in for it, is of its instrument.
QuotesOfEffects ==
    /\ \A r \in requests : r.value = None \/ r.value.of = effects[r.gen].instrument
    /\ \A r \in requests : r.value.from # "stream"
    /\ \A n \in 1 .. Len(effects) : effects[n].pending = None \/ effects[n].pending.of = effects[n].instrument
    /\ MarketIsSelected

\* A connection of the effect that is not disposed.
Live(s) == sockets[s].gen = Generation /\ sockets[s].pc # "closed"

\* A page that was never hidden has one connection, or is about to make one.
OneConnection ==
    hides = 0 =>
        /\ Current.suspended = FALSE /\ Current.timers + Current.connecting <= 1
        /\ \A s \in 1 .. Len(sockets) : Live(s) => /\ Current.timers = 0 /\ Current.connecting = 0
                                                   /\ \A t \in 1 .. Len(sockets) : Live(t) => s = t

\* So what that connection still holds is in order, and not older than what it has brought: at
\* is the market, shown and next are the quotes of the stream that are shown and wait.
Before(q, at) == q.from = "stream" => q.at <= at

Ordered(queue, at, shown, next) ==
    \A i \in 1 .. Len(queue) : /\ queue[i] <= at /\ Before(shown, queue[i]) /\ Before(next, queue[i])
                               /\ \A j \in 1 .. i : queue[j] <= queue[i]

StreamInOrder ==
    hides = 0 =>
        /\ Before(quote.ticker, market[Current.instrument])
        /\ Before(Current.pending, market[Current.instrument])
        /\ Current.pending.from = "stream" => Before(quote.ticker, Current.pending.at)
        /\ Current.pending = None \/ Current.pending.from = "stream"
        /\ \A s \in 1 .. Len(sockets) : Live(s) =>
              Ordered(sockets[s].queue, market[Current.instrument], quote.ticker, Current.pending)

MarketInv == MarketTypes /\ QuotesOfEffects /\ OneConnection /\ StreamInOrder

\* A sequence with one element replaced.
LEMMA Replaced ==
    ASSUME NEW S, NEW f \in Seq(S), NEW n \in 1 .. Len(f), NEW x \in S, NEW g, g = [f EXCEPT ![n] = x]
    PROVE  /\ g \in Seq(S) /\ Len(g) = Len(f) /\ g[n] = x
           /\ \A m \in 1 .. Len(f) : m # n => g[m] = f[m]
OBVIOUS

\* ... or added.
LEMMA Added ==
    ASSUME NEW S, NEW f \in Seq(S), NEW x \in S, NEW g, g = Append(f, x)
    PROVE  /\ g \in Seq(S) /\ Len(g) = Len(f) + 1 /\ g[Len(g)] = x
           /\ \A m \in 1 .. Len(f) : g[m] = f[m]
OBVIOUS

\* The invariant holds at the start.
LEMMA MarketStart == MarketInit => MarketInv
<1> SUFFICES ASSUME MarketInit PROVE MarketInv
  OBVIOUS
<1>1. PICK i \in Instruments : effects = <<Effect0(i)>> /\ requests = Started(i, 1)
  BY DEF MarketInit
<1>2. None \in Quotes /\ None.from = "none" /\ None.of = "none"
  BY DEF None, Quotes
<1>3. /\ Effect0(i) \in Closures /\ Effect0(i).socket = 0 /\ Effect0(i).pending = None
      /\ Effect0(i).timers + Effect0(i).connecting <= 1 /\ Effect0(i).suspended = FALSE
  BY <1>2 DEF Effect0, Closures
<1>4. /\ effects \in Seq(Closures) /\ Len(effects) = 1 /\ effects # <<>> /\ effects[1] = Effect0(i)
      /\ \A n \in 1 .. Len(effects) : effects[n] = Effect0(i)
  BY <1>1, <1>3
<1>5. requests \subseteq Answers1 /\ \A r \in requests : r.gen = 1 /\ r.value = None
  BY <1>1, <1>2 DEF Started, Answers1
<1>6. /\ quote \in Charts /\ quote.ticker = None /\ quote.candles = None
      /\ sockets = <<>> /\ sockets \in Seq(Connected) /\ Len(sockets) = 0 /\ hides = 0
      /\ market \in [Instruments -> Nat]
  BY <1>2 DEF MarketInit, Blank, Charts
<1>7. MarketTypes
  BY <1>3, <1>4, <1>5, <1>6 DEF MarketTypes
<1>8. QuotesOfEffects
  BY <1>2, <1>3, <1>4, <1>5, <1>6 DEF QuotesOfEffects, MarketIsSelected
<1>9. Current = Effect0(i)
  BY <1>4 DEF Current, Generation
<1>10. OneConnection
  BY <1>3, <1>6, <1>9 DEF OneConnection
<1>11. StreamInOrder
  BY <1>2, <1>3, <1>6, <1>9 DEF StreamInOrder, Before
<1> QED BY <1>7, <1>8, <1>10, <1>11 DEF MarketInv

-----------------------------------------------------------------------------
(* MarketStream: what each action does, field by field. *)

\* One effect changes, which keeps its instrument.
OneEffect(n) ==
    /\ n \in 1 .. Len(effects) /\ effects' \in Seq(Closures) /\ Len(effects') = Len(effects)
    /\ effects'[n].instrument = effects[n].instrument
    /\ \A m \in 1 .. Len(effects) : m # n => effects'[m] = effects[m]

\* One connection changes, which stays with its effect.
OneSocket(s) ==
    /\ s \in 1 .. Len(sockets) /\ sockets' \in Seq(Connected) /\ Len(sockets') = Len(sockets)
    /\ sockets'[s].gen = sockets[s].gen
    /\ \A t \in 1 .. Len(sockets) : t # s => sockets'[t] = sockets[t]

\* One effect replaced by one of the same instrument.
LEMMA EffectReplaced ==
    ASSUME MarketTypes, NEW n \in 1 .. Len(effects), NEW x \in Closures, x.instrument = effects[n].instrument,
           effects' = [effects EXCEPT ![n] = x]
    PROVE  OneEffect(n) /\ effects'[n] = x
BY Replaced DEF MarketTypes, OneEffect

\* One connection replaced by one of the same effect.
LEMMA SocketReplaced ==
    ASSUME MarketTypes, NEW s \in 1 .. Len(sockets), NEW x \in Connected, x.gen = sockets[s].gen,
           sockets' = [sockets EXCEPT ![s] = x]
    PROVE  OneSocket(s) /\ sockets'[s] = x
BY Replaced DEF MarketTypes, OneSocket

\* The types of the elements.
LEMMA Elements ==
    ASSUME MarketTypes
    PROVE  /\ Generation \in 1 .. Len(effects) /\ Generation = Len(effects) /\ Current = effects[Generation]
           /\ \A n \in 1 .. Len(effects) : effects[n] \in Closures
           /\ \A s \in 1 .. Len(sockets) : sockets[s] \in Connected
           /\ DOMAIN effects = 1 .. Len(effects) /\ DOMAIN sockets = 1 .. Len(sockets)
           /\ Len(effects) \in Nat /\ Len(sockets) \in Nat
           /\ None \in Quotes /\ None.from = "none"
BY DEF MarketTypes, Generation, Current, None, Quotes

\* Closing leaves every connection as it is, but for one that is not closed and is going to be.
LEMMA ClosingOne ==
    ASSUME MarketTypes, NEW k \in 0 .. Len(sockets), sockets' = Closing(k)
    PROVE  /\ sockets' \in Seq(Connected) /\ Len(sockets') = Len(sockets)
           /\ \A s \in 1 .. Len(sockets) : /\ sockets'[s].gen = sockets[s].gen /\ sockets'[s].queue = sockets[s].queue
                                           /\ sockets'[s].pc = "closed" <=> sockets[s].pc = "closed"
<1>1. CASE sockets' = sockets
  BY <1>1 DEF MarketTypes
<1>2. CASE k \in 1 .. Len(sockets) /\ sockets[k].pc # "closed" /\ sockets' = [sockets EXCEPT ![k].pc = "closing"]
  <2> DEFINE x == [sockets[k] EXCEPT !.pc = "closing"]
  <2>1. x \in Connected /\ x.gen = sockets[k].gen /\ x.queue = sockets[k].queue /\ x.pc = "closing"
    BY <1>2, Elements DEF Connected
  <2>2. sockets' = [sockets EXCEPT ![k] = x]
    BY <1>2
  <2>3. OneSocket(k) /\ sockets'[k] = x
    BY <1>2, <2>1, <2>2, SocketReplaced
  <2> QED BY <1>2, <2>1, <2>3 DEF OneSocket
<1> QED BY <1>1, <1>2 DEF Closing

\* Another instrument is selected: the old effect is cleaned up, the new one starts.
LEMMA SelectDoes ==
    ASSUME MarketTypes, NEW i \in Instruments, SelectInstrument(i)
    PROVE  /\ effects' \in Seq(Closures) /\ Len(effects') = Len(effects) + 1
           /\ \A n \in 1 .. Len(effects) : /\ effects'[n].instrument = effects[n].instrument
                                           /\ effects'[n].pending = effects[n].pending
                                           /\ effects'[n].socket = effects[n].socket
           /\ effects'[Len(effects) + 1].instrument = i /\ effects'[Len(effects) + 1].pending = None
           /\ effects'[Len(effects) + 1].socket = 0 /\ effects'[Len(effects) + 1].suspended = FALSE
           /\ effects'[Len(effects) + 1].timers = 0 /\ effects'[Len(effects) + 1].connecting = 1
           /\ sockets' \in Seq(Connected) /\ Len(sockets') = Len(sockets)
           /\ \A s \in 1 .. Len(sockets) : /\ sockets'[s].gen = sockets[s].gen /\ sockets'[s].queue = sockets[s].queue
                                           /\ sockets'[s].pc = "closed" <=> sockets[s].pc = "closed"
           /\ requests' = requests \cup Started(i, Generation + 1)
           /\ quote' = Blank /\ UNCHANGED <<market, hides>>
<1> DEFINE f == [effects EXCEPT ![Generation] = Cleared(@)]
           x == Cleared(effects[Generation])
<1>1. Cleared(Current) \in Closures /\ x = Cleared(Current)
  BY Elements DEF Cleared, Closures
<1>2. /\ x.instrument = Current.instrument /\ x.pending = Current.pending /\ x.socket = Current.socket
  BY Elements DEF Cleared, Closures
<1>3. /\ f \in Seq(Closures) /\ Len(f) = Len(effects) /\ f[Generation] = x
      /\ \A m \in 1 .. Len(effects) : m # Generation => f[m] = effects[m]
  BY <1>1, Elements, Replaced DEF MarketTypes
<1>4. /\ Effect0(i) \in Closures /\ Effect0(i).instrument = i /\ Effect0(i).pending = None /\ Effect0(i).socket = 0
      /\ Effect0(i).suspended = FALSE /\ Effect0(i).timers = 0 /\ Effect0(i).connecting = 1
  BY Elements DEF Effect0, Closures
<1>5. effects' = Append(f, Effect0(i))
  BY DEF SelectInstrument
<1> HIDE DEF f, x
<1>6. /\ effects' \in Seq(Closures) /\ Len(effects') = Len(f) + 1 /\ effects'[Len(f) + 1] = Effect0(i)
      /\ \A m \in 1 .. Len(f) : effects'[m] = f[m]
  BY <1>3, <1>4, <1>5, Added
<1>7. \A n \in 1 .. Len(effects) : /\ effects'[n].instrument = effects[n].instrument
                                   /\ effects'[n].pending = effects[n].pending
                                   /\ effects'[n].socket = effects[n].socket
  BY <1>2, <1>3, <1>6, Elements
<1>8. Current.socket \in 0 .. Len(sockets) /\ sockets' = Closing(Current.socket)
  BY Elements DEF SelectInstrument, MarketTypes, Closures
<1> QED BY <1>3, <1>4, <1>6, <1>7, <1>8, ClosingOne DEF SelectInstrument

\* A connect got its session: it makes a connection, or finds its effect over or suspended.
LEMMA ReadyDoes ==
    ASSUME MarketTypes, NEW n \in 1 .. Len(effects), ConnectReady(n)
    PROVE  /\ OneEffect(n) /\ UNCHANGED <<market, quote, requests, hides>> /\ effects[n].connecting > 0
           /\ effects'[n].connecting = effects[n].connecting - 1 /\ effects'[n].timers = effects[n].timers
           /\ effects'[n].suspended = effects[n].suspended /\ effects'[n].pending = effects[n].pending
           /\ \/ sockets' = sockets /\ effects'[n].socket = effects[n].socket
              \/ /\ n = Generation /\ sockets' \in Seq(Connected) /\ Len(sockets') = Len(sockets) + 1
                 /\ \A s \in 1 .. Len(sockets) : sockets'[s] = sockets[s]
                 /\ sockets'[Len(sockets')].gen = n /\ sockets'[Len(sockets')].queue = <<>>
                 /\ effects'[n].socket = Len(sockets')
<1> DEFINE w == [gen |-> n, pc |-> "opening", queue |-> <<>>, sent |-> 0]
<1>1. effects[n] \in Closures /\ effects[n].connecting > 0 /\ effects[n].connecting - 1 \in Nat
  BY Elements DEF ConnectReady, Closures
<1>2. CASE n = Generation /\ ~effects[n].suspended
  <2> DEFINE x == [effects[n] EXCEPT !.connecting = @ - 1, !.socket = Len(sockets) + 1]
  <2>1. /\ x \in Closures /\ x.instrument = effects[n].instrument /\ x.timers = effects[n].timers
        /\ x.connecting = effects[n].connecting - 1 /\ x.suspended = effects[n].suspended
        /\ x.pending = effects[n].pending /\ x.socket = Len(sockets) + 1
    <3>1. Len(sockets) + 1 \in Nat
      BY Elements
    <3> QED BY <1>1, <3>1 DEF Closures
  <2>2. effects' = [effects EXCEPT ![n] = x] /\ sockets' = Append(sockets, w)
    <3>1. /\ effects' = [effects EXCEPT ![n].connecting = @ - 1, ![n].socket = Len(sockets) + 1]
          /\ sockets' = Append(sockets, w)
      BY <1>2 DEF ConnectReady
    <3> HIDE DEF w
    <3>2. effects' = [effects EXCEPT ![n] = x]
      BY <3>1
    <3> QED BY <3>1, <3>2
  <2>3. w \in Connected /\ w.gen = n /\ w.queue = <<>>
    <3>1. n \in Nat /\ 0 \in Nat /\ <<>> \in Seq(Nat)
      BY Elements
    <3> QED BY <3>1 DEF Connected
  <2> HIDE DEF x, w
  <2>4. OneEffect(n) /\ effects'[n] = x
    BY <2>1, <2>2, EffectReplaced
  <2>5. /\ sockets' \in Seq(Connected) /\ Len(sockets') = Len(sockets) + 1 /\ sockets'[Len(sockets')] = w
        /\ \A s \in 1 .. Len(sockets) : sockets'[s] = sockets[s]
    BY <2>2, <2>3, Added DEF MarketTypes
  <2> QED BY <1>1, <1>2, <2>1, <2>3, <2>4, <2>5 DEF ConnectReady
<1>3. CASE ~(n = Generation /\ ~effects[n].suspended)
  <2> DEFINE x == [effects[n] EXCEPT !.connecting = @ - 1]
  <2>1. /\ x \in Closures /\ x.instrument = effects[n].instrument /\ x.timers = effects[n].timers
        /\ x.connecting = effects[n].connecting - 1 /\ x.suspended = effects[n].suspended
        /\ x.pending = effects[n].pending /\ x.socket = effects[n].socket
    BY <1>1, Elements DEF Closures
  <2>2. effects' = [effects EXCEPT ![n] = x] /\ sockets' = sockets
    BY <1>3 DEF ConnectReady
  <2> HIDE DEF x
  <2>3. OneEffect(n) /\ effects'[n] = x
    BY <2>1, <2>2, EffectReplaced
  <2> QED BY <1>1, <2>1, <2>2, <2>3 DEF ConnectReady
<1> QED BY <1>2, <1>3

\* The other steps of an effect: a connect fails, a reconnect is due, the page is shown.
LEMMA EffectDoes ==
    ASSUME MarketTypes, NEW n \in 1 .. Len(effects), (n = Generation /\ (ConnectFails \/ Show)) \/ Reconnect(n)
    PROVE  /\ OneEffect(n) /\ UNCHANGED <<market, quote, requests, sockets, hides>>
           /\ effects'[n].socket = effects[n].socket /\ effects'[n].pending = effects[n].pending
           /\ \/ /\ effects'[n].timers + effects'[n].connecting <= effects[n].timers + effects[n].connecting
                 /\ effects[n].timers + effects[n].connecting > 0
                 /\ effects'[n].suspended = effects[n].suspended
              \/ n = Generation /\ Current.suspended = TRUE
<1>1. effects[n] \in Closures /\ (n = Generation => Current = effects[n])
  BY Elements
<1>2. ASSUME NEW x \in Closures, effects' = [effects EXCEPT ![n] = x], x.instrument = effects[n].instrument
      PROVE  OneEffect(n) /\ effects'[n] = x
  BY <1>2, EffectReplaced
<1>3. CASE ConnectFails /\ n = Generation
  <2> DEFINE x == [effects[n] EXCEPT !.connecting = @ - 1]
  <2>1. effects' = [effects EXCEPT ![n] = x] /\ effects[n].connecting > 0
    BY <1>1, <1>3 DEF ConnectFails
  <2>0. effects[n].connecting - 1 \in Nat
    BY <1>1, <2>1 DEF Closures
  <2>2. /\ x \in Closures /\ x.instrument = effects[n].instrument /\ x.timers = effects[n].timers
        /\ x.connecting = effects[n].connecting - 1 /\ x.suspended = effects[n].suspended
        /\ x.pending = effects[n].pending /\ x.socket = effects[n].socket
    BY <1>1, <2>0, <2>1 DEF Closures
  <2> HIDE DEF x
  <2>3. effects[n].timers \in Nat /\ effects[n].connecting \in Nat
    BY <1>1 DEF Closures
  <2>4. OneEffect(n) /\ effects'[n] = x
    BY <1>2, <2>1, <2>2
  <2>5. UNCHANGED <<market, quote, requests, sockets, hides>>
    BY <1>3 DEF ConnectFails
  <2> QED BY <1>3, <2>1, <2>2, <2>3, <2>4, <2>5
<1>4. CASE Reconnect(n)
  <2> DEFINE x == [effects[n] EXCEPT !.timers = @ - 1, !.connecting = @ + 1]
  <2>1. effects' = [effects EXCEPT ![n] = x] /\ effects[n].timers > 0
    BY <1>1, <1>4 DEF Reconnect
  <2>0. effects[n].timers - 1 \in Nat /\ effects[n].connecting + 1 \in Nat
    BY <1>1, <2>1 DEF Closures
  <2>2. /\ x \in Closures /\ x.instrument = effects[n].instrument /\ x.timers = effects[n].timers - 1
        /\ x.connecting = effects[n].connecting + 1 /\ x.suspended = effects[n].suspended
        /\ x.pending = effects[n].pending /\ x.socket = effects[n].socket
    BY <1>1, <2>0, <2>1 DEF Closures
  <2> HIDE DEF x
  <2>3. effects[n].timers \in Nat /\ effects[n].connecting \in Nat
    BY <1>1 DEF Closures
  <2>4. OneEffect(n) /\ effects'[n] = x
    BY <1>2, <2>1, <2>2
  <2>5. UNCHANGED <<market, quote, requests, sockets, hides>>
    BY <1>4 DEF Reconnect
  <2> QED BY <1>4, <2>1, <2>2, <2>3, <2>4, <2>5
<1>5. CASE Show /\ n = Generation
  <2> DEFINE x == [effects[n] EXCEPT !.suspended = FALSE, !.connecting = @ + 1]
  <2>1. effects' = [effects EXCEPT ![n] = x]
    BY <1>1, <1>5 DEF Show
  <2>0. effects[n].connecting + 1 \in Nat
    BY <1>1 DEF Closures
  <2>2. /\ x \in Closures /\ x.instrument = effects[n].instrument
        /\ x.pending = effects[n].pending /\ x.socket = effects[n].socket
    BY <1>1, <2>0, <2>1 DEF Closures
  <2> HIDE DEF x
  <2>3. Current.suspended = TRUE
    BY <1>1, <1>5 DEF Show, Closures
  <2>4. OneEffect(n) /\ effects'[n] = x
    BY <1>2, <2>1, <2>2
  <2>5. UNCHANGED <<market, quote, requests, sockets, hides>>
    BY <1>5 DEF Show
  <2> QED BY <1>5, <2>1, <2>2, <2>3, <2>4, <2>5
<1> QED BY <1>3, <1>4, <1>5

\* A connection opens or breaks, or the backend sends on it.
LEMMA SocketDoes ==
    ASSUME MarketTypes, NEW s \in 1 .. Len(sockets), OnOpen(s) \/ Break(s) \/ Relay(s)
    PROVE  /\ UNCHANGED <<market, effects, requests, hides>>
           /\ quote' \in Charts /\ quote'.ticker = quote.ticker /\ quote'.candles = quote.candles
           /\ sockets' \in Seq(Connected) /\ Len(sockets') = Len(sockets)
           /\ \A t \in 1 .. Len(sockets) :
                 /\ sockets'[t].gen = sockets[t].gen
                 /\ sockets'[t].pc = "closed" <=> sockets[t].pc = "closed"
                 /\ \/ sockets'[t].queue = sockets[t].queue
                    \/ /\ sockets[t].gen \in 1 .. Len(effects)
                       /\ sockets'[t].queue = Append(sockets[t].queue, market[effects[sockets[t].gen].instrument])
<1>1. sockets[s] \in Connected /\ sockets[s].gen \in 1 .. Len(effects)
  BY Elements DEF MarketTypes
<1>2. CASE OnOpen(s)
  <2> DEFINE x == [sockets[s] EXCEPT !.pc = "open"]
  <2>1. x \in Connected /\ x.gen = sockets[s].gen /\ x.queue = sockets[s].queue /\ x.pc = "open"
    BY <1>1 DEF Connected
  <2>2. sockets' = [sockets EXCEPT ![s] = x] /\ sockets[s].pc = "opening"
    BY <1>2 DEF OnOpen
  <2> HIDE DEF x
  <2>3. OneSocket(s) /\ sockets'[s] = x
    BY <2>1, <2>2, SocketReplaced
  <2>4. /\ UNCHANGED <<market, effects, requests, hides>>
        /\ quote' \in Charts /\ quote'.ticker = quote.ticker /\ quote'.candles = quote.candles
    BY <1>2 DEF OnOpen, MarketTypes, Charts
  <2> QED BY <2>1, <2>2, <2>3, <2>4 DEF OneSocket
<1> quote \in Charts
  BY DEF MarketTypes
<1>3. CASE Break(s)
  <2>1. UNCHANGED <<market, effects, requests, hides, quote>> /\ sockets' = Closing(s)
    BY <1>3 DEF Break
  <2> QED BY <2>1, Elements, ClosingOne
<1>4. CASE Relay(s)
  <2> DEFINE v == market[effects[sockets[s].gen].instrument]
             x == [sockets[s] EXCEPT !.sent = v, !.queue = Append(@, v)]
  <2>1. v \in Nat
    BY <1>1, Elements DEF MarketTypes, Closures
  <2>2. Append(sockets[s].queue, v) \in Seq(Nat)
    BY <1>1, <2>1 DEF Connected
  <2>3. sockets' = [sockets EXCEPT ![s] = x] /\ UNCHANGED <<market, effects, quote, requests, hides>>
    BY <1>4 DEF Relay
  <2> HIDE DEF v
  <2>4. x \in Connected /\ x.gen = sockets[s].gen /\ x.queue = Append(sockets[s].queue, v) /\ x.pc = sockets[s].pc
    BY <1>1, <2>1, <2>2 DEF Connected
  <2> HIDE DEF x
  <2>5. OneSocket(s) /\ sockets'[s] = x
    BY <2>3, <2>4, SocketReplaced
  <2> QED BY <1>1, <2>3, <2>4, <2>5 DEF OneSocket, v
<1> QED BY <1>2, <1>3, <1>4

\* A connection brings a quote.
LEMMA MessageDoes ==
    ASSUME MarketTypes, NEW s \in 1 .. Len(sockets), OnMessage(s)
    PROVE  /\ UNCHANGED <<market, quote, requests, hides>> /\ OneSocket(s)
           /\ sockets[s].pc = "open" /\ sockets'[s].pc = "open" /\ sockets[s].queue # <<>>
           /\ sockets[s].queue \in Seq(Nat) /\ sockets'[s].queue = Tail(sockets[s].queue)
           /\ \/ effects' = effects /\ (sockets[s].gen # Generation \/ effects[sockets[s].gen].suspended = TRUE)
              \/ /\ sockets[s].gen = Generation /\ OneEffect(Generation)
                 /\ effects'[Generation].socket = Current.socket
                 /\ effects'[Generation].suspended = Current.suspended
                 /\ effects'[Generation].timers = Current.timers
                 /\ effects'[Generation].connecting = Current.connecting
                 /\ effects'[Generation].pending.of = Current.instrument
                 /\ effects'[Generation].pending.at = Head(sockets[s].queue)
                 /\ effects'[Generation].pending.from = "stream"
<1> DEFINE n == sockets[s].gen
           h == Head(sockets[s].queue)
           y == [sockets[s] EXCEPT !.queue = Tail(@)]
           p == [of |-> effects[n].instrument, at |-> h, from |-> "stream"]
           x == [effects[n] EXCEPT !.pending = p]
<1>1. sockets[s] \in Connected /\ n \in 1 .. Len(effects) /\ effects[n] \in Closures
  BY Elements DEF MarketTypes
<1>2. /\ sockets[s].pc = "open" /\ sockets[s].queue # <<>> /\ sockets' = [sockets EXCEPT ![s] = y]
      /\ UNCHANGED <<market, quote, requests, hides>>
      /\ IF n # Generation \/ effects[n].suspended THEN effects' = effects
         ELSE effects' = [effects EXCEPT ![n] = x]
  BY DEF OnMessage
<1>3. h \in Nat /\ Tail(sockets[s].queue) \in Seq(Nat) /\ sockets[s].queue \in Seq(Nat)
  BY <1>1, <1>2 DEF Connected
<1>4. y \in Connected /\ y.gen = n /\ y.queue = Tail(sockets[s].queue) /\ y.pc = "open"
  BY <1>1, <1>2, <1>3 DEF Connected
<1>5. p \in Quotes /\ p.of = effects[n].instrument /\ p.at = h /\ p.from = "stream"
  BY <1>1, <1>3 DEF Quotes, Closures
<1> HIDE DEF y, p, h
<1>6. /\ x \in Closures /\ x.instrument = effects[n].instrument /\ x.socket = effects[n].socket
      /\ x.suspended = effects[n].suspended /\ x.timers = effects[n].timers
      /\ x.connecting = effects[n].connecting /\ x.pending = p
  BY <1>1, <1>5 DEF Closures
<1> HIDE DEF x
<1>7. OneSocket(s) /\ sockets'[s] = y
  BY <1>2, <1>4, SocketReplaced
<1>8. CASE n # Generation \/ effects[n].suspended
  <2>1. effects[n].suspended \in BOOLEAN
    BY <1>1 DEF Closures
  <2> QED BY <1>2, <1>3, <1>4, <1>7, <1>8, <2>1
<1>9. CASE n = Generation /\ ~effects[n].suspended
  <2>1. effects' = [effects EXCEPT ![n] = x]
    BY <1>2, <1>9
  <2>2. OneEffect(n) /\ effects'[n] = x
    BY <1>1, <1>6, <2>1, EffectReplaced
  <2>3. Current = effects[n]
    BY <1>9, Elements
  <2> QED BY <1>2, <1>3, <1>4, <1>5, <1>6, <1>7, <1>9, <2>2, <2>3 DEF h
<1> QED BY <1>8, <1>9

\* A connection is gone: its effect connects again unless it is over.
LEMMA CloseDoes ==
    ASSUME MarketTypes, NEW s \in 1 .. Len(sockets), OnClose(s)
    PROVE  /\ UNCHANGED <<market, requests, hides>> /\ OneSocket(s)
           /\ sockets[s].pc = "closing" /\ sockets'[s].pc = "closed"
           /\ quote' \in Charts /\ quote'.ticker = quote.ticker /\ quote'.candles = quote.candles
           /\ \/ effects' = effects /\ (sockets[s].gen # Generation \/ effects[sockets[s].gen].suspended = TRUE)
              \/ /\ sockets[s].gen = Generation /\ OneEffect(Generation)
                 /\ effects'[Generation].socket = Current.socket
                 /\ effects'[Generation].suspended = Current.suspended
                 /\ effects'[Generation].timers = Current.timers + 1
                 /\ effects'[Generation].connecting = Current.connecting
                 /\ effects'[Generation].pending = Current.pending
<1> DEFINE n == sockets[s].gen
           y == [sockets[s] EXCEPT !.pc = "closed", !.queue = <<>>]
           x == Lost(effects[n])
<1>1. sockets[s] \in Connected /\ n \in 1 .. Len(effects) /\ effects[n] \in Closures /\ <<>> \in Seq(Nat)
  BY Elements DEF MarketTypes
<1>2. /\ sockets[s].pc = "closing" /\ sockets' = [sockets EXCEPT ![s] = y]
      /\ UNCHANGED <<market, requests, hides>>
      /\ IF n # Generation \/ effects[n].suspended THEN effects' = effects
         ELSE effects' = [effects EXCEPT ![n] = x]
      /\ quote' \in Charts /\ quote'.ticker = quote.ticker /\ quote'.candles = quote.candles
  BY DEF OnClose, MarketTypes, Charts
<1>3. y \in Connected /\ y.gen = n /\ y.pc = "closed"
  BY <1>1 DEF Connected
<1> HIDE DEF y
<1>4. effects[n].timers + 1 \in Nat
  BY <1>1 DEF Closures
<1>5. /\ x \in Closures /\ x.instrument = effects[n].instrument /\ x.socket = effects[n].socket
      /\ x.suspended = effects[n].suspended /\ x.timers = effects[n].timers + 1
      /\ x.connecting = effects[n].connecting /\ x.pending = effects[n].pending
  BY <1>1, <1>4 DEF Closures, Lost
<1> HIDE DEF x
<1>6. OneSocket(s) /\ sockets'[s] = y
  BY <1>2, <1>3, SocketReplaced
<1>7. CASE n # Generation \/ effects[n].suspended
  <2>1. effects[n].suspended \in BOOLEAN
    BY <1>1 DEF Closures
  <2> QED BY <1>2, <1>3, <1>6, <1>7, <2>1
<1>8. CASE n = Generation /\ ~effects[n].suspended
  <2>1. OneEffect(n) /\ effects'[n] = x
    BY <1>1, <1>2, <1>5, <1>8, EffectReplaced
  <2>2. Current = effects[n]
    BY <1>8, Elements
  <2> QED BY <1>2, <1>3, <1>5, <1>6, <1>8, <2>1, <2>2
<1> QED BY <1>7, <1>8

\* The page is hidden.
LEMMA HideDoes ==
    ASSUME MarketTypes, Hide
    PROVE  /\ UNCHANGED <<market, quote, requests>> /\ hides' = hides + 1 /\ OneEffect(Generation)
           /\ effects'[Generation].pending = Current.pending /\ effects'[Generation].socket = Current.socket
           /\ sockets' \in Seq(Connected) /\ Len(sockets') = Len(sockets)
           /\ \A s \in 1 .. Len(sockets) : /\ sockets'[s].gen = sockets[s].gen /\ sockets'[s].queue = sockets[s].queue
                                           /\ sockets'[s].pc = "closed" <=> sockets[s].pc = "closed"
<1> DEFINE x == [Cleared(Current) EXCEPT !.suspended = TRUE]
<1>1. Current \in Closures
  BY Elements
<1>2. x \in Closures /\ x.instrument = Current.instrument /\ x.pending = Current.pending /\ x.socket = Current.socket
  <2>1. Cleared(Current) \in Closures /\ Cleared(Current).instrument = Current.instrument
        /\ Cleared(Current).pending = Current.pending /\ Cleared(Current).socket = Current.socket
    BY <1>1 DEF Cleared, Closures
  <2> QED BY <2>1 DEF Closures
<1>3. effects' = [effects EXCEPT ![Generation] = x] /\ sockets' = Closing(Current.socket)
      /\ UNCHANGED <<market, quote, requests>> /\ hides' = hides + 1
  BY Elements DEF Hide
<1> HIDE DEF x
<1>4. Current.socket \in 0 .. Len(sockets)
  BY Elements DEF MarketTypes, Closures
<1>5. OneEffect(Generation) /\ effects'[Generation] = x
  BY <1>2, <1>3, Elements, EffectReplaced
<1> QED BY <1>2, <1>3, <1>4, <1>5, ClosingOne

\* What waits is shown.
LEMMA FlushDoes ==
    ASSUME MarketTypes, Flush
    PROVE  /\ UNCHANGED <<market, requests, sockets, hides>> /\ OneEffect(Generation) /\ Current.pending # None
           /\ quote' \in Charts
           /\ quote'.ticker = Current.pending /\ quote'.candles = quote.candles
           /\ effects'[Generation].socket = Current.socket
           /\ effects'[Generation].suspended = Current.suspended
           /\ effects'[Generation].timers = Current.timers
           /\ effects'[Generation].connecting = Current.connecting
           /\ effects'[Generation].pending = None
<1> DEFINE x == [Current EXCEPT !.pending = None]
<1>1. Current \in Closures /\ Current.pending \in Quotes
  BY Elements DEF Closures
<1>2. /\ x \in Closures /\ x.instrument = Current.instrument /\ x.socket = Current.socket
      /\ x.suspended = Current.suspended /\ x.timers = Current.timers
      /\ x.connecting = Current.connecting /\ x.pending = None
  BY <1>1, Elements DEF Closures
<1>3. /\ effects' = [effects EXCEPT ![Generation] = x] /\ Current.pending # None
      /\ UNCHANGED <<market, requests, sockets, hides>> /\ quote' = [quote EXCEPT !.ticker = Current.pending]
  BY Elements DEF Flush
<1> HIDE DEF x
<1>4. OneEffect(Generation) /\ effects'[Generation] = x
  BY <1>2, <1>3, Elements, EffectReplaced
<1>5. /\ quote' \in Charts
      /\ quote'.ticker = Current.pending /\ quote'.candles = quote.candles
  BY <1>1, <1>3 DEF MarketTypes, Charts
<1> QED BY <1>2, <1>3, <1>4, <1>5

\* A request is read by the backend.
LEMMA ReadDoes ==
    ASSUME MarketTypes, NEW r \in requests, ReadMarket(r)
    PROVE  /\ UNCHANGED <<market, effects, quote, sockets, hides>> /\ requests' \subseteq Answers1
           /\ \A q \in requests' : \/ q \in requests
                                   \/ /\ q.gen = r.gen /\ q.value.of = effects[r.gen].instrument
                                      /\ q.value.from # "stream"
<1> DEFINE i == effects[r.gen].instrument
<1>1. r \in Answers1 /\ r.gen \in 1 .. Len(effects) /\ effects[r.gen] \in Closures
  BY Elements DEF MarketTypes
<1>5. PICK at \in MarketAnswers(r, i) :
          requests' = (requests \ {r}) \cup {[r EXCEPT !.value = [of |-> i, at |-> at, from |-> r.what]]}
  BY DEF ReadMarket
<1>6. at \in Nat /\ i \in Instruments
  <2>1. i \in Instruments /\ market[i] \in Nat
    BY <1>1 DEF Closures, MarketTypes
  <2> QED BY <2>1 DEF MarketAnswers
<1> DEFINE v == [of |-> i, at |-> at, from |-> r.what]
           n == [r EXCEPT !.value = v]
<1>2. v \in Quotes /\ v.of = i /\ v.from # "stream"
  BY <1>1, <1>6 DEF Answers1, Quotes
<1> HIDE DEF v
<1>3. n \in Answers1 /\ n.gen = r.gen /\ n.value = v
  BY <1>1, <1>2 DEF Answers1
<1>4. UNCHANGED <<market, effects, quote, sockets, hides>> /\ requests' = (requests \ {r}) \cup {n}
  BY <1>5 DEF ReadMarket, v
<1> HIDE DEF n
<1> QED BY <1>2, <1>3, <1>4 DEF MarketTypes

\* An answer arrives.
LEMMA AnswerDoes ==
    ASSUME MarketTypes, NEW r \in requests, MarketAnswered(r)
    PROVE  /\ UNCHANGED <<market, effects, sockets, hides>> /\ requests' \subseteq requests
           /\ quote' \in Charts
           /\ r.value # None
           /\ quote'.ticker = quote.ticker \/ (quote.ticker = None /\ quote'.ticker = r.value /\ r.gen = Generation)
           /\ quote'.candles = quote.candles \/ (quote'.candles = r.value /\ r.gen = Generation)
<1>1. r.value \in Quotes
  BY DEF MarketTypes, Answers1
<1>2. UNCHANGED <<market, effects, sockets, hides>> /\ requests' \subseteq requests /\ r.value # None
  BY DEF MarketAnswered
<1>3. \/ quote' = quote
      \/ r.gen = Generation /\ quote.ticker = None /\ quote' = [quote EXCEPT !.ticker = r.value]
      \/ r.gen = Generation /\ quote' = [quote EXCEPT !.candles = r.value]
  BY DEF MarketAnswered, Wanted, Bootstrapped, MarketTypes, Charts
<1> QED BY <1>1, <1>2, <1>3 DEF MarketTypes, Charts

-----------------------------------------------------------------------------
(* MarketStream: every action keeps each part of the invariant. *)

\* One connection moves, and the effect of today may, with the connection it has.
LEMMA TypesStay ==
    ASSUME MarketTypes, NEW s, OneSocket(s), UNCHANGED <<market, requests, hides>>, quote' \in Charts,
           effects' = effects \/ (OneEffect(Generation) /\ effects'[Generation].socket = Current.socket)
    PROVE  MarketTypes'
<1>1. Len(effects) \in Nat /\ Len(sockets) \in Nat /\ Current = effects[Generation]
  BY Elements
<1>2. effects' \in Seq(Closures) /\ Len(effects') = Len(effects)
  BY DEF OneEffect, MarketTypes
<1>3. sockets' \in Seq(Connected) /\ Len(sockets') = Len(sockets)
  BY DEF OneSocket
<1>4. \A n \in 1 .. Len(effects) : effects'[n].socket = effects[n].socket
  <2>1. CASE effects' = effects
    BY <2>1
  <2>2. CASE OneEffect(Generation) /\ effects'[Generation].socket = Current.socket
    BY <1>1, <2>2 DEF OneEffect
  <2> QED BY <2>1, <2>2
<1>5. \A t \in 1 .. Len(sockets) : sockets'[t].gen = sockets[t].gen
  BY DEF OneSocket
<1>6. \A n \in 1 .. Len(effects') : effects'[n].socket <= Len(sockets')
  BY <1>2, <1>3, <1>4 DEF MarketTypes
<1>7. \A t \in 1 .. Len(sockets') : sockets'[t].gen \in 1 .. Len(effects')
  BY <1>2, <1>3, <1>5 DEF MarketTypes
<1> QED BY <1>2, <1>3, <1>6, <1>7 DEF MarketTypes

\* Effects, connections and requests keep to their types.
LEMMA MarketTypesKept == MarketTypes /\ [MarketNext]_marketVars => MarketTypes'
<1> SUFFICES ASSUME MarketTypes, [MarketNext]_marketVars PROVE MarketTypes'
  OBVIOUS
<1>0. /\ Generation = Len(effects) /\ Generation \in 1 .. Len(effects) /\ Current = effects[Generation]
      /\ Len(effects) \in Nat /\ Len(sockets) \in Nat
      /\ (Len(effects') = Len(effects) => Generation' = Generation /\ Current' = effects'[Generation])
  BY Elements DEF Generation, Current
<1>1. CASE UNCHANGED marketVars
  BY <1>0, <1>1, Elements DEF MarketTypes, marketVars
<1>2. ASSUME NEW i \in Instruments, SelectInstrument(i) PROVE MarketTypes'
  <2>0. /\ effects' \in Seq(Closures) /\ Len(effects') = Len(effects) + 1
        /\ \A n \in 1 .. Len(effects) : /\ effects'[n].instrument = effects[n].instrument
                                        /\ effects'[n].pending = effects[n].pending
                                        /\ effects'[n].socket = effects[n].socket
        /\ effects'[Len(effects) + 1].instrument = i /\ effects'[Len(effects) + 1].pending = None
        /\ effects'[Len(effects) + 1].socket = 0 /\ effects'[Len(effects) + 1].suspended = FALSE
        /\ effects'[Len(effects) + 1].timers = 0 /\ effects'[Len(effects) + 1].connecting = 1
        /\ sockets' \in Seq(Connected) /\ Len(sockets') = Len(sockets)
        /\ \A s \in 1 .. Len(sockets) : sockets'[s].gen = sockets[s].gen
        /\ requests' = requests \cup Started(i, Generation + 1)
        /\ quote' = Blank /\ UNCHANGED <<market, hides>>
    BY <1>2, SelectDoes
  <2>1. requests' \subseteq Answers1 /\ \A r \in requests' : r.gen \in 1 .. Len(effects')
    BY <1>0, <1>2, <2>0, Elements DEF Started, Answers1, MarketTypes
  <2>2. quote' \in Charts
    BY <1>2, <2>0, Elements DEF Blank, Charts
  <2>3. \A n \in 1 .. Len(effects') : effects'[n].socket <= Len(sockets')
    BY <1>0, <1>2, <2>0 DEF MarketTypes
  <2>4. \A s \in 1 .. Len(sockets') : sockets'[s].gen \in 1 .. Len(effects')
    BY <1>0, <1>2, <2>0 DEF MarketTypes
  <2> QED BY <1>0, <1>2, <2>1, <2>2, <2>3, <2>4, <2>0 DEF MarketTypes
<1>3. ASSUME NEW i \in Instruments, Tick(i) PROVE MarketTypes'
  BY <1>0, <1>3, Elements DEF MarketTypes, Tick
<1>4. ASSUME NEW r \in requests, ReadMarket(r) PROVE MarketTypes'
  BY <1>0, <1>4, Elements, ReadDoes DEF MarketTypes
<1>5. ASSUME NEW r \in requests, MarketAnswered(r) PROVE MarketTypes'
  BY <1>0, <1>5, Elements, AnswerDoes DEF MarketTypes
<1>6. ASSUME NEW n \in 1 .. Len(effects), ConnectReady(n) PROVE MarketTypes'
  <2>1. /\ \A m \in 1 .. Len(effects) : m # n => effects'[m] = effects[m]
        /\ Len(effects') = Len(effects) /\ effects' \in Seq(Closures)
    BY <1>6, ReadyDoes DEF OneEffect
  <2>2. /\ UNCHANGED <<market, quote, requests, hides>>
        /\ \/ sockets' = sockets /\ effects'[n].socket = effects[n].socket
           \/ /\ sockets' \in Seq(Connected) /\ Len(sockets') = Len(sockets) + 1
              /\ \A s \in 1 .. Len(sockets) : sockets'[s] = sockets[s]
              /\ sockets'[Len(sockets')].gen = n /\ effects'[n].socket = Len(sockets')
    BY <1>6, ReadyDoes
  <2>3. \A m \in 1 .. Len(effects) : effects[m].socket \in Nat
    BY Elements DEF Closures
  <2>4. \A m \in 1 .. Len(effects') : effects'[m].socket <= Len(sockets')
    BY <1>0, <2>1, <2>2, <2>3 DEF MarketTypes
  <2>5. \A s \in 1 .. Len(sockets') : sockets'[s].gen \in 1 .. Len(effects')
    BY <1>0, <2>1, <2>2 DEF MarketTypes
  <2> QED BY <2>1, <2>2, <2>4, <2>5 DEF MarketTypes
<1>7. ASSUME NEW n \in 1 .. Len(effects), (n = Generation /\ (ConnectFails \/ Show)) \/ Reconnect(n)
      PROVE  MarketTypes'
  BY <1>0, <1>7, Elements, EffectDoes DEF MarketTypes, OneEffect, OneSocket
<1>8. ASSUME NEW s \in 1 .. Len(sockets), OnOpen(s) \/ Break(s) \/ Relay(s) PROVE MarketTypes'
  BY <1>0, <1>8, Elements, SocketDoes DEF MarketTypes
<1>9. ASSUME NEW s \in 1 .. Len(sockets), OnMessage(s) PROVE MarketTypes'
  <2>1. UNCHANGED <<market, quote, requests, hides>> /\ OneSocket(s) /\ quote' \in Charts
    BY <1>9, MessageDoes DEF MarketTypes
  <2>2. effects' = effects \/ (OneEffect(Generation) /\ effects'[Generation].socket = Current.socket)
    BY <1>9, MessageDoes
  <2> QED BY <2>1, <2>2, TypesStay
<1>10. ASSUME NEW s \in 1 .. Len(sockets), OnClose(s) PROVE MarketTypes'
  <2>1. UNCHANGED <<market, requests, hides>> /\ OneSocket(s) /\ quote' \in Charts
    BY <1>10, CloseDoes
  <2>2. effects' = effects \/ (OneEffect(Generation) /\ effects'[Generation].socket = Current.socket)
    BY <1>10, CloseDoes
  <2> QED BY <2>1, <2>2, TypesStay
<1>11. CASE Flush
  BY <1>0, <1>11, Elements, FlushDoes DEF MarketTypes, OneEffect, OneSocket
<1>12. CASE Hide
  <2>1. /\ \A m \in 1 .. Len(effects) : effects'[m].socket = effects[m].socket
        /\ effects' \in Seq(Closures) /\ Len(effects') = Len(effects)
    BY <1>0, <1>12, HideDoes DEF OneEffect
  <2>2. /\ sockets' \in Seq(Connected) /\ Len(sockets') = Len(sockets)
        /\ \A s \in 1 .. Len(sockets) : sockets'[s].gen = sockets[s].gen
        /\ UNCHANGED <<market, quote, requests>> /\ hides' = hides + 1
    BY <1>12, HideDoes
  <2>3. \A n \in 1 .. Len(effects') : effects'[n].socket <= Len(sockets')
    BY <2>1, <2>2 DEF MarketTypes
  <2>4. \A s \in 1 .. Len(sockets') : sockets'[s].gen \in 1 .. Len(effects')
    BY <2>1, <2>2 DEF MarketTypes
  <2>5. hides' \in Nat
    BY <2>2 DEF MarketTypes
  <2> QED BY <2>1, <2>2, <2>3, <2>4, <2>5 DEF MarketTypes
<1> QED
  BY <1>1, <1>2, <1>3, <1>4, <1>5, <1>6, <1>7, <1>8, <1>9, <1>10, <1>11, <1>12, Elements
  DEF MarketNext, Connections, ConnectFails, Reconnect, Hide, Show

\* What is on its way to an effect stays of its instrument, and so does what is shown.
LEMMA QuotesKept == MarketTypes /\ QuotesOfEffects /\ [MarketNext]_marketVars => QuotesOfEffects'
<1> SUFFICES ASSUME MarketTypes, QuotesOfEffects, [MarketNext]_marketVars PROVE QuotesOfEffects'
  OBVIOUS
<1>0. /\ Generation = Len(effects) /\ Generation \in 1 .. Len(effects) /\ Current = effects[Generation]
      /\ Len(effects) \in Nat /\ Len(sockets) \in Nat
      /\ (Len(effects') = Len(effects) => Generation' = Generation /\ Current' = effects'[Generation])
  BY Elements DEF Generation, Current
<1>1. CASE UNCHANGED marketVars
  BY <1>0, <1>1, Elements DEF QuotesOfEffects, MarketIsSelected, MarketTypes, marketVars
<1>2. ASSUME NEW i \in Instruments, SelectInstrument(i) PROVE QuotesOfEffects'
  <2>0. /\ effects' \in Seq(Closures) /\ Len(effects') = Len(effects) + 1
        /\ \A n \in 1 .. Len(effects) : /\ effects'[n].instrument = effects[n].instrument
                                        /\ effects'[n].pending = effects[n].pending
                                        /\ effects'[n].socket = effects[n].socket
        /\ effects'[Len(effects) + 1].instrument = i /\ effects'[Len(effects) + 1].pending = None
        /\ effects'[Len(effects) + 1].socket = 0 /\ effects'[Len(effects) + 1].suspended = FALSE
        /\ effects'[Len(effects) + 1].timers = 0 /\ effects'[Len(effects) + 1].connecting = 1
        /\ sockets' \in Seq(Connected) /\ Len(sockets') = Len(sockets)
        /\ \A s \in 1 .. Len(sockets) : sockets'[s].gen = sockets[s].gen
        /\ requests' = requests \cup Started(i, Generation + 1)
        /\ quote' = Blank /\ UNCHANGED <<market, hides>>
    BY <1>2, SelectDoes
  <2>1. \A r \in requests' : r \in requests \/ (r.value = None)
    BY <1>2, <2>0 DEF Started
  <2>2. None.from # "stream"
    BY Elements
  <2>3. quote'.ticker = None /\ quote'.candles = None
    BY <1>2, <2>0 DEF Blank
  <2>4. ASSUME NEW m \in 1 .. Len(effects')
        PROVE  effects'[m].pending = None \/ effects'[m].pending.of = effects'[m].instrument
    <3>1. m \in 1 .. Len(effects) \/ m = Len(effects) + 1
      BY <1>0, <2>0
    <3>2. CASE m \in 1 .. Len(effects)
      <4>1. effects'[m].pending = effects[m].pending /\ effects'[m].instrument = effects[m].instrument
        BY <2>0, <3>2
      <4>2. effects[m].pending = None \/ effects[m].pending.of = effects[m].instrument
        BY <3>2 DEF QuotesOfEffects
      <4> QED BY <4>1, <4>2
    <3>3. CASE m = Len(effects) + 1
      BY <2>0, <3>3
    <3> QED BY <3>1, <3>2, <3>3
  <2>5. \A r \in requests' : r.value = None \/ r.value.of = effects'[r.gen].instrument
    BY <1>2, <2>1, <2>0 DEF QuotesOfEffects, MarketTypes
  <2> QED BY <2>1, <2>2, <2>3, <2>4, <2>5 DEF QuotesOfEffects, MarketIsSelected
<1>3. ASSUME NEW i \in Instruments, Tick(i) PROVE QuotesOfEffects'
  BY <1>0, <1>3, Elements DEF QuotesOfEffects, MarketIsSelected, MarketTypes, Tick
<1>4. ASSUME NEW r \in requests, ReadMarket(r) PROVE QuotesOfEffects'
  BY <1>0, <1>4, Elements, ReadDoes DEF QuotesOfEffects, MarketIsSelected, MarketTypes
<1>5. ASSUME NEW r \in requests, MarketAnswered(r) PROVE QuotesOfEffects'
  BY <1>0, <1>5, Elements, AnswerDoes DEF QuotesOfEffects, MarketIsSelected, MarketTypes
<1>6. ASSUME NEW n \in 1 .. Len(effects), ConnectReady(n) PROVE QuotesOfEffects'
  <2>1. /\ \A m \in 1 .. Len(effects) : effects'[m].instrument = effects[m].instrument
        /\ Len(effects') = Len(effects) /\ Generation' = Generation
    BY <1>0, <1>6, ReadyDoes DEF OneEffect
  <2>2. \A m \in 1 .. Len(effects) :
           effects'[m].pending \in {effects[m].pending, None} \/ effects'[m].pending.of = effects[m].instrument
    BY <1>0, <1>6, ReadyDoes DEF OneEffect
  <2>3. Current'.instrument = Current.instrument
    BY <1>0, <2>1
  <2>4. \A r \in requests' : r \in requests
    BY <1>6, ReadyDoes
  <2>5. \A v \in {quote'.ticker, quote'.candles} : v = None \/ v.of = Current.instrument
    BY <1>0, <1>6, ReadyDoes DEF QuotesOfEffects, MarketIsSelected
  <2> QED BY <2>1, <2>2, <2>3, <2>4, <2>5 DEF QuotesOfEffects, MarketIsSelected, MarketTypes
<1>7. ASSUME NEW n \in 1 .. Len(effects), (n = Generation /\ (ConnectFails \/ Show)) \/ Reconnect(n)
      PROVE  QuotesOfEffects'
  <2>1. /\ \A m \in 1 .. Len(effects) : effects'[m].instrument = effects[m].instrument
        /\ Len(effects') = Len(effects) /\ Generation' = Generation
    BY <1>0, <1>7, EffectDoes DEF OneEffect
  <2>2. \A m \in 1 .. Len(effects) :
           effects'[m].pending \in {effects[m].pending, None} \/ effects'[m].pending.of = effects[m].instrument
    BY <1>0, <1>7, EffectDoes DEF OneEffect
  <2>3. Current'.instrument = Current.instrument
    BY <1>0, <2>1
  <2>4. \A r \in requests' : r \in requests
    BY <1>7, EffectDoes
  <2>5. \A v \in {quote'.ticker, quote'.candles} : v = None \/ v.of = Current.instrument
    BY <1>0, <1>7, EffectDoes DEF QuotesOfEffects, MarketIsSelected
  <2> QED BY <2>1, <2>2, <2>3, <2>4, <2>5 DEF QuotesOfEffects, MarketIsSelected, MarketTypes
<1>8. ASSUME NEW s \in 1 .. Len(sockets), OnOpen(s) \/ Break(s) \/ Relay(s) PROVE QuotesOfEffects'
  BY <1>0, <1>8, Elements, SocketDoes DEF QuotesOfEffects, MarketIsSelected, MarketTypes
<1>9. ASSUME NEW s \in 1 .. Len(sockets), OnMessage(s) PROVE QuotesOfEffects'
  <2>1. /\ \A m \in 1 .. Len(effects) : effects'[m].instrument = effects[m].instrument
        /\ Len(effects') = Len(effects) /\ Generation' = Generation
    BY <1>0, <1>9, MessageDoes DEF OneEffect
  <2>2. \A m \in 1 .. Len(effects) :
           effects'[m].pending \in {effects[m].pending, None} \/ effects'[m].pending.of = effects[m].instrument
    BY <1>0, <1>9, MessageDoes DEF OneEffect
  <2>3. Current'.instrument = Current.instrument
    BY <1>0, <2>1
  <2>4. \A r \in requests' : r \in requests
    BY <1>9, MessageDoes
  <2>5. \A v \in {quote'.ticker, quote'.candles} : v = None \/ v.of = Current.instrument
    BY <1>0, <1>9, MessageDoes DEF QuotesOfEffects, MarketIsSelected
  <2> QED BY <2>1, <2>2, <2>3, <2>4, <2>5 DEF QuotesOfEffects, MarketIsSelected, MarketTypes
<1>10. ASSUME NEW s \in 1 .. Len(sockets), OnClose(s) PROVE QuotesOfEffects'
  <2>1. /\ \A m \in 1 .. Len(effects) : effects'[m].instrument = effects[m].instrument
        /\ Len(effects') = Len(effects) /\ Generation' = Generation
    BY <1>0, <1>10, CloseDoes DEF OneEffect
  <2>2. \A m \in 1 .. Len(effects) :
           effects'[m].pending \in {effects[m].pending, None} \/ effects'[m].pending.of = effects[m].instrument
    BY <1>0, <1>10, CloseDoes DEF OneEffect
  <2>3. Current'.instrument = Current.instrument
    BY <1>0, <2>1
  <2>4. \A r \in requests' : r \in requests
    BY <1>10, CloseDoes
  <2>5. \A v \in {quote'.ticker, quote'.candles} : v = None \/ v.of = Current.instrument
    BY <1>0, <1>10, CloseDoes DEF QuotesOfEffects, MarketIsSelected
  <2> QED BY <2>1, <2>2, <2>3, <2>4, <2>5 DEF QuotesOfEffects, MarketIsSelected, MarketTypes
<1>11. CASE Flush
  <2>1. /\ \A m \in 1 .. Len(effects) : effects'[m].instrument = effects[m].instrument
        /\ Len(effects') = Len(effects) /\ Generation' = Generation
    BY <1>0, <1>11, FlushDoes DEF OneEffect
  <2>2. \A m \in 1 .. Len(effects) :
           effects'[m].pending \in {effects[m].pending, None} \/ effects'[m].pending.of = effects[m].instrument
    BY <1>0, <1>11, FlushDoes DEF OneEffect
  <2>3. Current'.instrument = Current.instrument
    BY <1>0, <2>1
  <2>4. \A r \in requests' : r \in requests
    BY <1>11, FlushDoes
  <2>5. \A v \in {quote'.ticker, quote'.candles} : v = None \/ v.of = Current.instrument
    BY <1>0, <1>11, FlushDoes DEF QuotesOfEffects, MarketIsSelected
  <2> QED BY <2>1, <2>2, <2>3, <2>4, <2>5 DEF QuotesOfEffects, MarketIsSelected, MarketTypes
<1>12. CASE Hide
  <2>1. /\ \A m \in 1 .. Len(effects) : effects'[m].instrument = effects[m].instrument
        /\ Len(effects') = Len(effects) /\ Generation' = Generation
    BY <1>0, <1>12, HideDoes DEF OneEffect
  <2>2. \A m \in 1 .. Len(effects) :
           effects'[m].pending \in {effects[m].pending, None} \/ effects'[m].pending.of = effects[m].instrument
    BY <1>0, <1>12, HideDoes DEF OneEffect
  <2>3. Current'.instrument = Current.instrument
    BY <1>0, <2>1
  <2>4. \A r \in requests' : r \in requests
    BY <1>12, HideDoes
  <2>5. \A v \in {quote'.ticker, quote'.candles} : v = None \/ v.of = Current.instrument
    BY <1>0, <1>12, HideDoes DEF QuotesOfEffects, MarketIsSelected
  <2> QED BY <2>1, <2>2, <2>3, <2>4, <2>5 DEF QuotesOfEffects, MarketIsSelected, MarketTypes
<1> QED
  BY <1>1, <1>2, <1>3, <1>4, <1>5, <1>6, <1>7, <1>8, <1>9, <1>10, <1>11, <1>12, Elements
  DEF MarketNext, Connections, ConnectFails, Reconnect, Hide, Show

\* A page that was never hidden makes no second connection.
LEMMA OneConnectionKept == MarketTypes /\ OneConnection /\ [MarketNext]_marketVars => OneConnection'
<1> SUFFICES ASSUME MarketTypes, OneConnection, [MarketNext]_marketVars PROVE OneConnection'
  OBVIOUS
<1>0. /\ Generation = Len(effects) /\ Generation \in 1 .. Len(effects) /\ Current = effects[Generation]
      /\ Len(effects) \in Nat /\ Len(sockets) \in Nat
      /\ (Len(effects') = Len(effects) => Generation' = Generation /\ Current' = effects'[Generation])
  BY Elements DEF Generation, Current
<1>1. CASE UNCHANGED marketVars
  BY <1>0, <1>1, Elements DEF OneConnection, Live, MarketTypes, marketVars
<1>2. ASSUME NEW i \in Instruments, SelectInstrument(i) PROVE OneConnection'
  <2> SUFFICES ASSUME hides' = 0 PROVE OneConnection'
    BY DEF OneConnection
  <2>1. /\ Current.suspended = FALSE /\ Current.timers + Current.connecting <= 1
        /\ Current.timers \in Nat /\ Current.connecting \in Nat
        /\ \A k \in 1 .. Len(sockets) : Live(k) => /\ Current.timers = 0 /\ Current.connecting = 0
                                                   /\ \A t \in 1 .. Len(sockets) : Live(t) => k = t
    BY <1>0, <1>2, Elements DEF OneConnection, Closures, SelectInstrument
  <2>0. /\ effects' \in Seq(Closures) /\ Len(effects') = Len(effects) + 1
        /\ \A n \in 1 .. Len(effects) : /\ effects'[n].instrument = effects[n].instrument
                                        /\ effects'[n].pending = effects[n].pending
                                        /\ effects'[n].socket = effects[n].socket
        /\ effects'[Len(effects) + 1].instrument = i /\ effects'[Len(effects) + 1].pending = None
        /\ effects'[Len(effects) + 1].socket = 0 /\ effects'[Len(effects) + 1].suspended = FALSE
        /\ effects'[Len(effects) + 1].timers = 0 /\ effects'[Len(effects) + 1].connecting = 1
        /\ sockets' \in Seq(Connected) /\ Len(sockets') = Len(sockets)
        /\ \A s \in 1 .. Len(sockets) : sockets'[s].gen = sockets[s].gen
        /\ requests' = requests \cup Started(i, Generation + 1)
        /\ quote' = Blank /\ UNCHANGED <<market, hides>>
    BY <1>2, SelectDoes
  <2>2. Generation' = Len(effects) + 1 /\ Current' = effects'[Len(effects) + 1]
    BY <1>2, <2>0 DEF Generation, Current
  <2>3. \A s \in 1 .. Len(sockets') : sockets'[s].gen # Generation'
    BY <1>0, <1>2, <2>2, <2>0 DEF MarketTypes
  <2> QED BY <1>2, <2>2, <2>3, <2>0 DEF OneConnection, Live
<1>3. ASSUME NEW i \in Instruments, Tick(i) PROVE OneConnection'
  BY <1>0, <1>3, Elements DEF OneConnection, Live, MarketTypes, Tick
<1>4. ASSUME NEW r \in requests, ReadMarket(r) PROVE OneConnection'
  BY <1>0, <1>4, Elements, ReadDoes DEF OneConnection, Live, MarketTypes
<1>5. ASSUME NEW r \in requests, MarketAnswered(r) PROVE OneConnection'
  BY <1>0, <1>5, Elements, AnswerDoes DEF OneConnection, Live, MarketTypes
<1>6. ASSUME NEW n \in 1 .. Len(effects), ConnectReady(n) PROVE OneConnection'
  <2> SUFFICES ASSUME hides' = 0 PROVE OneConnection'
    BY DEF OneConnection
  <2>1. /\ Current.suspended = FALSE /\ Current.timers + Current.connecting <= 1
        /\ Current.timers \in Nat /\ Current.connecting \in Nat
        /\ \A k \in 1 .. Len(sockets) : Live(k) => /\ Current.timers = 0 /\ Current.connecting = 0
                                                   /\ \A t \in 1 .. Len(sockets) : Live(t) => k = t
    BY <1>0, <1>6, Elements, ReadyDoes DEF OneConnection, Closures
  <2>2. Generation' = Generation /\ Current' = effects'[Generation]
    BY <1>0, <1>6, ReadyDoes DEF OneEffect
  <2>3. CASE sockets' = sockets
    <3>1. /\ Current'.suspended = FALSE /\ Current'.timers + Current'.connecting <= 1
          /\ Current'.timers = Current.timers
          /\ Current'.connecting \in {Current.connecting, Current.connecting - 1}
      BY <1>0, <1>6, <2>1, <2>2, ReadyDoes DEF OneEffect
    <3>2. n = Generation => Current.connecting > 0
      BY <1>0, <1>6, ReadyDoes
    <3>3. n # Generation => Current' = Current
      BY <1>0, <1>6, <2>2, ReadyDoes DEF OneEffect
    <3> QED BY <2>1, <2>2, <2>3, <3>1, <3>2, <3>3 DEF OneConnection, Live
  <2>4. CASE /\ n = Generation /\ Len(sockets') = Len(sockets) + 1
             /\ \A s \in 1 .. Len(sockets) : sockets'[s] = sockets[s]
    <3>1. Current.connecting = 1 /\ Current.timers = 0
      BY <1>0, <1>6, <2>1, <2>4, ReadyDoes
    <3>2. Current'.connecting = 0 /\ Current'.timers = 0 /\ Current'.suspended = FALSE
      BY <1>0, <1>6, <2>1, <2>2, <2>4, <3>1, ReadyDoes
    <3>3. \A s \in 1 .. Len(sockets') : Live(s)' => s = Len(sockets')
      BY <1>0, <2>1, <2>2, <2>4, <3>1 DEF Live
    <3> QED BY <3>2, <3>3 DEF OneConnection, Live
  <2> QED BY <1>6, <2>3, <2>4, ReadyDoes
<1>7. ASSUME NEW n \in 1 .. Len(effects), (n = Generation /\ (ConnectFails \/ Show)) \/ Reconnect(n)
      PROVE  OneConnection'
  <2> SUFFICES ASSUME hides' = 0 PROVE OneConnection'
    BY DEF OneConnection
  <2>1. /\ Current.suspended = FALSE /\ Current.timers + Current.connecting <= 1
        /\ Current.timers \in Nat /\ Current.connecting \in Nat
        /\ \A k \in 1 .. Len(sockets) : Live(k) => /\ Current.timers = 0 /\ Current.connecting = 0
                                                   /\ \A t \in 1 .. Len(sockets) : Live(t) => k = t
    BY <1>0, <1>7, Elements, EffectDoes DEF OneConnection, Closures
  <2>2. Generation' = Generation /\ Current' = effects'[Generation] /\ sockets' = sockets
    BY <1>0, <1>7, EffectDoes DEF OneEffect
  <2>3. CASE n # Generation
    <3>1. Current' = Current
      BY <1>0, <1>7, <2>2, <2>3, EffectDoes DEF OneEffect
    <3> QED BY <2>1, <2>2, <3>1 DEF OneConnection, Live
  <2>4. CASE n = Generation
    <3>0. /\ effects'[n].timers + effects'[n].connecting <= effects[n].timers + effects[n].connecting
          /\ effects[n].timers + effects[n].connecting > 0 /\ effects'[n].suspended = effects[n].suspended
      BY <1>7, <2>1, EffectDoes
    <3>1. /\ Current'.timers + Current'.connecting <= 1 /\ Current.timers + Current.connecting > 0
          /\ Current'.suspended = FALSE
      <4>1. effects'[n] \in Closures
        <5>1. effects' \in Seq(Closures) /\ n \in 1 .. Len(effects')
          BY <1>7, EffectDoes DEF OneEffect
        <5> QED BY <5>1
      <4>2. effects'[n].timers \in Nat /\ effects'[n].connecting \in Nat
        BY <4>1 DEF Closures
      <4> QED BY <1>0, <2>1, <2>2, <2>4, <3>0, <4>2
    <3> QED BY <2>1, <2>2, <3>1 DEF OneConnection, Live
  <2> QED BY <2>3, <2>4
<1>8. ASSUME NEW s \in 1 .. Len(sockets), OnOpen(s) \/ Break(s) \/ Relay(s) PROVE OneConnection'
  BY <1>0, <1>8, Elements, SocketDoes DEF OneConnection, Live, MarketTypes
<1>9. ASSUME NEW s \in 1 .. Len(sockets), OnMessage(s) PROVE OneConnection'
  <2> SUFFICES ASSUME hides' = 0 PROVE OneConnection'
    BY DEF OneConnection
  <2>1. /\ Current.suspended = FALSE /\ Current.timers + Current.connecting <= 1
        /\ Current.timers \in Nat /\ Current.connecting \in Nat
        /\ \A k \in 1 .. Len(sockets) : Live(k) => /\ Current.timers = 0 /\ Current.connecting = 0
                                                   /\ \A t \in 1 .. Len(sockets) : Live(t) => k = t
    BY <1>0, <1>9, Elements, MessageDoes DEF OneConnection, Closures
  <2>2. Generation' = Generation /\ Current' = effects'[Generation]
    BY <1>0, <1>9, MessageDoes DEF OneEffect
  <2>3. Current'.suspended = FALSE /\ Current'.timers = Current.timers /\ Current'.connecting = Current.connecting
    BY <1>0, <1>9, <2>1, <2>2, MessageDoes
  <2>4. /\ Len(sockets') = Len(sockets)
        /\ \A t \in 1 .. Len(sockets) : Live(t)' => Live(t)
    BY <1>0, <1>9, <2>2, MessageDoes DEF OneSocket, Live
  <2> QED BY <2>1, <2>2, <2>3, <2>4 DEF OneConnection, Live
<1>10. ASSUME NEW s \in 1 .. Len(sockets), OnClose(s) PROVE OneConnection'
  <2> SUFFICES ASSUME hides' = 0 PROVE OneConnection'
    BY DEF OneConnection
  <2>1. /\ Current.suspended = FALSE /\ Current.timers + Current.connecting <= 1
        /\ Current.timers \in Nat /\ Current.connecting \in Nat
        /\ \A k \in 1 .. Len(sockets) : Live(k) => /\ Current.timers = 0 /\ Current.connecting = 0
                                                   /\ \A t \in 1 .. Len(sockets) : Live(t) => k = t
    BY <1>0, <1>10, Elements, CloseDoes DEF OneConnection, Closures
  <2>2. Generation' = Generation /\ Current' = effects'[Generation]
    BY <1>0, <1>10, CloseDoes DEF OneEffect
  <2>3. /\ Len(sockets') = Len(sockets)
        /\ \A t \in 1 .. Len(sockets) : Live(t)' => Live(t) /\ t # s
    BY <1>0, <1>10, <2>2, CloseDoes DEF OneSocket, Live
  <2>4. CASE effects' = effects
    BY <1>0, <2>1, <2>2, <2>3, <2>4 DEF OneConnection, Live
  <2>5. CASE /\ sockets[s].gen = Generation /\ Current'.suspended = Current.suspended
             /\ Current'.timers = Current.timers + 1 /\ Current'.connecting = Current.connecting
    <3>1. Live(s)
      BY <1>10, <2>5, CloseDoes DEF Live
    <3>2. Current'.timers = 1 /\ Current'.connecting = 0 /\ \A t \in 1 .. Len(sockets) : ~Live(t)'
      BY <2>1, <2>3, <2>5, <3>1
    <3> QED BY <2>1, <2>3, <2>5, <3>2 DEF OneConnection, Live
  <2> QED BY <1>10, <2>2, <2>4, <2>5, CloseDoes
<1>11. CASE Flush
  BY <1>0, <1>11, Elements, FlushDoes DEF OneConnection, Live, MarketTypes, OneEffect, OneSocket
<1>12. CASE Hide
  BY <1>0, <1>12, Elements, HideDoes DEF OneConnection, Live, MarketTypes, OneEffect, OneSocket
<1> QED
  BY <1>1, <1>2, <1>3, <1>4, <1>5, <1>6, <1>7, <1>8, <1>9, <1>10, <1>11, <1>12, Elements
  DEF MarketNext, Connections, ConnectFails, Reconnect, Hide, Show

-----------------------------------------------------------------------------
(* MarketStream: the stream is in order. *)

\* What is in order stays so when the market moves, when a quote of the stream is no longer shown
\* or no longer waits, and when the latest quote of the market is added.
LEMMA OrderedMore ==
    ASSUME NEW q \in Seq(Nat), NEW m \in Nat, NEW t \in Quotes, NEW p \in Quotes, Ordered(q, m, t, p)
    PROVE  /\ \A n \in Nat : m <= n => Ordered(q, n, t, p)
           /\ \A u \in Quotes : u.from # "stream" => Ordered(q, m, u, p) /\ Ordered(q, m, t, u)
           /\ \A u \in Quotes : u.from # "stream" => Ordered(q, m, p, u)
           /\ Before(t, m) /\ Before(p, m) => Ordered(Append(q, m), m, t, p)
<1>1. Len(q) \in Nat /\ \A i \in 1 .. Len(q) : q[i] \in Nat
  OBVIOUS
<1>2. ASSUME NEW n \in Nat, m <= n PROVE Ordered(q, n, t, p)
  BY <1>1, <1>2 DEF Ordered
<1>3. ASSUME NEW u \in Quotes, u.from # "stream"
      PROVE  Ordered(q, m, u, p) /\ Ordered(q, m, t, u) /\ Ordered(q, m, p, u)
  BY <1>3 DEF Ordered, Before
<1>4. ASSUME Before(t, m), Before(p, m) PROVE Ordered(Append(q, m), m, t, p)
  <2> DEFINE r == Append(q, m)
  <2>1. Len(r) = Len(q) + 1 /\ r[Len(q) + 1] = m /\ \A i \in 1 .. Len(q) : r[i] = q[i]
    OBVIOUS
  <2> HIDE DEF r
  <2>2. ASSUME NEW i \in 1 .. Len(r)
        PROVE  r[i] <= m /\ Before(t, r[i]) /\ Before(p, r[i]) /\ \A j \in 1 .. i : r[j] <= r[i]
    <3>1. CASE i = Len(q) + 1
      BY <1>1, <1>4, <2>1, <3>1 DEF Ordered
    <3>2. CASE i \in 1 .. Len(q)
      <4>1. \A j \in 1 .. i : j \in 1 .. Len(q)
        BY <1>1, <3>2
      <4>2. r[i] = q[i] /\ \A j \in 1 .. i : r[j] = q[j]
        BY <2>1, <3>2, <4>1
      <4>3. q[i] <= m /\ Before(t, q[i]) /\ Before(p, q[i]) /\ \A j \in 1 .. i : q[j] <= q[i]
        BY <3>2 DEF Ordered
      <4> QED BY <4>2, <4>3
    <3> QED BY <1>1, <2>1, <3>1, <3>2
  <2>3. Ordered(r, m, t, p)
    BY <2>2 DEF Ordered
  <2> QED BY <2>3 DEF r
<1> QED BY <1>2, <1>3, <1>4

\* ... and when its first quote is taken from it to wait.
LEMMA OrderedTail ==
    ASSUME NEW q \in Seq(Nat), q # <<>>, NEW m \in Nat, NEW t \in Quotes, NEW p \in Quotes, Ordered(q, m, t, p),
           NEW u \in Quotes, u.at = Head(q)
    PROVE  Ordered(Tail(q), m, t, u) /\ u.at <= m /\ Before(t, u.at)
<1> DEFINE r == Tail(q)
<1>1. /\ Len(q) \in Nat /\ Len(q) >= 1 /\ Head(q) = q[1] /\ Len(r) = Len(q) - 1
      /\ \A i \in 1 .. Len(r) : r[i] = q[i + 1]
      /\ \A i \in 1 .. Len(q) : q[i] \in Nat
  OBVIOUS
<1> HIDE DEF r
<1>2. u.at <= m /\ Before(t, u.at)
  BY <1>1 DEF Ordered
<1>3. ASSUME NEW i \in 1 .. Len(r)
      PROVE  r[i] <= m /\ Before(t, r[i]) /\ u.at <= r[i] /\ \A j \in 1 .. i : r[j] <= r[i]
  <2>1. i + 1 \in 1 .. Len(q) /\ r[i] = q[i + 1] /\ 1 \in 1 .. i + 1
    BY <1>1
  <2>2. \A j \in 1 .. i : j + 1 \in 1 .. i + 1 /\ j \in 1 .. Len(r)
    BY <1>1
  <2>3. \A j \in 1 .. i : r[j] = q[j + 1]
    BY <1>1, <2>2
  <2>4. q[i + 1] <= m /\ Before(t, q[i + 1]) /\ \A k \in 1 .. i + 1 : q[k] <= q[i + 1]
    BY <2>1 DEF Ordered
  <2>5. u.at <= r[i]
    BY <1>1, <2>1, <2>4
  <2>6. ASSUME NEW j \in 1 .. i PROVE r[j] <= r[i]
    BY <2>1, <2>2, <2>3, <2>4
  <2> QED BY <2>1, <2>4, <2>5, <2>6
<1>4. Ordered(r, m, t, u)
  BY <1>3 DEF Ordered, Before
<1> QED BY <1>2, <1>4 DEF r

\* What StreamInOrder says while the page was never hidden.
LEMMA StreamFacts ==
    ASSUME MarketTypes, StreamInOrder, hides = 0
    PROVE  /\ market[Current.instrument] \in Nat /\ quote.ticker \in Quotes /\ Current.pending \in Quotes
           /\ Before(quote.ticker, market[Current.instrument])
           /\ Before(Current.pending, market[Current.instrument])
           /\ Current.pending.from = "stream" => Before(quote.ticker, Current.pending.at)
           /\ Current.pending = None \/ Current.pending.from = "stream"
           /\ \A s \in 1 .. Len(sockets) : sockets[s].queue \in Seq(Nat)
           /\ \A s \in 1 .. Len(sockets) : Live(s) =>
                 Ordered(sockets[s].queue, market[Current.instrument], quote.ticker, Current.pending)
<1>1. Current \in Closures /\ quote \in Charts /\ market \in [Instruments -> Nat]
  BY Elements DEF MarketTypes
<1>2. \A s \in 1 .. Len(sockets) : sockets[s].queue \in Seq(Nat)
  BY Elements DEF Connected
<1>3. Current.instrument \in Instruments /\ Current.pending \in Quotes /\ quote.ticker \in Quotes
  BY <1>1 DEF Closures, Charts
<1> QED BY <1>1, <1>2, <1>3 DEF StreamInOrder

\* A step that leaves the quotes of the chart and what live connections hold as they are.
LEMMA SameStream ==
    ASSUME MarketTypes, StreamInOrder, hides' = hides, Current'.instrument = Current.instrument,
           Current'.pending = Current.pending, quote'.ticker = quote.ticker, market' = market,
           \A s \in 1 .. Len(sockets') : Live(s)' =>
              \/ sockets'[s].queue = <<>>
              \/ s \in 1 .. Len(sockets) /\ Live(s) /\ sockets'[s].queue = sockets[s].queue
    PROVE  StreamInOrder'
<1>1. SUFFICES ASSUME hides' = 0 PROVE StreamInOrder'
  BY DEF StreamInOrder
<1>2. hides = 0
  BY <1>1
<1>3. ASSUME NEW s \in 1 .. Len(sockets'), Live(s)'
      PROVE  Ordered(sockets'[s].queue, market'[Current'.instrument], quote'.ticker, Current'.pending)
  <2>1. CASE sockets'[s].queue = <<>>
    BY <2>1 DEF Ordered
  <2>2. CASE s \in 1 .. Len(sockets) /\ Live(s) /\ sockets'[s].queue = sockets[s].queue
    BY <1>2, <2>2, StreamFacts
  <2> QED BY <1>3, <2>1, <2>2
<1>4. /\ Before(quote'.ticker, market'[Current'.instrument]) /\ Before(Current'.pending, market'[Current'.instrument])
      /\ Current'.pending.from = "stream" => Before(quote'.ticker, Current'.pending.at)
      /\ Current'.pending = None \/ Current'.pending.from = "stream"
  BY <1>2, StreamFacts
<1> QED BY <1>3, <1>4 DEF StreamInOrder, None, Before, Ordered

\* Every action keeps the quotes of the stream in order.
LEMMA StreamInOrderKept ==
    MarketTypes /\ QuotesOfEffects /\ OneConnection /\ StreamInOrder /\ [MarketNext]_marketVars
    => StreamInOrder'
<1> SUFFICES ASSUME MarketTypes, QuotesOfEffects, OneConnection, StreamInOrder, [MarketNext]_marketVars
             PROVE  StreamInOrder'
  OBVIOUS
<1>0. /\ Generation = Len(effects) /\ Generation \in 1 .. Len(effects) /\ Current = effects[Generation]
      /\ Len(effects) \in Nat /\ Len(sockets) \in Nat
      /\ (Len(effects') = Len(effects) => Generation' = Generation /\ Current' = effects'[Generation])
  BY Elements DEF Generation, Current
<1>1. CASE UNCHANGED marketVars
  <2>1. /\ Generation' = Generation /\ Current'.instrument = Current.instrument /\ Current'.pending = Current.pending
        /\ quote'.ticker = quote.ticker /\ market' = market /\ hides' = hides
    BY <1>0, <1>1 DEF OneEffect, marketVars, Generation, Current
  <2>2. \A s \in 1 .. Len(sockets') : Live(s)' =>
           \/ sockets'[s].queue = <<>>
           \/ s \in 1 .. Len(sockets) /\ Live(s) /\ sockets'[s].queue = sockets[s].queue
    BY <1>0, <1>1, <2>1 DEF Live, OneSocket, marketVars, Generation, Current
  <2> QED BY <2>1, <2>2, SameStream
<1>2. ASSUME NEW i \in Instruments, SelectInstrument(i) PROVE StreamInOrder'
  <2> SUFFICES ASSUME hides' = 0 PROVE StreamInOrder'
    BY DEF StreamInOrder
  <2>1. quote'.ticker = None /\ Len(effects') = Len(effects) + 1 /\ effects'[Len(effects) + 1].pending = None
    <3>1. /\ quote' = Blank /\ Len(effects') = Len(effects) + 1
          /\ effects'[Len(effects) + 1].pending = None
      BY <1>2, SelectDoes
    <3> QED BY <3>1 DEF Blank
  <2>2. Generation' = Len(effects) + 1 /\ Current' = effects'[Len(effects) + 1]
    BY <2>1 DEF Generation, Current
  <2>3. /\ Len(sockets') = Len(sockets)
        /\ \A s \in 1 .. Len(sockets) : sockets'[s].gen = sockets[s].gen /\ sockets[s].gen \in 1 .. Len(effects)
    BY <1>2, SelectDoes DEF MarketTypes
  <2>4. \A s \in 1 .. Len(sockets') : ~Live(s)'
    BY <1>0, <2>2, <2>3 DEF Live
  <2> QED BY <2>1, <2>2, <2>4 DEF StreamInOrder, Before, None
<1>3. ASSUME NEW i \in Instruments, Tick(i) PROVE StreamInOrder'
  <2> SUFFICES ASSUME hides' = 0 PROVE StreamInOrder'
    BY DEF StreamInOrder
  <2> DEFINE m == market[Current.instrument]
             t == quote.ticker
             p == Current.pending
  <2>1. /\ m \in Nat /\ t \in Quotes /\ p \in Quotes /\ Before(t, m) /\ Before(p, m)
        /\ p.from = "stream" => Before(t, p.at)
        /\ p = None \/ p.from = "stream"
        /\ \A k \in 1 .. Len(sockets) : sockets[k].queue \in Seq(Nat)
        /\ \A k \in 1 .. Len(sockets) : Live(k) => Ordered(sockets[k].queue, m, t, p)
    BY <1>3, StreamFacts DEF Tick
  <2>0. None \in Quotes /\ None.from = "none"
    BY Elements
  <2>2. /\ UNCHANGED <<effects, quote, sockets>> /\ market' = [market EXCEPT ![i] = @ + 1]
    BY <1>3 DEF Tick
  <2>3. Generation' = Generation /\ Current' = Current /\ Current.instrument \in Instruments
    BY <2>2, Elements DEF Generation, Current, Closures
  <2>4. market'[Current.instrument] \in Nat /\ m <= market'[Current.instrument]
    BY <2>1, <2>2, <2>3 DEF MarketTypes
  <2> DEFINE n == market'[Current.instrument]
  <2> HIDE DEF n, m
  <2>5. \A k \in 1 .. Len(sockets) : Live(k) => Ordered(sockets[k].queue, n, t, p)
    BY <2>1, <2>4, OrderedMore DEF n
  <2>6. Before(t, n) /\ Before(p, n)
    <3>1. t.at \in Nat /\ p.at \in Nat /\ m \in Nat /\ n \in Nat /\ m <= n
      BY <2>1, <2>4 DEF Quotes, n
    <3> QED BY <2>1, <3>1 DEF Before
  <2> QED BY <2>1, <2>2, <2>3, <2>5, <2>6 DEF StreamInOrder, Live, n, None
<1>4. ASSUME NEW r \in requests, ReadMarket(r) PROVE StreamInOrder'
  <2>1. /\ Generation' = Generation /\ Current'.instrument = Current.instrument /\ Current'.pending = Current.pending
        /\ quote'.ticker = quote.ticker /\ market' = market /\ hides' = hides
    BY <1>0, <1>4, ReadDoes DEF OneEffect
  <2>2. \A s \in 1 .. Len(sockets') : Live(s)' =>
           \/ sockets'[s].queue = <<>>
           \/ s \in 1 .. Len(sockets) /\ Live(s) /\ sockets'[s].queue = sockets[s].queue
    BY <1>0, <1>4, <2>1, ReadDoes DEF Live, OneSocket
  <2> QED BY <2>1, <2>2, SameStream
<1>5. ASSUME NEW r \in requests, MarketAnswered(r) PROVE StreamInOrder'
  <2> SUFFICES ASSUME hides' = 0 PROVE StreamInOrder'
    BY DEF StreamInOrder
  <2> DEFINE m == market[Current.instrument]
             t == quote.ticker
             p == Current.pending
  <2>1. /\ m \in Nat /\ t \in Quotes /\ p \in Quotes /\ Before(t, m) /\ Before(p, m)
        /\ p.from = "stream" => Before(t, p.at)
        /\ p = None \/ p.from = "stream"
        /\ \A k \in 1 .. Len(sockets) : sockets[k].queue \in Seq(Nat)
        /\ \A k \in 1 .. Len(sockets) : Live(k) => Ordered(sockets[k].queue, m, t, p)
    BY <1>5, StreamFacts, AnswerDoes
  <2>0. None \in Quotes /\ None.from = "none"
    BY Elements
  <2>2. UNCHANGED <<market, effects, sockets>> /\ Generation' = Generation /\ Current' = Current
    BY <1>0, <1>5, AnswerDoes
  <2>3. r.value \in Quotes /\ r.value.from # "stream"
    BY <1>5 DEF MarketTypes, Answers1, QuotesOfEffects
  <2> DEFINE u == quote'.ticker
  <2>4. u = t \/ (u \in Quotes /\ u.from # "stream")
    BY <1>5, <2>3, AnswerDoes
  <2> HIDE DEF m, p, u, t
  <2>5. \A k \in 1 .. Len(sockets) : Live(k) => Ordered(sockets[k].queue, m, u, p)
    BY <2>1, <2>4, OrderedMore
  <2>6. Before(u, m) /\ (p.from = "stream" => Before(u, p.at))
    BY <2>1, <2>4 DEF Before
  <2> QED BY <2>1, <2>2, <2>5, <2>6 DEF StreamInOrder, Live, u, p, m, None
<1>6. ASSUME NEW n \in 1 .. Len(effects), ConnectReady(n) PROVE StreamInOrder'
  <2>1. /\ Generation' = Generation /\ Current'.instrument = Current.instrument /\ Current'.pending = Current.pending
        /\ quote'.ticker = quote.ticker /\ market' = market /\ hides' = hides
    BY <1>0, <1>6, ReadyDoes DEF OneEffect
  <2>2. \A s \in 1 .. Len(sockets') : Live(s)' =>
           \/ sockets'[s].queue = <<>>
           \/ s \in 1 .. Len(sockets) /\ Live(s) /\ sockets'[s].queue = sockets[s].queue
    BY <1>0, <1>6, <2>1, ReadyDoes DEF Live, OneSocket
  <2> QED BY <2>1, <2>2, SameStream
<1>7. ASSUME NEW n \in 1 .. Len(effects), (n = Generation /\ (ConnectFails \/ Show)) \/ Reconnect(n)
      PROVE  StreamInOrder'
  <2>1. /\ Generation' = Generation /\ Current'.instrument = Current.instrument /\ Current'.pending = Current.pending
        /\ quote'.ticker = quote.ticker /\ market' = market /\ hides' = hides
    BY <1>0, <1>7, EffectDoes DEF OneEffect
  <2>2. \A s \in 1 .. Len(sockets') : Live(s)' =>
           \/ sockets'[s].queue = <<>>
           \/ s \in 1 .. Len(sockets) /\ Live(s) /\ sockets'[s].queue = sockets[s].queue
    BY <1>0, <1>7, <2>1, EffectDoes DEF Live, OneSocket
  <2> QED BY <2>1, <2>2, SameStream
<1>8. ASSUME NEW s \in 1 .. Len(sockets), OnOpen(s) \/ Break(s) \/ Relay(s) PROVE StreamInOrder'
  <2> SUFFICES ASSUME hides' = 0 PROVE StreamInOrder'
    BY DEF StreamInOrder
  <2> DEFINE m == market[Current.instrument]
             t == quote.ticker
             p == Current.pending
  <2>1. /\ m \in Nat /\ t \in Quotes /\ p \in Quotes /\ Before(t, m) /\ Before(p, m)
        /\ p.from = "stream" => Before(t, p.at)
        /\ p = None \/ p.from = "stream"
        /\ \A k \in 1 .. Len(sockets) : sockets[k].queue \in Seq(Nat)
        /\ \A k \in 1 .. Len(sockets) : Live(k) => Ordered(sockets[k].queue, m, t, p)
    BY <1>8, StreamFacts, SocketDoes
  <2>0. None \in Quotes /\ None.from = "none"
    BY Elements
  <2>2. /\ UNCHANGED <<market, effects>> /\ quote'.ticker = quote.ticker /\ Len(sockets') = Len(sockets)
        /\ Generation' = Generation /\ Current' = Current
    BY <1>0, <1>8, SocketDoes
  <2>3. ASSUME NEW k \in 1 .. Len(sockets), Live(k)' PROVE Ordered(sockets'[k].queue, m, t, p)
    <3>1. Live(k) /\ sockets[k].gen = Generation
      BY <1>8, <2>2, <2>3, SocketDoes DEF Live
    <3>2. sockets'[k].queue = sockets[k].queue \/ sockets'[k].queue = Append(sockets[k].queue, m)
      BY <1>0, <1>8, <3>1, SocketDoes
    <3>3. sockets[k].queue \in Seq(Nat) /\ Ordered(sockets[k].queue, m, t, p)
      BY <2>1, <3>1
    <3> HIDE DEF m, t, p
    <3>4. Ordered(Append(sockets[k].queue, m), m, t, p)
      BY <2>1, <3>3, OrderedMore
    <3> QED BY <3>2, <3>3, <3>4
  <2> QED BY <2>1, <2>2, <2>3 DEF StreamInOrder, None
<1>9. ASSUME NEW s \in 1 .. Len(sockets), OnMessage(s) PROVE StreamInOrder'
  <2> SUFFICES ASSUME hides' = 0 PROVE StreamInOrder'
    BY DEF StreamInOrder
  <2> DEFINE m == market[Current.instrument]
             t == quote.ticker
             p == Current.pending
  <2>1. /\ m \in Nat /\ t \in Quotes /\ p \in Quotes /\ Before(t, m) /\ Before(p, m)
        /\ p.from = "stream" => Before(t, p.at)
        /\ p = None \/ p.from = "stream"
        /\ \A k \in 1 .. Len(sockets) : sockets[k].queue \in Seq(Nat)
        /\ \A k \in 1 .. Len(sockets) : Live(k) => Ordered(sockets[k].queue, m, t, p)
    BY <1>9, StreamFacts, MessageDoes
  <2>0. None \in Quotes /\ None.from = "none"
    BY Elements
  <2>2. /\ UNCHANGED <<market, quote>> /\ Len(sockets') = Len(sockets)
        /\ \A k \in 1 .. Len(sockets) : k # s => sockets'[k] = sockets[k]
        /\ sockets'[s].gen = sockets[s].gen /\ sockets'[s].pc = sockets[s].pc
        /\ sockets'[s].queue = Tail(sockets[s].queue) /\ sockets[s].queue # <<>>
    BY <1>9, MessageDoes DEF OneSocket
  <2>3. CASE sockets[s].gen # Generation
    <3>1. effects' = effects /\ Generation' = Generation /\ Current' = Current
      BY <1>0, <1>9, <2>3, MessageDoes
    <3>2. \A k \in 1 .. Len(sockets) : Live(k)' => Live(k) /\ sockets'[k] = sockets[k]
      BY <2>2, <2>3, <3>1 DEF Live
    <3> QED BY <2>1, <2>2, <3>1, <3>2 DEF StreamInOrder, None
  <2>4. CASE sockets[s].gen = Generation
    <3> DEFINE u == effects'[Generation].pending
    <3>1. Current.suspended = FALSE /\ Live(s) /\ \A k \in 1 .. Len(sockets) : Live(k) => k = s
      BY <1>9, <2>4, MessageDoes DEF OneConnection, Live
    <3>2. /\ OneEffect(Generation) /\ u.at = Head(sockets[s].queue) /\ u.from = "stream"
          /\ effects'[Generation].instrument = Current.instrument
      BY <1>0, <1>9, <2>4, <3>1, MessageDoes DEF OneEffect
    <3>3. Generation' = Generation /\ Current' = effects'[Generation] /\ effects'[Generation] \in Closures
      BY <1>0, <3>2 DEF OneEffect
    <3>4. u \in Quotes
      BY <3>3 DEF Closures
    <3> HIDE DEF m, t, p, u
    <3>5. Ordered(Tail(sockets[s].queue), m, t, u) /\ u.at <= m /\ Before(t, u.at)
      BY <2>1, <2>2, <3>1, <3>2, <3>4, OrderedTail
    <3>6. \A k \in 1 .. Len(sockets) : Live(k)' => Live(k)
      BY <2>2, <3>3 DEF Live
    <3>7. \A k \in 1 .. Len(sockets) : Live(k)' => Ordered(sockets'[k].queue, m, t, u)
      BY <2>2, <3>1, <3>5, <3>6
    <3>8. Before(u, m)
      BY <3>5 DEF Before
    <3> QED BY <2>1, <2>2, <3>2, <3>3, <3>5, <3>7, <3>8 DEF StreamInOrder, m, t, u
  <2> QED BY <2>3, <2>4
<1>10. ASSUME NEW s \in 1 .. Len(sockets), OnClose(s) PROVE StreamInOrder'
  <2>1. /\ Generation' = Generation /\ Current'.instrument = Current.instrument /\ Current'.pending = Current.pending
        /\ quote'.ticker = quote.ticker /\ market' = market /\ hides' = hides
    BY <1>0, <1>10, CloseDoes DEF OneEffect
  <2>2. \A t \in 1 .. Len(sockets') : Live(t)' =>
           \/ sockets'[t].queue = <<>>
           \/ t \in 1 .. Len(sockets) /\ Live(t) /\ sockets'[t].queue = sockets[t].queue
    <3>1. OneSocket(s) /\ sockets'[s].pc = "closed"
      BY <1>10, CloseDoes
    <3>2. \A t \in 1 .. Len(sockets') : t \in 1 .. Len(sockets) /\ (t # s => sockets'[t] = sockets[t])
      BY <3>1 DEF OneSocket
    <3> QED BY <2>1, <3>1, <3>2 DEF Live
  <2> QED BY <2>1, <2>2, SameStream
<1>11. CASE Flush
  <2> SUFFICES ASSUME hides' = 0 PROVE StreamInOrder'
    BY DEF StreamInOrder
  <2> DEFINE m == market[Current.instrument]
             t == quote.ticker
             p == Current.pending
  <2>1. /\ m \in Nat /\ t \in Quotes /\ p \in Quotes /\ Before(t, m) /\ Before(p, m)
        /\ p.from = "stream" => Before(t, p.at)
        /\ p = None \/ p.from = "stream"
        /\ \A k \in 1 .. Len(sockets) : sockets[k].queue \in Seq(Nat)
        /\ \A k \in 1 .. Len(sockets) : Live(k) => Ordered(sockets[k].queue, m, t, p)
    BY <1>11, StreamFacts, FlushDoes
  <2>0. None \in Quotes /\ None.from = "none"
    BY Elements
  <2>2. /\ UNCHANGED <<market, sockets>> /\ Generation' = Generation /\ Current' = effects'[Generation]
        /\ Current'.instrument = Current.instrument /\ Current'.pending = None /\ quote'.ticker = p
    BY <1>0, <1>11, FlushDoes DEF OneEffect
  <2> DEFINE u == Current'.pending
  <2>3. u \in Quotes /\ u.from # "stream"
    BY <2>0, <2>2
  <2> HIDE DEF m, p, t, u
  <2>4. \A k \in 1 .. Len(sockets) : Live(k) => Ordered(sockets[k].queue, m, p, u)
    BY <2>1, <2>3, OrderedMore
  <2>5. Before(u, m) /\ (u.from = "stream" => Before(p, u.at))
    BY <2>3 DEF Before
  <2>6. u = None'
    BY <2>2 DEF u, None
  <2> QED BY <2>1, <2>2, <2>4, <2>5, <2>6 DEF StreamInOrder, Live, u, m
<1>12. CASE Hide
  <2>1. hides \in Nat /\ hides' = hides + 1
    BY <1>12, HideDoes DEF MarketTypes
  <2> QED BY <2>1 DEF StreamInOrder
<1> QED
  BY <1>1, <1>2, <1>3, <1>4, <1>5, <1>6, <1>7, <1>8, <1>9, <1>10, <1>11, <1>12, Elements
  DEF MarketNext, Connections, ConnectFails, Reconnect, Hide, Show

\* A step that does not start another effect moves the ticker on with the stream.
Forward == hides = 0 /\ quote.ticker.from = "stream" /\ Len(effects') = Generation
           => quote'.ticker.from = "stream" /\ quote'.ticker.at >= quote.ticker.at

\* Every step of a page that was never hidden moves its ticker forward.
LEMMA StreamForward ==
    MarketTypes /\ QuotesOfEffects /\ OneConnection /\ StreamInOrder /\ [MarketNext]_marketVars => Forward
<1> SUFFICES ASSUME MarketTypes, StreamInOrder, [MarketNext]_marketVars, hides = 0, quote.ticker.from = "stream",
                    Len(effects') = Generation
             PROVE  quote'.ticker.from = "stream" /\ quote'.ticker.at >= quote.ticker.at
  BY DEF Forward
<1>1. quote.ticker \in Quotes /\ quote.ticker.at \in Nat /\ quote.ticker # None
  BY Elements DEF MarketTypes, Charts, Quotes
<1>2. ASSUME quote'.ticker = quote.ticker PROVE quote'.ticker.from = "stream" /\ quote'.ticker.at >= quote.ticker.at
  BY <1>1, <1>2
<1>3. CASE UNCHANGED marketVars
  BY <1>2, <1>3 DEF marketVars
<1>4. ASSUME NEW i \in Instruments, SelectInstrument(i) \/ Tick(i)
      PROVE  quote'.ticker.from = "stream" /\ quote'.ticker.at >= quote.ticker.at
  <2>1. CASE SelectInstrument(i)
    <3>1. Len(effects') = Len(effects) + 1 /\ Len(effects') = Len(effects) /\ Len(effects) \in Nat
      BY <2>1, SelectDoes, Elements
    <3>2. FALSE
      BY <3>1
    <3> QED BY <3>2
  <2>2. CASE Tick(i)
    BY <1>2, <2>2 DEF Tick
  <2> QED BY <1>4, <2>1, <2>2
<1>5. ASSUME NEW r \in requests, ReadMarket(r) \/ MarketAnswered(r)
      PROVE  quote'.ticker.from = "stream" /\ quote'.ticker.at >= quote.ticker.at
  <2>1. quote'.ticker = quote.ticker
    BY <1>1, <1>5, ReadDoes, AnswerDoes
  <2> QED BY <1>2, <2>1
<1>6. ASSUME NEW n \in 1 .. Len(effects),
             ConnectReady(n) \/ (n = Generation /\ (ConnectFails \/ Show)) \/ Reconnect(n)
      PROVE  quote'.ticker.from = "stream" /\ quote'.ticker.at >= quote.ticker.at
  <2>1. quote'.ticker = quote.ticker
    BY <1>6, ReadyDoes, EffectDoes
  <2> QED BY <1>2, <2>1
<1>7. ASSUME NEW s \in 1 .. Len(sockets), OnOpen(s) \/ Break(s) \/ Relay(s) \/ OnMessage(s) \/ OnClose(s)
      PROVE  quote'.ticker.from = "stream" /\ quote'.ticker.at >= quote.ticker.at
  <2>1. quote'.ticker = quote.ticker
    BY <1>7, SocketDoes, MessageDoes, CloseDoes
  <2> QED BY <1>2, <2>1
<1>8. CASE Flush
  <2>1. quote'.ticker = Current.pending /\ Current.pending # None
    BY <1>8, FlushDoes
  <2>2. Current.pending.from = "stream" /\ Before(quote.ticker, Current.pending.at) /\ Current.pending \in Quotes
    BY <2>1, StreamFacts
  <2>3. Current.pending.at \in Nat
    BY <2>2 DEF Quotes
  <2> QED BY <1>1, <2>1, <2>2, <2>3 DEF Before
<1>9. CASE Hide
  BY <1>2, <1>9, HideDoes
<1> QED
  BY <1>3, <1>4, <1>5, <1>6, <1>7, <1>8, <1>9, Elements
  DEF MarketNext, Connections, ConnectFails, Reconnect, Hide, Show

\* A chart shows its instrument, and its stream only goes forward.
THEOREM ChartFollowsStream == MarketInit /\ [][MarketNext]_marketVars => ChartIsOfStream
<1>1. MarketInv /\ [MarketNext]_marketVars => MarketInv' /\ Forward
  BY MarketTypesKept, QuotesKept, OneConnectionKept, StreamInOrderKept, StreamForward DEF MarketInv
<1>2. MarketInv => MarketIsSelected
  BY DEF MarketInv, QuotesOfEffects
<1>3. MarketInv /\ [MarketNext]_marketVars
      => [hides = 0 /\ quote.ticker.from = "stream" /\ Len(effects') = Generation
          => quote'.ticker.from = "stream" /\ quote'.ticker.at >= quote.ticker.at]_marketVars
  BY <1>1 DEF Forward
<1> QED BY MarketStart, <1>1, <1>2, <1>3, PTL DEF ChartIsOfStream, StreamWins

-----------------------------------------------------------------------------
(* RunPanel: the invariant. *)

Kinds == Actions \cup {"none", "preflight", "refused"}
Settings == {"none", "own", "v1", "v2", "all", "some"}
Statuses == Open \cup {"none", "prepared", "completed", "error", "refused"}
Scopes == {<<>>} \cup (Groups \X RunIds)
SomeGroup == Groups \cup {"none"}

GroupRuns == [last : RunIds, alive : BOOLEAN, runs : SUBSET RunIds, config : {"v1", "v2"}]
Books == {"none", "sent", "gone", "refused", "open", "lost", "unknown", "raised", "failed", "completed"}
Operations == [status : Statuses, told : RunIds, performing : BOOLEAN, book : Books,
               worker : {"silent", "completed", "failed"}, action : Kinds, group : SomeGroup, run : RunIds,
               inputs : Settings]
Runtimes == [group : SomeGroup, available : BOOLEAN, run : RunIds, alive : BOOLEAN, runs : SUBSET RunIds,
             pending : Ops \cup {0}, config : {"none", "v1", "v2"}]
Tickets == [op : Ops \cup {0}, action : Kinds, scope : Scopes, inputs : Settings]
Receipts == [op : Ops \cup {0}, action : Kinds, status : Statuses, group : SomeGroup, run : RunIds]
Panels == [selectedGroup : Groups, selectedRuns : [Groups -> RunIds], runtime : Runtimes, own : BOOLEAN,
           reduction : {"all", "some"}, ticket : Tickets, receipt : Receipts]
Askings == [what : Kinds, scope : Scopes, inputs : Settings, op : Ops \cup {0, -1}]
Executes == [ticket : Tickets, group : SomeGroup, at : {"none", "asked", "held"}, answer : Receipts]
Polls == [at : {"none", "said", "answered"}, receipt : Receipts]

\* The operations the backend knows, each with its group.
Register == {<<i, op[i].group>> : i \in {j \in Ops : op[j].status # "none"}}

\* A ticket t is for what p shows.
TicketFits(t, p) ==
    t # NoTicket => t.scope = Scope(p) /\ (t.action = "start" => t.inputs = Inputs(p))

\* The receipt of p is for what p shows.
ReceiptFits(p) ==
    p.receipt # NoReceipt =>
        /\ p.receipt.group = p.selectedGroup
        /\ p.receipt.action = "start" /\ p.receipt.run # 0 => p.receipt.run = SelectedRun(p)

\* What is said of an operation names its group: by a runtime, a ticket, a receipt.
RuntimeKnown(r, named) == r.pending # 0 => <<r.pending, r.group>> \in named
TicketKnown(t, named) == t # NoTicket => t.scope \in Groups \X RunIds /\ <<t.op, t.scope[1]>> \in named
ReceiptKnown(r, named) == r # NoReceipt => <<r.op, r.group>> \in named

\* The panel shows what belongs together.
Consistent(p, named) ==
    /\ p \in Panels /\ TicketFits(p.ticket, p) /\ ReceiptFits(p)
    /\ RuntimeKnown(p.runtime, named) /\ TicketKnown(p.ticket, named) /\ ReceiptKnown(p.receipt, named)

\* What is under way belongs to the group it was begun for.
UnderWay(named) ==
    /\ \A l \in runtimeLoads : RuntimeKnown(l.runtime, named)
    /\ asking # NoAsking => asking.scope \in Groups \X RunIds
    /\ asking.op \in Ops => <<asking.op, asking.scope[1]>> \in named
    /\ executing # NoExecute => executing.ticket # NoTicket /\ executing.group = executing.ticket.scope[1]
    /\ TicketKnown(executing.ticket, named) /\ ReceiptKnown(polled.receipt, named)
    /\ polled # NoPoll => polled.receipt # NoReceipt /\ polled.receipt.status # "none"
    /\ executing.answer # NoReceipt => /\ executing.answer.op = executing.ticket.op
                                        /\ executing.answer.group = executing.group

PanelTypes ==
    /\ run \in [Groups -> GroupRuns] /\ op \in [Ops -> Operations] /\ expired \subseteq Ops
    /\ runtimeLoads \subseteq [kind : {"poll", "load"}, runtime : Runtimes]
    /\ asking \in Askings /\ executing \in Executes /\ polled \in Polls

PanelInv == PanelTypes /\ Consistent(panel, Register) /\ UnderWay(Register)

-----------------------------------------------------------------------------
(* RunPanel: what the effects of a render do. *)

\* The numbers of runs.
LEMMA RunIdsAre == 0 \in RunIds /\ Earlier \in RunIds /\ Ops \subseteq RunIds /\ 0 \notin Ops
BY PanelAssumption DEF RunIds, Earlier, Ops

\* The types of the parts of a panel.
LEMMA PanelParts ==
    ASSUME NEW p \in Panels
    PROVE  /\ p.selectedGroup \in Groups /\ p.selectedRuns \in [Groups -> RunIds]
           /\ SelectedRun(p) \in RunIds /\ p.runtime \in Runtimes /\ p.receipt \in Receipts /\ p.ticket \in Tickets
           /\ p.receipt.run \in RunIds /\ p.runtime.pending \in Ops \cup {0}
           /\ PendingStart(p) \in Ops \cup {0}
           /\ Scope(p) \in Groups \X RunIds /\ Scope(p)[1] = p.selectedGroup
BY DEF Panels, Runtimes, Receipts, SelectedRun, PendingStart, Scope

\* The empty values.
LEMMA NothingIs ==
    /\ NoRuntime \in Runtimes /\ NoRuntime.pending = 0 /\ NoRuntime.available = FALSE
    /\ NoTicket \in Tickets /\ NoReceipt \in Receipts /\ NoReceipt.op = 0 /\ NoReceipt.run = 0
    /\ NoReceipt.action = "none" /\ NoTicket.action = "none" /\ NoTicket.op = 0
BY RunIdsAre DEF NoRuntime, Runtimes, NoTicket, Tickets, NoReceipt, Receipts, Kinds, Scopes, Settings, Statuses, SomeGroup,
       Actions

\* The parts of a panel that an effect leaves alone.
Same(p, q) == q.selectedGroup = p.selectedGroup /\ q.runtime = p.runtime /\ q.own = p.own

\* The effect of another group empties what was shown of the one before.
LEMMA OnGroupIs ==
    ASSUME NEW old, NEW new \in Panels
    PROVE  LET q == OnGroup(old, new, new) IN
           /\ q \in Panels /\ q.selectedGroup = new.selectedGroup /\ q.selectedRuns = new.selectedRuns
           /\ old.selectedGroup = new.selectedGroup => q = new
           /\ old.selectedGroup # new.selectedGroup =>
                q.runtime = NoRuntime /\ q.ticket = NoTicket /\ q.receipt = NoReceipt
BY NothingIs DEF OnGroup, Panels, Settings

\* The effect of a start under way shows its receipt, or nothing new.
LEMMA OnPendingStartIs ==
    ASSUME NEW old, NEW new \in Panels, NEW p \in Panels
    PROVE  LET q == OnPendingStart(old, new, p) IN
           /\ q \in Panels /\ Same(p, q) /\ q.selectedRuns = p.selectedRuns /\ q.ticket = p.ticket
           /\ \/ q.receipt = p.receipt
              \/ /\ PendingStart(new) # 0 /\ q.receipt.op = PendingStart(new) /\ q.receipt.run = 0
                 /\ q.receipt.group = new.selectedGroup
<1> DEFINE r == [op |-> PendingStart(new), action |-> "start", status |-> "processing",
                 group |-> new.selectedGroup, run |-> 0]
<1>1. r \in Receipts
  BY PanelParts, RunIdsAre DEF Receipts, Kinds, Actions, Statuses, Open, SomeGroup
<1>2. CASE OnPendingStart(old, new, p) = p
  BY <1>2 DEF Same
<1>3. CASE PendingStart(new) # 0 /\ OnPendingStart(old, new, p) = [p EXCEPT !.receipt = r]
  BY <1>1, <1>3 DEF Same, Panels
<1> QED BY <1>2, <1>3 DEF OnPendingStart

\* The run of a receipt is selected.
Chosen(old, new) ==
    /\ Followed(old) # Followed(new) /\ new.receipt.action = "start" /\ new.receipt.run # 0
    /\ new.receipt.group = new.selectedGroup

\* The effect of a receipt selects the run of a start.
LEMMA OnReceiptIs ==
    ASSUME NEW old, NEW new \in Panels, NEW p \in Panels
    PROVE  LET q == OnReceipt(old, new, p) IN
           /\ q \in Panels /\ Same(p, q) /\ q.ticket = p.ticket /\ q.receipt = p.receipt
           /\ q.selectedRuns = IF Chosen(old, new)
                               THEN [p.selectedRuns EXCEPT ![new.selectedGroup] = new.receipt.run]
                               ELSE p.selectedRuns
<1>1. CASE ~Chosen(old, new)
  BY <1>1 DEF OnReceipt, Chosen, Same
<1>2. CASE Chosen(old, new)
  <2>1. OnReceipt(old, new, p) = [p EXCEPT !.selectedRuns[new.selectedGroup] = new.receipt.run]
    BY <1>2 DEF OnReceipt, Chosen
  <2>2. [p.selectedRuns EXCEPT ![new.selectedGroup] = new.receipt.run] \in [Groups -> RunIds]
    BY PanelParts
  <2> QED BY <1>2, <2>1, <2>2 DEF Panels, Same
<1> QED BY <1>1, <1>2

\* The effect of other settings keeps no ticket for a start.
LEMMA OnFingerprintIs ==
    ASSUME NEW old, NEW new, NEW p \in Panels
    PROVE  LET q == OnFingerprint(old, new, p) IN
           /\ q \in Panels /\ Same(p, q) /\ q.selectedRuns = p.selectedRuns /\ q.receipt = p.receipt
           /\ \/ q.ticket = NoTicket
              \/ q.ticket = p.ticket /\ (p.ticket.action = "start" => Fingerprint(old) = Fingerprint(new))
BY NothingIs DEF OnFingerprint, Panels, Same

\* The effect of another run keeps neither its ticket nor its receipt.
LEMMA OnRunIs ==
    ASSUME NEW old, NEW new, NEW p \in Panels
    PROVE  LET q == OnRun(old, new, p) IN
           /\ q \in Panels /\ Same(p, q) /\ q.selectedRuns = p.selectedRuns
           /\ q.ticket = NoTicket \/ (q.ticket = p.ticket /\ SelectedRun(old) = SelectedRun(new))
           /\ \/ q.receipt = NoReceipt
              \/ /\ q.receipt = p.receipt
                 /\ SelectedRun(old) = SelectedRun(new) \/ p.receipt.run \in {0, SelectedRun(new)}
BY NothingIs DEF OnRun, Panels, Same

\* What the effects of one render do.
LEMMA EffectsAre ==
    ASSUME NEW old \in Panels, NEW new \in Panels
    PROVE  LET q == Effects(old, new) IN
           /\ q \in Panels /\ q.selectedGroup = new.selectedGroup
           /\ \/ old.selectedGroup = new.selectedGroup /\ q.runtime = new.runtime /\ q.own = new.own
              \/ old.selectedGroup # new.selectedGroup /\ q.runtime = NoRuntime
           /\ q.selectedRuns = IF Chosen(old, new)
                               THEN [new.selectedRuns EXCEPT ![new.selectedGroup] = new.receipt.run]
                               ELSE new.selectedRuns
           /\ \/ q.ticket = NoTicket
              \/ /\ q.ticket = new.ticket /\ old.selectedGroup = new.selectedGroup
                 /\ SelectedRun(old) = SelectedRun(new)
                 /\ new.ticket.action = "start" => Fingerprint(old) = Fingerprint(new)
           /\ \/ q.receipt = NoReceipt
              \/ /\ PendingStart(new) # 0 /\ q.receipt.op = PendingStart(new) /\ q.receipt.run = 0
                 /\ q.receipt.group = new.selectedGroup
              \/ /\ q.receipt = new.receipt /\ old.selectedGroup = new.selectedGroup
                 /\ SelectedRun(old) = SelectedRun(new) \/ new.receipt.run \in {0, SelectedRun(new)}
<1> DEFINE a == OnGroup(old, new, new)
           b == OnPendingStart(old, new, a)
           c == OnReceipt(old, new, b)
           d == OnFingerprint(old, new, c)
           e == OnRun(old, new, d)
<1>1. e = Effects(old, new)
  BY DEF Effects
<1>2. /\ a \in Panels /\ a.selectedGroup = new.selectedGroup /\ a.selectedRuns = new.selectedRuns
      /\ old.selectedGroup = new.selectedGroup => a = new
      /\ old.selectedGroup # new.selectedGroup =>
           a.runtime = NoRuntime /\ a.ticket = NoTicket /\ a.receipt = NoReceipt
  BY OnGroupIs
<1> HIDE DEF a
<1>3. /\ b \in Panels /\ Same(a, b) /\ b.selectedRuns = a.selectedRuns /\ b.ticket = a.ticket
      /\ \/ b.receipt = a.receipt
         \/ /\ PendingStart(new) # 0 /\ b.receipt.op = PendingStart(new) /\ b.receipt.run = 0
            /\ b.receipt.group = new.selectedGroup
  BY <1>2, OnPendingStartIs
<1> HIDE DEF b
<1>4. /\ c \in Panels /\ Same(b, c) /\ c.ticket = b.ticket /\ c.receipt = b.receipt
      /\ c.selectedRuns = IF Chosen(old, new) THEN [b.selectedRuns EXCEPT ![new.selectedGroup] = new.receipt.run]
                          ELSE b.selectedRuns
  BY <1>3, OnReceiptIs
<1> HIDE DEF c
<1>5. /\ d \in Panels /\ Same(c, d) /\ d.selectedRuns = c.selectedRuns /\ d.receipt = c.receipt
      /\ \/ d.ticket = NoTicket
         \/ d.ticket = c.ticket /\ (c.ticket.action = "start" => Fingerprint(old) = Fingerprint(new))
  BY <1>4, OnFingerprintIs
<1> HIDE DEF d
<1>6. /\ e \in Panels /\ Same(d, e) /\ e.selectedRuns = d.selectedRuns
      /\ e.ticket = NoTicket \/ (e.ticket = d.ticket /\ SelectedRun(old) = SelectedRun(new))
      /\ \/ e.receipt = NoReceipt
         \/ /\ e.receipt = d.receipt
            /\ SelectedRun(old) = SelectedRun(new) \/ d.receipt.run \in {0, SelectedRun(new)}
  BY <1>5, OnRunIs
<1> HIDE DEF e
<1>7. Same(a, e) /\ e.selectedGroup = new.selectedGroup
  BY <1>2, <1>3, <1>4, <1>5, <1>6 DEF Same
<1>8. \/ old.selectedGroup = new.selectedGroup /\ e.runtime = new.runtime /\ e.own = new.own
      \/ old.selectedGroup # new.selectedGroup /\ e.runtime = NoRuntime
  BY <1>2, <1>7 DEF Same
<1>9. e.selectedRuns = IF Chosen(old, new) THEN [new.selectedRuns EXCEPT ![new.selectedGroup] = new.receipt.run]
                       ELSE new.selectedRuns
  BY <1>2, <1>3, <1>4, <1>5, <1>6
<1>10. \/ e.ticket = NoTicket
       \/ /\ e.ticket = new.ticket /\ old.selectedGroup = new.selectedGroup
          /\ SelectedRun(old) = SelectedRun(new)
          /\ new.ticket.action = "start" => Fingerprint(old) = Fingerprint(new)
  BY <1>2, <1>3, <1>4, <1>5, <1>6
<1>11. \/ e.receipt = NoReceipt
       \/ /\ PendingStart(new) # 0 /\ e.receipt.op = PendingStart(new) /\ e.receipt.run = 0
          /\ e.receipt.group = new.selectedGroup
       \/ /\ e.receipt = new.receipt /\ old.selectedGroup = new.selectedGroup
          /\ SelectedRun(old) = SelectedRun(new) \/ new.receipt.run \in {0, SelectedRun(new)}
  BY <1>2, <1>3, <1>4, <1>5, <1>6
<1> QED BY <1>1, <1>6, <1>7, <1>8, <1>9, <1>10, <1>11

\* A start that is under way is named with its group.
LEMMA PendingKnown ==
    ASSUME NEW named, NEW p \in Panels, RuntimeKnown(p.runtime, named), PendingStart(p) # 0
    PROVE  <<PendingStart(p), p.selectedGroup>> \in named
BY DEF PendingStart, Control, RuntimeKnown

\* Effects tell of named operations.
LEMMA EffectsKnown ==
    ASSUME NEW named, NEW old \in Panels, NEW new \in Panels, RuntimeKnown(new.runtime, named),
           TicketKnown(new.ticket, named), ReceiptKnown(new.receipt, named)
    PROVE  LET q == Effects(old, new) IN
           RuntimeKnown(q.runtime, named) /\ TicketKnown(q.ticket, named) /\ ReceiptKnown(q.receipt, named)
<1> DEFINE q == Effects(old, new)
<1>1. RuntimeKnown(q.runtime, named)
  BY EffectsAre, NothingIs DEF RuntimeKnown
<1>2. TicketKnown(q.ticket, named)
  BY EffectsAre DEF TicketKnown
<1>3. PendingStart(new) # 0 => <<PendingStart(new), new.selectedGroup>> \in named
  BY PendingKnown
<1>4. ReceiptKnown(q.receipt, named)
  BY <1>3, EffectsAre DEF ReceiptKnown
<1> QED BY <1>1, <1>2, <1>4

\* A ticket that outlives the effects is for what was rendered.
LEMMA EffectsOnTicket ==
    ASSUME NEW old \in Panels, NEW new \in Panels, TicketFits(new.ticket, old)
    PROVE  TicketFits(Effects(old, new).ticket, new)
<1> DEFINE q == Effects(old, new)
<1>1. CASE q.ticket = NoTicket
  BY <1>1 DEF TicketFits
<1>2. CASE /\ q.ticket = new.ticket /\ old.selectedGroup = new.selectedGroup
           /\ SelectedRun(old) = SelectedRun(new)
           /\ new.ticket.action = "start" => Fingerprint(old) = Fingerprint(new)
  <2>1. Scope(old) = Scope(new)
    BY <1>2 DEF Scope
  <2>2. new.ticket.action = "start" => Inputs(old) = Inputs(new)
    BY <1>2 DEF Fingerprint
  <2> QED BY <1>2, <2>1, <2>2 DEF TicketFits
<1> QED BY <1>1, <1>2, EffectsAre

\* The run of a receipt is selected once.
LEMMA ChosenOnce ==
    ASSUME NEW old \in Panels, NEW new \in Panels PROVE ~Chosen(new, Effects(old, new))
<1> DEFINE q == Effects(old, new)
<1>1. CASE q.receipt = NoReceipt \/ q.receipt.run = 0
  BY <1>1, NothingIs DEF Chosen
<1>2. CASE q.receipt = new.receipt
  BY <1>2, EffectsAre DEF Chosen, Followed
<1> QED BY <1>1, <1>2, EffectsAre

\* Later effects leave the selection.
LEMMA EffectsAgain ==
    ASSUME NEW old \in Panels, NEW new \in Panels
    PROVE  LET p == Effects(old, new)
               q == Effects(new, p)
           IN  /\ q.selectedGroup = p.selectedGroup /\ q.selectedRuns = p.selectedRuns
               /\ q.runtime = p.runtime /\ q.own = p.own /\ Scope(q) = Scope(p) /\ Inputs(q) = Inputs(p)
               /\ SelectedRun(q) = SelectedRun(p)
<1> DEFINE p == Effects(old, new)
           q == Effects(new, p)
<1>1. p \in Panels /\ p.selectedGroup = new.selectedGroup
  BY EffectsAre
<1>2. ~Chosen(new, p)
  BY ChosenOnce
<1> HIDE DEF p
<1>3. q.selectedGroup = p.selectedGroup /\ q.selectedRuns = p.selectedRuns /\ q.runtime = p.runtime /\ q.own = p.own
  BY <1>1, <1>2, EffectsAre
<1>4. Scope(q) = Scope(p) /\ SelectedRun(q) = SelectedRun(p)
  BY <1>3 DEF Scope, SelectedRun
<1>5. Inputs(q) = Inputs(p)
  BY <1>3 DEF Inputs, Control
<1> QED BY <1>3, <1>4, <1>5 DEF p

\* The receipt of what was rendered first, and that of every later render.
LEMMA EffectsOnReceipt ==
    ASSUME NEW old \in Panels, NEW new \in Panels,
           \/ ReceiptFits(old) /\ (new.receipt # NoReceipt /\ new.selectedGroup = old.selectedGroup
                                   => new.receipt.group = new.selectedGroup)
           \/ ReceiptFits(new)
    PROVE  ReceiptFits(Effects(old, new))
<1> DEFINE q == Effects(old, new)
<1>0. /\ new.selectedRuns \in [Groups -> RunIds] /\ new.selectedGroup \in Groups
      /\ q.selectedGroup = new.selectedGroup
  BY PanelParts, EffectsAre
<1>1. CASE q.receipt = NoReceipt
  BY <1>1 DEF ReceiptFits
<1>2. CASE q.receipt.run = 0 /\ q.receipt.group = new.selectedGroup
  BY <1>0, <1>2 DEF ReceiptFits
<1>3. CASE /\ q.receipt = new.receipt /\ q.receipt # NoReceipt /\ old.selectedGroup = new.selectedGroup
           /\ SelectedRun(old) = SelectedRun(new) \/ new.receipt.run \in {0, SelectedRun(new)}
  <2>1. new.receipt.group = new.selectedGroup
    BY <1>3 DEF ReceiptFits
  <2>2. ASSUME new.receipt.action = "start", new.receipt.run # 0 PROVE new.receipt.run = SelectedRun(q)
    <3>1. CASE Chosen(old, new)
      <4>1. q.selectedRuns[new.selectedGroup] = new.receipt.run
        BY <1>0, <3>1, EffectsAre
      <4> QED BY <1>0, <4>1 DEF SelectedRun
    <3>2. CASE ~Chosen(old, new)
      <4>1. SelectedRun(q) = SelectedRun(new)
        BY <1>0, <3>2, EffectsAre DEF SelectedRun
      <4>2. /\ old.receipt.action = "start" /\ old.receipt.run = new.receipt.run
            /\ old.receipt.group = new.receipt.group
        BY <2>1, <2>2, <3>2 DEF Chosen, Followed
      <4>3. old.receipt # NoReceipt
        BY <4>2, NothingIs
      <4>4. CASE ReceiptFits(old)
        <5>1. new.receipt.run = SelectedRun(old)
          BY <2>2, <4>2, <4>3, <4>4 DEF ReceiptFits
        <5> QED BY <1>3, <2>2, <4>1, <5>1
      <4>5. CASE ReceiptFits(new)
        BY <1>3, <2>2, <4>1, <4>5 DEF ReceiptFits
      <4> QED BY <4>4, <4>5
    <3> QED BY <3>1, <3>2
  <2> QED BY <1>0, <1>3, <2>1, <2>2 DEF ReceiptFits
<1> QED BY <1>1, <1>2, <1>3, EffectsAre

\* A panel that is rendered, with a ticket for what was shown and a receipt of the group, ends
\* up consistent.
LEMMA Rendered ==
    ASSUME NEW named, panel \in Panels, ReceiptFits(panel), NEW new \in Panels, Become(new),
           TicketFits(new.ticket, panel),
           new.receipt # NoReceipt /\ new.selectedGroup = panel.selectedGroup =>
               new.receipt.group = new.selectedGroup,
           RuntimeKnown(new.runtime, named), TicketKnown(new.ticket, named), ReceiptKnown(new.receipt, named)
    PROVE  Consistent(panel', named)
<1> DEFINE a == Effects(panel, new)
           b == Effects(new, a)
           c == Effects(a, b)
<1>1. panel' = c
  BY DEF Become
<1>2. /\ a \in Panels /\ ReceiptFits(a) /\ TicketFits(a.ticket, new)
      /\ RuntimeKnown(a.runtime, named) /\ TicketKnown(a.ticket, named) /\ ReceiptKnown(a.receipt, named)
  BY EffectsAre, EffectsKnown, EffectsOnReceipt, EffectsOnTicket
<1>3. /\ b \in Panels /\ ReceiptFits(b) /\ TicketFits(b.ticket, a)
      /\ RuntimeKnown(b.runtime, named) /\ TicketKnown(b.ticket, named) /\ ReceiptKnown(b.receipt, named)
      /\ Scope(b) = Scope(a) /\ Inputs(b) = Inputs(a)
  <2>1. Scope(b) = Scope(a) /\ Inputs(b) = Inputs(a)
    BY EffectsAgain
  <2> HIDE DEF a
  <2> QED BY <1>2, <2>1, EffectsAre, EffectsKnown, EffectsOnReceipt, EffectsOnTicket
<1>4. Scope(c) = Scope(b) /\ Inputs(c) = Inputs(b)
  <2> HIDE DEF a
  <2> QED BY <1>2, EffectsAgain
<1>5. /\ c \in Panels /\ ReceiptFits(c) /\ TicketFits(c.ticket, b)
      /\ RuntimeKnown(c.runtime, named) /\ TicketKnown(c.ticket, named) /\ ReceiptKnown(c.receipt, named)
  <2> HIDE DEF a, b
  <2> QED BY <1>2, <1>3, EffectsAre, EffectsKnown, EffectsOnReceipt, EffectsOnTicket
<1> HIDE DEF a, b, c
<1>6. TicketFits(c.ticket, c)
  BY <1>4, <1>5 DEF TicketFits
<1> QED BY <1>1, <1>5, <1>6 DEF Consistent

-----------------------------------------------------------------------------
(* RunPanel: the backend. *)

\* A set of numbers has a smallest one.
LEMMA Smallest ==
    ASSUME NEW S \in SUBSET Nat, S # {} PROVE \E i \in S : \A j \in S : i <= j
<1>1. PICK x \in S : \A y \in S : ~(<<y, x>> \in OpToRel(<, Nat))
  BY NatLessThanWellFounded, WFMin
<1>2. \A y \in S : ~(y < x)
  BY <1>1 DEF OpToRel
<1> QED BY <1>2

\* A set of numbers with a bound has a greatest one.
LEMMA Greatest ==
    ASSUME NEW n \in Nat, NEW S \in SUBSET (0 .. n), S # {} PROVE \E i \in S : \A j \in S : j <= i
<1> DEFINE T == {n - j : j \in S}
<1>0. \A j \in S : n - j \in Nat /\ j \in 0 .. n
  OBVIOUS
<1>1. T \in SUBSET Nat /\ T # {}
  BY <1>0
<1> HIDE DEF T
<1>2. PICK x \in T : \A y \in T : x <= y
  BY <1>1, Smallest
<1>3. PICK i \in S : x = n - i
  BY DEF T
<1>4. \A j \in S : n - j \in T
  BY DEF T
<1> QED BY <1>0, <1>2, <1>3, <1>4

\* What is registered.
LEMMA RegisterIs ==
    /\ \A i, g : <<i, g>> \in Register <=> i \in Ops /\ op[i].status # "none" /\ g = op[i].group
    /\ \A i, g : <<i, g>> \in Register' <=> i \in Ops /\ op'[i].status # "none" /\ g = op'[i].group
BY DEF Register

\* What the backend tells of a group.
LEMMA RuntimeIs ==
    ASSUME PanelTypes, NEW g \in Groups
    PROVE  Runtime(g) \in Runtimes /\ RuntimeKnown(Runtime(g), Register)
<1> DEFINE starts == {i \in Ops : op[i].group = g /\ op[i].action = "start" /\ op[i].status = "processing"}
           p == IF starts = {} THEN 0 ELSE CHOOSE i \in starts : \A j \in starts : j <= i
<1>1. p = 0 \/ p \in starts
  <2>1. starts # {} => \E i \in starts : \A j \in starts : j <= i
    <3>1. starts \in SUBSET (0 .. MaxOps) /\ MaxOps \in Nat
      BY PanelAssumption DEF Ops
    <3> HIDE DEF starts
    <3> QED BY <3>1, Greatest
  <2> HIDE DEF starts
  <2> QED BY <2>1
<1>2. p \in Ops \cup {0} /\ (p # 0 => <<p, g>> \in Register)
  <2>1. p # 0 => p \in Ops /\ op[p].status = "processing" /\ op[p].group = g
    BY <1>1
  <2> HIDE DEF p
  <2> QED BY <2>1, RegisterIs
<1>3. Runtime(g) = [group |-> g, available |-> TRUE, run |-> run[g].last, alive |-> run[g].alive,
                    runs |-> run[g].runs, pending |-> p, config |-> run[g].config]
  BY DEF Runtime
<1> HIDE DEF p
<1>4. run[g] \in GroupRuns
  BY DEF PanelTypes
<1> QED BY <1>2, <1>3, <1>4 DEF Runtimes, RuntimeKnown, GroupRuns, SomeGroup

\* A receipt of the backend, and what a record of the supervisor comes to.
LEMMA ReceiptIs ==
    ASSUME PanelTypes, NEW i \in Ops
    PROVE  /\ Receipt(i) \in Receipts /\ Receipt(i).op = i /\ Receipt(i).group = op[i].group
           /\ Receipt(i).status = op[i].status /\ Recorded(i) \in Books
           /\ \A b : RunNamed(i, b) \in RunIds /\ StatusOf(b) \in {"completed", "error", "unknown"}
<1>1. op[i] \in Operations
  BY DEF PanelTypes
<1>2. Recorded(i) \in Books
  BY <1>1 DEF Recorded, Operations, Books
<1>3. ASSUME NEW b PROVE RunNamed(i, b) \in RunIds
  BY <1>1, RunIdsAre DEF RunNamed, Operations
<1>4. ASSUME NEW b PROVE StatusOf(b) \in {"completed", "error", "unknown"}
  BY DEF StatusOf
<1>5. /\ Receipt(i) \in Receipts /\ Receipt(i).op = i /\ Receipt(i).group = op[i].group
      /\ Receipt(i).status = op[i].status
  BY <1>1 DEF Operations, Receipt, Receipts
<1> QED BY <1>2, <1>3, <1>4, <1>5

\* Operations go on.
LEMMA OpsGoOn ==
    ASSUME \A j \in Ops : op[j].status # "none" => op'[j].status # "none" /\ op'[j].group = op[j].group
    PROVE  Register \subseteq Register'
<1>1. SUFFICES ASSUME NEW x \in Register PROVE x \in Register'
  OBVIOUS
<1>2. PICK j \in Ops : x = <<j, op[j].group>> /\ op[j].status # "none"
  BY DEF Register
<1>3. op'[j].status # "none" /\ op'[j].group = op[j].group
  BY <1>2
<1> QED BY <1>2, <1>3, RegisterIs

\* One operation goes on.
LEMMA OpGoesOn ==
    ASSUME PanelTypes, NEW i \in Ops, NEW o \in Operations, op' = [op EXCEPT ![i] = o],
           op[i].status # "none" => o.status # "none" /\ o.group = op[i].group
    PROVE  op' \in [Ops -> Operations] /\ Register \subseteq Register'
<1>1. op \in [Ops -> Operations] /\ op' \in [Ops -> Operations]
  BY DEF PanelTypes
<1>2. \A j \in Ops : op'[j] = IF j = i THEN o ELSE op[j]
  BY <1>1
<1> QED BY <1>1, <1>2, OpsGoOn

\* The supervisor's record of an operation goes on.
LEMMA BookGoesOn ==
    ASSUME PanelTypes, NEW i \in Ops, NEW b \in Books, op' = [op EXCEPT ![i].book = b]
    PROVE  op' \in [Ops -> Operations] /\ Register \subseteq Register'
<1> DEFINE o == [op[i] EXCEPT !.book = b]
<1>1. op[i] \in Operations
  BY DEF PanelTypes
<1>2. o \in Operations /\ o.status = op[i].status /\ o.group = op[i].group
  BY <1>1 DEF Operations
<1>3. op' = [op EXCEPT ![i] = o]
  OBVIOUS
<1> HIDE DEF o
<1> QED BY <1>2, <1>3, OpGoesOn

\* The runs after an operation has taken effect.
LEMMA RunsAfterAre ==
    ASSUME PanelTypes, NEW i \in Ops PROVE RunsAfter(i) \in [Groups -> GroupRuns]
<1> DEFINE next(r) == IF op[i].action = "start"
                      THEN [r EXCEPT !.last = i, !.alive = TRUE, !.runs = r.runs \cup {i}]
                      ELSE [r EXCEPT !.alive = r.alive /\ op[i].action # "stop"]
<1>1. run \in [Groups -> GroupRuns]
  BY DEF PanelTypes
<1>2. RunsAfter(i) = [run EXCEPT ![op[i].group] = next(run[op[i].group])]
  BY DEF RunsAfter
<1>3. \A r \in GroupRuns : next(r) \in GroupRuns
  BY RunIdsAre DEF GroupRuns
<1> HIDE DEF next
<1> QED BY <1>1, <1>2, <1>3

\* What a ticket in execution is about.
LEMMA ExecutingIs ==
    ASSUME PanelInv, executing # NoExecute
    PROVE  /\ executing.ticket.op \in Ops /\ op[executing.ticket.op].status # "none"
           /\ op[executing.ticket.op].group = executing.group /\ executing.group \in Groups
           /\ executing.group = executing.ticket.scope[1] /\ executing.ticket # NoTicket
           /\ executing.ticket.action \in Kinds /\ executing.answer \in Receipts
BY RegisterIs DEF PanelInv, UnderWay, TicketKnown, PanelTypes, Executes, Tickets

\* What the backend knows is kept, and it only gets to know more.
LEMMA ServerKept ==
    ASSUME PanelInv, [PanelNext]_panelVars
    PROVE  /\ run' \in [Groups -> GroupRuns] /\ op' \in [Ops -> Operations] /\ expired' \subseteq Ops
           /\ Register \subseteq Register'
<1>0. PanelTypes /\ run \in [Groups -> GroupRuns] /\ op \in [Ops -> Operations] /\ expired \subseteq Ops
  BY DEF PanelInv, PanelTypes
<1>1. ASSUME op' = op PROVE op' \in [Ops -> Operations] /\ Register \subseteq Register'
  BY <1>0, <1>1 DEF Register
<1>2. CASE UNCHANGED panelServerVars
  BY <1>0, <1>1, <1>2 DEF panelServerVars
<1>3. CASE PrepareRoute
  <2>1. UNCHANGED <<run, expired>>
    BY <1>3 DEF PrepareRoute
  <2>2. CASE op' = op
    BY <1>0, <1>1, <2>1, <2>2
  <2>3. ASSUME asking # NoAsking,
               NEW i \in Ops, op[i] = NoOp,
               op' = [op EXCEPT ![i] = [NoOp EXCEPT !.status = "prepared", !.action = asking.what,
                                             !.group = asking.scope[1], !.inputs = asking.inputs,
                                             !.run = IF asking.what = "start" THEN i ELSE run[asking.scope[1]].last]]
        PROVE  op' \in [Ops -> Operations] /\ Register \subseteq Register'
    <3> DEFINE o == [NoOp EXCEPT !.status = "prepared", !.action = asking.what,
                                 !.group = asking.scope[1], !.inputs = asking.inputs,
                                 !.run = IF asking.what = "start" THEN i ELSE run[asking.scope[1]].last]
    <3>1. asking.scope[1] \in Groups /\ asking.what \in Kinds /\ asking.inputs \in Settings
      BY <2>3 DEF PanelInv, PanelTypes, UnderWay, Askings
    <3>2. run[asking.scope[1]].last \in RunIds /\ i \in RunIds
      BY <1>0, <3>1, RunIdsAre DEF GroupRuns
    <3>3. o \in Operations /\ o.status # "none"
      BY <3>1, <3>2, RunIdsAre DEF NoOp, Operations, Statuses, SomeGroup, Books
    <3>4. op[i].status = "none"
      BY <2>3 DEF NoOp
    <3>5. op' = [op EXCEPT ![i] = o]
      BY <2>3
    <3> HIDE DEF o
    <3> QED BY <1>0, <3>3, <3>4, <3>5, OpGoesOn
  <2> QED BY <1>0, <1>3, <2>1, <2>2, <2>3 DEF PrepareRoute
<1>4. CASE ExecuteRoute
  <2> DEFINE i == executing.ticket.op
  <2>1. executing # NoExecute
    BY <1>4 DEF ExecuteRoute, NoExecute
  <2>2. UNCHANGED <<run, expired>> /\ i \in Ops /\ op[i].status # "none"
    BY <1>4, <2>1, ExecutingIs DEF ExecuteRoute
  <2>3. CASE UNCHANGED op
    BY <1>0, <1>1, <2>2, <2>3
  <2>4. CASE op' = [op EXCEPT ![i].status = "processing", ![i].performing = TRUE, ![i].book = "sent"]
    <3> DEFINE o == [op[i] EXCEPT !.status = "processing", !.performing = TRUE, !.book = "sent"]
    <3>1. op[i] \in Operations
      BY <1>0, <2>2
    <3>2. o \in Operations /\ o.status # "none" /\ o.group = op[i].group
      BY <3>1 DEF Operations, Statuses, Open, Books
    <3>3. op' = [op EXCEPT ![i] = o]
      BY <1>0, <2>2, <2>4 DEF Operations
    <3> HIDE DEF o, i
    <3> QED BY <1>0, <2>2, <3>2, <3>3, OpGoesOn
  <2> QED BY <1>0, <1>4, <2>2, <2>3, <2>4 DEF ExecuteRoute
<1>5. ASSUME NEW i \in Ops, Take(i) \/ Act(i) \/ WorkerEndsIt(i) \/ Performed(i)
      PROVE  /\ run' \in [Groups -> GroupRuns] /\ op' \in [Ops -> Operations] /\ expired' \subseteq Ops
             /\ Register \subseteq Register'
  <2>1. UNCHANGED expired
    BY <1>5 DEF Take, Act, WorkerEndsIt, Performed, PanelUntouched
  <2>2. run' \in [Groups -> GroupRuns]
    BY <1>0, <1>5, RunsAfterAre DEF Take, Act, WorkerEndsIt, Performed
  <2>3. CASE Take(i) \/ Act(i)
    <3>1. \E b \in Books : op' = [op EXCEPT ![i].book = b]
      BY <2>3 DEF Take, Act, Books
    <3> QED BY <1>0, <2>1, <2>2, <3>1, BookGoesOn
  <2>4. CASE WorkerEndsIt(i)
    <3>1. PICK w \in {"completed", "failed"} : op' = [op EXCEPT ![i].worker = w]
      BY <2>4 DEF WorkerEndsIt
    <3> DEFINE o == [op[i] EXCEPT !.worker = w]
    <3>2. op[i] \in Operations
      BY <1>0
    <3>3. o \in Operations /\ o.status = op[i].status /\ o.group = op[i].group
      BY <3>2 DEF Operations
    <3>4. op' = [op EXCEPT ![i] = o]
      BY <3>1
    <3> HIDE DEF o
    <3> QED BY <1>0, <2>1, <2>2, <3>3, <3>4, OpGoesOn
  <2>5. CASE Performed(i)
    <3>1. PICK b : op' = [op EXCEPT ![i].status = StatusOf(b), ![i].told = RunNamed(i, b), ![i].performing = FALSE]
      BY <2>5 DEF Performed
    <3>2. StatusOf(b) \in Statuses \ {"none"} /\ RunNamed(i, b) \in RunIds
      BY <1>0, ReceiptIs DEF Statuses, Open
    <3> DEFINE o == [op[i] EXCEPT !.status = StatusOf(b), !.told = RunNamed(i, b), !.performing = FALSE]
    <3>3. op[i] \in Operations
      BY <1>0
    <3>4. o \in Operations /\ o.status # "none" /\ o.group = op[i].group
      BY <3>2, <3>3 DEF Operations
    <3>5. op' = [op EXCEPT ![i] = o]
      BY <1>0, <3>1 DEF Operations
    <3> HIDE DEF o
    <3> QED BY <1>0, <2>1, <2>2, <3>4, <3>5, OpGoesOn
  <2> QED BY <1>5, <2>3, <2>4, <2>5
<1>6. CASE Restart
  <2>1. UNCHANGED expired
    BY <1>6 DEF Restart, PanelUntouched
  <2>2. run' \in [Groups -> GroupRuns]
    BY <1>0, <1>6, RunsAfterAre DEF Restart
  <2>3. PICK gone \in SUBSET Ops :
           op' = [i \in Ops |-> IF i \in gone THEN [op[i] EXCEPT !.book = "gone"]
                               ELSE IF op[i].book = "open" THEN [op[i] EXCEPT !.book = "lost"] ELSE op[i]]
    BY <1>6 DEF Restart
  <2>4. ASSUME NEW j \in Ops
        PROVE  op'[j] \in Operations /\ op'[j].status = op[j].status /\ op'[j].group = op[j].group
    <3>1. op[j] \in Operations
      BY <1>0
    <3>2. op'[j] \in {[op[j] EXCEPT !.book = "gone"], [op[j] EXCEPT !.book = "lost"], op[j]}
      BY <2>3
    <3> QED BY <3>1, <3>2 DEF Operations, Books
  <2>5. op' \in [Ops -> Operations]
    BY <2>3, <2>4
  <2>6. Register \subseteq Register'
    <3>1. \A j \in Ops : op'[j].status = op[j].status /\ op'[j].group = op[j].group
      BY <2>4
    <3> QED BY <3>1, OpsGoOn
  <2> QED BY <1>0, <2>1, <2>2, <2>5, <2>6
<1>7. CASE PollReceipt
  <2>1. UNCHANGED <<run, expired>>
    BY <1>7 DEF PollReceipt
  <2>2. CASE UNCHANGED op
    BY <1>0, <1>1, <2>1, <2>2
  <2>3. CASE op' = [op EXCEPT ![panel.receipt.op].book = Recorded(panel.receipt.op)]
    <3>1. panel.receipt.op \in Ops
      BY <1>7, PanelParts DEF PanelInv, Consistent, Receipts, PollReceipt, Unsettled
    <3>2. Recorded(panel.receipt.op) \in Books
      BY <1>0, <3>1, ReceiptIs
    <3> QED BY <1>0, <2>1, <2>3, <3>1, <3>2, BookGoesOn
  <2> QED BY <1>7, <2>2, <2>3 DEF PollReceipt
<1>8. CASE RouteWrites
  <2> DEFINE i == polled.receipt.op
             s == polled.receipt.status
             r == polled.receipt.run
             o == [op[i] EXCEPT !.status = s, !.told = r]
  <2>1. UNCHANGED <<run, expired>> /\ op' = [op EXCEPT ![i].status = s, ![i].told = r]
    BY <1>8 DEF RouteWrites
  <2>2. polled # NoPoll
    BY <1>8 DEF RouteWrites, NoPoll
  <2>3. polled.receipt \in Receipts /\ s # "none" /\ <<i, polled.receipt.group>> \in Register
    BY <2>2 DEF PanelInv, PanelTypes, Polls, UnderWay, ReceiptKnown
  <2>4. i \in Ops /\ s \in Statuses /\ r \in RunIds
    BY <2>3, RegisterIs DEF Receipts
  <2>5. op[i] \in Operations
    BY <1>0, <2>4
  <2>6. o \in Operations /\ o.status # "none" /\ o.group = op[i].group
    BY <2>3, <2>4, <2>5 DEF Operations
  <2>7. op' = [op EXCEPT ![i] = o]
    BY <1>0, <2>1, <2>4 DEF Operations
  <2> HIDE DEF o, i
  <2> QED BY <1>0, <2>1, <2>4, <2>6, <2>7, OpGoesOn
<1>9. CASE Elsewhere
  <2>1. UNCHANGED op
    BY <1>9 DEF Elsewhere
  <2>2. run' \in [Groups -> GroupRuns]
    <3>1. CASE UNCHANGED run
      BY <1>0, <3>1
    <3>2. ASSUME NEW g \in Groups, run' = [run EXCEPT ![g].alive = FALSE] PROVE run' \in [Groups -> GroupRuns]
      BY <1>0, <3>2 DEF GroupRuns
    <3>3. ASSUME NEW g \in Groups, run' = [run EXCEPT ![g].config = IF @ = "v1" THEN "v2" ELSE "v1"]
          PROVE  run' \in [Groups -> GroupRuns]
      BY <1>0, <3>3 DEF GroupRuns
    <3> QED BY <1>9, <3>1, <3>2, <3>3 DEF Elsewhere
  <2>3. expired' \subseteq Ops
    BY <1>0, <1>9 DEF Elsewhere
  <2> QED BY <1>1, <2>1, <2>2, <2>3
<1>10. \/ UNCHANGED panelServerVars \/ PrepareRoute \/ ExecuteRoute \/ Elsewhere \/ Restart \/ PollReceipt \/ RouteWrites
      \/ \E i \in Ops : Take(i) \/ Act(i) \/ WorkerEndsIt(i) \/ Performed(i)
  BY DEF PanelNext, panelVars, PanelSteps, SelectGroup, SelectRun, Edit, Preflight, Prepare, Cancel, Execute, Prepared,
         Executed, ReceiptPolled, Loaded, Poll, ExecuteLost
<1> QED BY <1>2, <1>3, <1>4, <1>5, <1>9, <1>10, <1>6, <1>7, <1>8

-----------------------------------------------------------------------------
(* RunPanel: what is shown. *)

\* What is named stays named.
LEMMA KnownStays ==
    ASSUME NEW p, NEW named, NEW more, named \subseteq more, Consistent(p, named)
    PROVE  Consistent(p, more)
BY DEF Consistent, RuntimeKnown, TicketKnown, ReceiptKnown

\* A render in which neither a ticket nor a receipt is new.
LEMMA RenderedSame ==
    ASSUME PanelInv, NEW new \in Panels, Become(new), new.ticket \in {panel.ticket, NoTicket},
           new.receipt = panel.receipt, RuntimeKnown(new.runtime, Register)
    PROVE  Consistent(panel', Register)
<1>1. /\ panel \in Panels /\ ReceiptFits(panel) /\ TicketFits(panel.ticket, panel)
      /\ TicketKnown(panel.ticket, Register) /\ ReceiptKnown(panel.receipt, Register)
  BY DEF PanelInv, Consistent
<1>2. TicketFits(new.ticket, panel) /\ TicketKnown(new.ticket, Register) /\ ReceiptKnown(new.receipt, Register)
  BY <1>1 DEF TicketFits, TicketKnown
<1>3. new.receipt # NoReceipt /\ new.selectedGroup = panel.selectedGroup => new.receipt.group = new.selectedGroup
  BY <1>1 DEF ReceiptFits
<1> QED BY <1>1, <1>2, <1>3, Rendered

\* The dialog gets its ticket.
LEMMA PreparedKept ==
    ASSUME PanelInv, Prepared PROVE Consistent(panel', Register)
<1>0. panel \in Panels /\ RuntimeKnown(panel.runtime, Register)
  BY DEF PanelInv, Consistent
<1>1. CASE Become(panel)
  BY <1>0, <1>1, RenderedSame
<1>2. CASE asking.op \in Ops /\ StillWanted
           /\ Become([panel EXCEPT !.ticket = [op |-> asking.op, action |-> asking.what,
                                               scope |-> asking.scope, inputs |-> asking.inputs]])
  <2> DEFINE t == [op |-> asking.op, action |-> asking.what, scope |-> asking.scope, inputs |-> asking.inputs]
             new == [panel EXCEPT !.ticket = t]
  <2>1. asking # NoAsking
    <3>1. 0 \notin Ops
      BY DEF Ops
    <3> QED BY <1>2, <3>1 DEF NoAsking
  <2>2. /\ asking \in Askings /\ asking.scope \in Groups \X RunIds
        /\ <<asking.op, asking.scope[1]>> \in Register
    BY <1>2, <2>1 DEF PanelInv, PanelTypes, UnderWay
  <2>3. t \in Tickets
    BY <1>2, <2>2 DEF Askings, Tickets, Scopes
  <2>4. t.scope = Scope(panel) /\ (t.action = "start" => t.inputs = Inputs(panel))
    BY <1>2 DEF StillWanted
  <2>5. TicketFits(t, panel) /\ TicketKnown(t, Register)
    BY <2>2, <2>4 DEF TicketFits, TicketKnown
  <2> HIDE DEF t
  <2>6. /\ new \in Panels /\ new.ticket = t /\ new.receipt = panel.receipt /\ new.runtime = panel.runtime
    BY <1>0, <2>3 DEF Panels
  <2>7. Become(new)
    BY <1>2 DEF t
  <2> HIDE DEF new
  <2>8. ReceiptFits(panel) /\ ReceiptKnown(panel.receipt, Register)
    BY DEF PanelInv, Consistent
  <2>9. new.receipt # NoReceipt /\ new.selectedGroup = panel.selectedGroup => new.receipt.group = new.selectedGroup
    BY <2>6, <2>8 DEF ReceiptFits
  <2> QED BY <1>0, <2>5, <2>6, <2>7, <2>8, <2>9, Rendered
<1> QED BY <1>1, <1>2 DEF Prepared

\* The dialog is done.
LEMMA ExecutedKept ==
    ASSUME PanelInv, executing # NoExecute, executing.answer # NoReceipt, Become(Completed)
    PROVE  Consistent(panel', Register)
<1>0. panel \in Panels /\ RuntimeKnown(panel.runtime, Register)
  BY DEF PanelInv, Consistent
<1> DEFINE closed == [panel EXCEPT !.ticket = NoTicket]
<1>1. /\ closed \in Panels /\ closed.ticket = NoTicket /\ closed.receipt = panel.receipt
      /\ closed.runtime = panel.runtime
      /\ closed.selectedGroup = panel.selectedGroup
  BY <1>0, NothingIs DEF Panels
<1>2. CASE Completed = closed
  <2> HIDE DEF closed
  <2> QED BY <1>0, <1>1, <1>2, RenderedSame
<1>3. CASE Concerned
  <2> DEFINE a == executing.answer
             g == executing.group
             chosen == IF a.run # 0 THEN a.run ELSE panel.selectedRuns[g]
             new == [closed EXCEPT !.selectedRuns[g] = chosen, !.receipt = a]
  <2>1. /\ g \in Groups /\ g = executing.ticket.scope[1] /\ a \in Receipts /\ executing.ticket # NoTicket
        /\ a.op = executing.ticket.op /\ a.group = g
    BY ExecutingIs DEF PanelInv, UnderWay
  <2>2. <<a.op, a.group>> \in Register
    BY <2>1 DEF PanelInv, UnderWay, TicketKnown
  <2>3. a.group = panel.selectedGroup
    BY <1>0, <1>3, <2>1, PanelParts DEF Concerned
  <2>4. chosen \in RunIds
    BY <1>0, <2>1, PanelParts DEF Receipts
  <2>5. [closed.selectedRuns EXCEPT ![g] = chosen] \in [Groups -> RunIds]
    BY <1>1, <2>4 DEF Panels
  <2>6. Completed = new
    BY <1>0, <1>3 DEF Completed, Panels
  <2> HIDE DEF closed, a, g, chosen
  <2>7. /\ new \in Panels /\ new.ticket = NoTicket /\ new.receipt = a /\ new.runtime = panel.runtime
        /\ new.selectedGroup = panel.selectedGroup
    BY <1>1, <2>1, <2>5 DEF Panels, Settings
  <2> HIDE DEF new
  <2>8. ReceiptFits(panel)
    BY DEF PanelInv, Consistent
  <2>9. TicketFits(new.ticket, panel) /\ TicketKnown(new.ticket, Register) /\ ReceiptKnown(new.receipt, Register)
    BY <2>2, <2>7 DEF TicketFits, TicketKnown, ReceiptKnown
  <2> QED BY <1>0, <2>3, <2>6, <2>7, <2>8, <2>9, Rendered
<1> QED BY <1>2, <1>3 DEF Completed

\* The receipt is asked for again.
LEMMA ReceiptPolledKept ==
    ASSUME PanelInv, ReceiptPolled PROVE Consistent(panel', Register)
<1>0. panel \in Panels /\ RuntimeKnown(panel.runtime, Register)
  BY DEF PanelInv, Consistent
<1>1. CASE Become(panel)
  BY <1>0, <1>1, RenderedSame
<1> DEFINE r == polled.receipt
           new == [panel EXCEPT !.receipt = r]
<1>2. CASE panel.receipt.op = r.op /\ Become(new)
  <2>1. polled # NoPoll
    BY DEF ReceiptPolled, NoPoll
  <2>2. r \in Receipts /\ r # NoReceipt /\ <<r.op, r.group>> \in Register
    BY <2>1 DEF PanelInv, PanelTypes, Polls, UnderWay, ReceiptKnown
  <2>3. r.op \in Ops /\ r.op # 0
    BY <2>2, RegisterIs, RunIdsAre
  <2>4. panel.receipt # NoReceipt
    BY <1>2, <2>3, NothingIs
  <2>5. <<panel.receipt.op, panel.receipt.group>> \in Register /\ panel.receipt.group = panel.selectedGroup
    BY <2>4 DEF PanelInv, Consistent, ReceiptKnown, ReceiptFits
  <2>6. r.group = panel.selectedGroup
    BY <1>2, <2>2, <2>5, RegisterIs
  <2> HIDE DEF r
  <2>7. /\ new \in Panels /\ new.receipt = r /\ new.ticket = panel.ticket /\ new.runtime = panel.runtime
        /\ new.selectedGroup = panel.selectedGroup
    BY <1>0, <2>2 DEF Panels
  <2> HIDE DEF new
  <2>8. ReceiptFits(panel) /\ TicketFits(new.ticket, panel) /\ TicketKnown(new.ticket, Register)
    BY <2>7 DEF PanelInv, Consistent
  <2>9. ReceiptKnown(new.receipt, Register)
    BY <2>2, <2>7 DEF ReceiptKnown
  <2> QED BY <1>0, <1>2, <2>6, <2>7, <2>8, <2>9, Rendered
<1> QED BY <1>1, <1>2 DEF ReceiptPolled

\* Every step shows what belongs together.
LEMMA ConsistentKept ==
    ASSUME PanelInv, [PanelNext]_panelVars PROVE Consistent(panel', Register')
<1>0. /\ Register \subseteq Register' /\ panel \in Panels
      /\ RuntimeKnown(panel.runtime, Register) /\ Consistent(panel, Register)
  BY ServerKept DEF PanelInv, Consistent
<1>1. SUFFICES ASSUME panel' # panel PROVE Consistent(panel', Register)
  BY <1>0, KnownStays
<1>2. ASSUME NEW g \in Groups, Become([panel EXCEPT !.selectedGroup = g]) PROVE Consistent(panel', Register)
  <2> DEFINE new == [panel EXCEPT !.selectedGroup = g]
  <2>1. new \in Panels /\ new.ticket = panel.ticket /\ new.receipt = panel.receipt /\ new.runtime = panel.runtime
    BY <1>0 DEF Panels
  <2>2. Become(new)
    BY <1>2
  <2> HIDE DEF new
  <2> QED BY <1>0, <2>1, <2>2, RenderedSame
<1>3. ASSUME NEW r \in RunIds, Become([panel EXCEPT !.selectedRuns[panel.selectedGroup] = r])
      PROVE  Consistent(panel', Register)
  <2> DEFINE new == [panel EXCEPT !.selectedRuns[panel.selectedGroup] = r]
  <2>1. new \in Panels /\ new.ticket = panel.ticket /\ new.receipt = panel.receipt /\ new.runtime = panel.runtime
    BY <1>0 DEF Panels
  <2>2. Become(new)
    BY <1>3
  <2> HIDE DEF new
  <2> QED BY <1>0, <2>1, <2>2, RenderedSame
<1>4. ASSUME Become([panel EXCEPT !.own = ~@]) PROVE Consistent(panel', Register)
  <2> DEFINE new == [panel EXCEPT !.own = ~@]
  <2>1. new \in Panels /\ new.ticket = panel.ticket /\ new.receipt = panel.receipt /\ new.runtime = panel.runtime
    BY <1>0 DEF Panels
  <2>2. Become(new)
    BY <1>4
  <2> HIDE DEF new
  <2> QED BY <1>0, <2>1, <2>2, RenderedSame
<1>5. ASSUME Become([panel EXCEPT !.reduction = IF @ = "all" THEN "some" ELSE "all", !.ticket = NoTicket])
      PROVE  Consistent(panel', Register)
  <2> DEFINE new == [panel EXCEPT !.reduction = IF @ = "all" THEN "some" ELSE "all", !.ticket = NoTicket]
  <2>1. new \in Panels /\ new.ticket = NoTicket /\ new.receipt = panel.receipt /\ new.runtime = panel.runtime
    BY <1>0, NothingIs DEF Panels
  <2>2. Become(new)
    BY <1>5
  <2> HIDE DEF new
  <2> QED BY <1>0, <2>1, <2>2, RenderedSame
<1>6. ASSUME Become([panel EXCEPT !.ticket = NoTicket]) PROVE Consistent(panel', Register)
  <2> DEFINE new == [panel EXCEPT !.ticket = NoTicket]
  <2>1. new \in Panels /\ new.ticket = NoTicket /\ new.receipt = panel.receipt /\ new.runtime = panel.runtime
    BY <1>0, NothingIs DEF Panels
  <2>2. Become(new)
    BY <1>6
  <2> HIDE DEF new
  <2> QED BY <1>0, <2>1, <2>2, RenderedSame
<1>7. ASSUME NEW r \in Runtimes, RuntimeKnown(r, Register), Become([panel EXCEPT !.runtime = r])
      PROVE  Consistent(panel', Register)
  <2> DEFINE new == [panel EXCEPT !.runtime = r]
  <2>1. new \in Panels /\ new.ticket = panel.ticket /\ new.receipt = panel.receipt /\ new.runtime = r
    BY <1>0 DEF Panels
  <2>2. Become(new)
    BY <1>7
  <2> HIDE DEF new
  <2> QED BY <1>7, <2>1, <2>2, RenderedSame
<1>8. CASE \E l \in runtimeLoads : Loaded(l)
  <2>1. PICK l \in runtimeLoads : Loaded(l)
    BY <1>8
  <2>2. l.runtime \in Runtimes /\ RuntimeKnown(l.runtime, Register)
    BY DEF PanelInv, PanelTypes, UnderWay
  <2>3. NoRuntime \in Runtimes /\ RuntimeKnown(NoRuntime, Register)
    BY NothingIs DEF RuntimeKnown
  <2>4. Become([panel EXCEPT !.runtime = l.runtime]) \/ Become([panel EXCEPT !.runtime = NoRuntime])
    BY <1>1, <2>1 DEF Loaded
  <2> QED BY <1>7, <2>2, <2>3, <2>4
<1>9. CASE \E r \in RunIds : SelectRun(r)
  BY <1>3, <1>9 DEF SelectRun
<1>10. CASE (\E g \in Groups : SelectGroup(g)) \/ Edit \/ Cancel
  BY <1>2, <1>4, <1>5, <1>6, <1>10 DEF SelectGroup, Edit, Cancel
<1>11. CASE Prepared \/ ReceiptPolled
  BY <1>11, PreparedKept, ReceiptPolledKept
<1>12. CASE Executed
  <2>1. executing # NoExecute /\ executing.answer # NoReceipt /\ Become(Completed)
    BY <1>1, <1>12 DEF Executed
  <2> QED BY <2>1, ExecutedKept
<1> QED BY <1>1, <1>8, <1>9, <1>10, <1>11, <1>12 DEF PanelNext, panelVars, PanelSteps, Preflight, Prepare,
      Execute, PollReceipt, RouteWrites, Poll, PrepareRoute, ExecuteRoute, ExecuteLost, Elsewhere, Restart, Take, Act,
      WorkerEndsIt, Performed, PanelUntouched

-----------------------------------------------------------------------------
(* RunPanel: what is under way. *)

\* Nothing is under way.
LEMMA NothingAsked ==
    /\ NoAsking \in Askings /\ NoAsking.op = 0 /\ 0 \notin Ops /\ -1 \notin Ops
    /\ NoExecute \in Executes /\ NoExecute.ticket = NoTicket /\ NoExecute.answer = NoReceipt
BY NothingIs DEF NoAsking, Askings, Kinds, Scopes, Settings, NoExecute, Executes, SomeGroup, Ops

Loads == [kind : {"poll", "load"}, runtime : Runtimes]

\* Loads bring what the backend knows.
LEMMA LoadsKept ==
    ASSUME PanelInv, [PanelNext]_panelVars
    PROVE  runtimeLoads' \subseteq Loads /\ \A l \in runtimeLoads' : RuntimeKnown(l.runtime, Register)
<1>1. PanelTypes /\ runtimeLoads \subseteq Loads /\ \A l \in runtimeLoads : RuntimeKnown(l.runtime, Register)
  BY DEF PanelInv, PanelTypes, UnderWay, Loads
<1>2. CASE runtimeLoads' \subseteq runtimeLoads
  BY <1>1, <1>2
<1>3. ASSUME NEW which \in {"poll", "load"}, NEW g \in Groups,
             runtimeLoads' \subseteq runtimeLoads \cup {[kind |-> which, runtime |-> Runtime(g)]}
      PROVE  runtimeLoads' \subseteq Loads /\ \A l \in runtimeLoads' : RuntimeKnown(l.runtime, Register)
  <2> DEFINE n == [kind |-> which, runtime |-> Runtime(g)]
  <2>1. n \in Loads /\ RuntimeKnown(n.runtime, Register)
    BY <1>1, RuntimeIs DEF Loads
  <2> HIDE DEF n
  <2>2. \A l \in runtimeLoads' : l \in runtimeLoads \/ l = n
    BY <1>3 DEF n
  <2> QED BY <1>1, <2>1, <2>2
<1>4. CASE Poll
  <2>1. panel.selectedGroup \in Groups
    BY PanelParts DEF PanelInv, Consistent
  <2> QED BY <1>3, <1>4, <2>1 DEF Poll
<1>5. CASE Executed
  <2>1. executing.group \in Groups
    BY <1>5, ExecutingIs DEF Executed
  <2>2. \/ runtimeLoads' = runtimeLoads
        \/ runtimeLoads' = {l \in runtimeLoads : l.kind = "poll"}
                           \cup {[kind |-> "load", runtime |-> Runtime(executing.group)]}
    BY <1>5 DEF Executed
  <2> QED BY <1>2, <1>3, <2>1, <2>2
<1>6. CASE (\E l \in runtimeLoads : Loaded(l)) \/ \E g \in Groups : SelectGroup(g)
  BY <1>2, <1>6 DEF Loaded, SelectGroup
<1>7. \/ runtimeLoads' = runtimeLoads \/ Poll \/ Executed
      \/ (\E l \in runtimeLoads : Loaded(l)) \/ \E g \in Groups : SelectGroup(g)
  BY DEF PanelNext, panelVars, PanelSteps, SelectRun, Edit, Preflight, Prepare, Cancel, Execute, Prepared, PollReceipt,
         ReceiptPolled, RouteWrites, PrepareRoute, ExecuteRoute, ExecuteLost, Elsewhere, Restart, Take, Act, WorkerEndsIt,
         Performed, PanelUntouched
<1> QED BY <1>2, <1>4, <1>5, <1>6, <1>7

AskingOk(a, named) ==
    /\ a \in Askings
    /\ a # NoAsking => a.scope \in Groups \X RunIds
    /\ a.op \in Ops => <<a.op, a.scope[1]>> \in named

\* What keeps the panel busy is about the group it was asked for.
LEMMA AskingKept ==
    ASSUME PanelInv, [PanelNext]_panelVars PROVE AskingOk(asking', Register')
<1>0. PanelTypes /\ AskingOk(asking, Register) /\ Register \subseteq Register'
  BY ServerKept DEF PanelInv, PanelTypes, UnderWay, AskingOk
<1>1. CASE asking' = asking
  BY <1>0, <1>1 DEF AskingOk
<1>2. CASE asking' = NoAsking
  BY <1>2, NothingAsked DEF AskingOk
<1>3. ASSUME NEW what \in Actions \cup {"preflight"}, NEW i \in Settings,
             asking' = [what |-> what, scope |-> Scope(panel), inputs |-> i, op |-> 0]
      PROVE  AskingOk(asking', Register')
  <2>1. Scope(panel) \in Groups \X RunIds
    BY PanelParts DEF PanelInv, Consistent
  <2> QED BY <1>3, <2>1, NothingAsked DEF AskingOk, Askings, Kinds, Scopes
<1>4. /\ Inputs(panel) \in Settings /\ panel.reduction \in Settings
  BY DEF PanelInv, Consistent, Panels, Inputs, Settings, Runtimes
<1>5. CASE Preflight
  BY <1>3, <1>4, <1>5 DEF Preflight
<1>6. ASSUME NEW a \in Actions, Prepare(a) PROVE AskingOk(asking', Register')
  <2>1. asking' = [what |-> a, scope |-> Scope(panel), op |-> 0,
                   inputs |-> IF a = "flatten" THEN panel.reduction ELSE Inputs(panel)]
    BY <1>6 DEF Prepare
  <2>2. asking' = [what |-> a, scope |-> Scope(panel), op |-> 0, inputs |-> panel.reduction]
        \/ asking' = [what |-> a, scope |-> Scope(panel), op |-> 0, inputs |-> Inputs(panel)]
    BY <2>1
  <2> QED BY <1>3, <1>4, <2>2
<1>7. CASE PrepareRoute
  <2>1. asking # NoAsking /\ asking.scope \in Groups \X RunIds /\ asking \in Askings
    BY <1>0, <1>7 DEF PrepareRoute, AskingOk
  <2>2. CASE asking' = [asking EXCEPT !.op = -1] \/ asking' = [asking EXCEPT !.op = -1, !.what = "refused"]
    BY <2>1, <2>2, NothingAsked DEF AskingOk, Askings, Kinds
  <2>3. ASSUME NEW i \in Ops, asking' = [asking EXCEPT !.op = i],
               op' = [op EXCEPT ![i] = [NoOp EXCEPT !.status = "prepared", !.action = asking.what,
                                             !.group = asking.scope[1], !.inputs = asking.inputs,
                                             !.run = IF asking.what = "start" THEN i ELSE run[asking.scope[1]].last]]
        PROVE  AskingOk(asking', Register')
    <3>1. op'[i].status = "prepared" /\ op'[i].group = asking.scope[1]
      BY <1>0, <2>3 DEF NoOp, PanelTypes
    <3>2. <<i, asking.scope[1]>> \in Register'
      BY <3>1, RegisterIs
    <3>3. asking' \in Askings /\ asking'.op = i /\ asking'.scope = asking.scope
      BY <2>1, <2>3 DEF Askings
    <3> QED BY <2>1, <3>2, <3>3 DEF AskingOk
  <2> QED BY <1>7, <2>2, <2>3 DEF PrepareRoute
<1>8. \/ asking' = asking \/ asking' = NoAsking \/ Preflight \/ PrepareRoute \/ \E a \in Offered : Prepare(a)
  BY DEF PanelNext, panelVars, PanelSteps, SelectGroup, SelectRun, Edit, Cancel, Execute, Prepared, PollReceipt,
         ReceiptPolled, RouteWrites, ExecuteRoute, ExecuteLost, Elsewhere, Executed, Poll, Loaded, Restart, Take, Act,
         WorkerEndsIt, Performed, PanelUntouched
<1> QED BY <1>1, <1>2, <1>5, <1>6, <1>7, <1>8, OfferedAssumption

ExecuteOk(e, named) ==
    /\ e \in Executes /\ TicketKnown(e.ticket, named)
    /\ e # NoExecute => e.ticket # NoTicket /\ e.group = e.ticket.scope[1]
    /\ e.answer # NoReceipt => e.answer.op = e.ticket.op /\ e.answer.group = e.group

\* An execute and its answer are about the ticket.
LEMMA ExecuteKept ==
    ASSUME PanelInv, [PanelNext]_panelVars PROVE ExecuteOk(executing', Register')
<1>0. PanelTypes /\ ExecuteOk(executing, Register) /\ Register \subseteq Register'
  BY ServerKept DEF PanelInv, PanelTypes, UnderWay, ExecuteOk
<1>1. CASE executing' = executing
  BY <1>0, <1>1 DEF ExecuteOk, TicketKnown
<1>2. CASE executing' = NoExecute
  BY <1>2, NothingAsked DEF ExecuteOk, TicketKnown
<1>3. CASE Execute
  <2>1. /\ executing' = [ticket |-> panel.ticket, group |-> panel.selectedGroup, at |-> "asked", answer |-> NoReceipt]
        /\ panel.ticket # NoTicket
    BY <1>3 DEF Execute, MayExecute
  <2>2. /\ panel.ticket \in Tickets /\ panel.selectedGroup \in Groups /\ TicketKnown(panel.ticket, Register)
        /\ panel.ticket.scope[1] = panel.selectedGroup
    BY <2>1, PanelParts DEF PanelInv, Consistent, TicketFits
  <2> QED BY <1>0, <2>1, <2>2, NothingIs DEF ExecuteOk, Executes, SomeGroup, TicketKnown
<1>4. ASSUME executing # NoExecute, NEW a \in Receipts, a.op = executing.ticket.op,
             a.group = executing.group, Answered(a)
      PROVE  ExecuteOk(executing', Register')
  BY <1>0, <1>4, NothingAsked DEF Answered, ExecuteOk, Executes, TicketKnown
<1>5. ASSUME executing # NoExecute, NEW s \in Statuses
      PROVE  /\ Said(s) \in Receipts /\ Said(s).op = executing.ticket.op /\ Said(s).group = executing.group
  BY <1>5, ExecutingIs, NothingIs DEF Said, Receipts, SomeGroup
<1>6. {"processing", "completed", "error", "unknown", "refused"} \subseteq Statuses
  BY DEF Statuses, Open
<1>7. CASE ExecuteRoute
  <2> DEFINE i == executing.ticket.op
  <2>1. executing # NoExecute
    BY <1>7 DEF ExecuteRoute, NoExecute
  <2>2. i \in Ops /\ op[i].group = executing.group
    BY <2>1, ExecutingIs
  <2>3. Receipt(i) \in Receipts /\ Receipt(i).op = i /\ Receipt(i).group = executing.group
    BY <1>0, <2>2, ReceiptIs
  <2>4. \/ Answered(Said("processing")) \/ Answered(Said("refused")) \/ Answered(Receipt(i))
        \/ executing' = [executing EXCEPT !.at = "held"]
    BY <1>7 DEF ExecuteRoute
  <2>5. CASE Answered(Said("processing")) \/ Answered(Said("refused")) \/ Answered(Receipt(i))
    BY <1>4, <1>5, <1>6, <2>1, <2>3, <2>5
  <2>6. CASE executing' = [executing EXCEPT !.at = "held"]
    <3>1. executing' \in Executes /\ executing'.ticket = executing.ticket
      BY <1>0, <2>6 DEF ExecuteOk, Executes
    <3>2. executing'.group = executing.group /\ executing'.answer = executing.answer
      BY <1>0, <2>6 DEF ExecuteOk, Executes
    <3> QED BY <1>0, <2>1, <3>1, <3>2 DEF ExecuteOk, TicketKnown
  <2> QED BY <2>4, <2>5, <2>6
<1>8. CASE ExecuteLost
  <2>1. executing # NoExecute /\ (Answered(Said("unknown")) \/ Answered(Said("refused")))
    BY <1>8 DEF ExecuteLost
  <2> QED BY <1>4, <1>5, <1>6, <2>1
<1>9. ASSUME NEW i \in Ops, Performed(i) PROVE ExecuteOk(executing', Register')
  <2>1. PICK b : IF executing.ticket.op = i /\ executing.at = "held" /\ executing.answer = NoReceipt
                 THEN Answered([Said(StatusOf(b)) EXCEPT !.run = RunNamed(i, b)]) ELSE UNCHANGED executing
    BY <1>9 DEF Performed
  <2>2. CASE UNCHANGED executing
    BY <1>1, <2>2
  <2>3. CASE executing.at = "held" /\ Answered([Said(StatusOf(b)) EXCEPT !.run = RunNamed(i, b)])
    <3> DEFINE a == Said(StatusOf(b))
    <3>1. executing # NoExecute
      BY <2>3 DEF NoExecute
    <3>2. StatusOf(b) \in Statuses /\ RunNamed(i, b) \in RunIds
      BY <1>0, <1>6, ReceiptIs
    <3>3. a \in Receipts /\ a.op = executing.ticket.op /\ a.group = executing.group
      BY <1>5, <3>1, <3>2
    <3>4. Answered([a EXCEPT !.run = RunNamed(i, b)])
      BY <2>3
    <3> HIDE DEF a
    <3>5. /\ [a EXCEPT !.run = RunNamed(i, b)] \in Receipts
          /\ [a EXCEPT !.run = RunNamed(i, b)].op = a.op /\ [a EXCEPT !.run = RunNamed(i, b)].group = a.group
      BY <3>2, <3>3 DEF Receipts
    <3> QED BY <1>4, <3>1, <3>3, <3>4, <3>5
  <2> QED BY <2>1, <2>2, <2>3
<1>10. \/ executing' = executing \/ executing' = NoExecute \/ Execute \/ ExecuteRoute \/ ExecuteLost
       \/ \E i \in Ops : Performed(i)
  BY DEF PanelNext, panelVars, PanelSteps, SelectGroup, SelectRun, Edit, Preflight, Prepare, Cancel, Prepared, PollReceipt,
         RouteWrites, ReceiptPolled, PrepareRoute, Elsewhere, Executed, Poll, Loaded, Restart, Take, Act, WorkerEndsIt,
         PanelUntouched
<1> QED BY <1>1, <1>2, <1>3, <1>7, <1>8, <1>9, <1>10

PollOk(p, named) ==
    /\ p \in Polls /\ ReceiptKnown(p.receipt, named)
    /\ p # NoPoll => p.receipt # NoReceipt /\ p.receipt.status # "none"

\* A polled receipt is the backend's.
LEMMA PolledKept ==
    ASSUME PanelInv, [PanelNext]_panelVars PROVE PollOk(polled', Register')
<1>0. PanelTypes /\ PollOk(polled, Register) /\ Register \subseteq Register'
  BY ServerKept DEF PanelInv, PanelTypes, UnderWay, PollOk
<1>1. CASE polled' = polled
  BY <1>0, <1>1 DEF PollOk, ReceiptKnown
<1>2. CASE polled' = NoPoll
  BY <1>2, NothingIs DEF PollOk, ReceiptKnown, NoPoll, Polls
<1>3. CASE PollReceipt
  <2> DEFINE i == panel.receipt.op
             rb == Recorded(i)
             unknown == [Receipt(i) EXCEPT !.status = "unknown"]
             said == [Receipt(i) EXCEPT !.status = StatusOf(rb), !.run = RunNamed(i, rb)]
  <2>1. i \in Ops /\ op[i].status # "none"
    BY <1>3, PanelParts DEF PanelInv, Consistent, Receipts, PollReceipt, Unsettled
  <2>2. /\ Receipt(i) \in Receipts /\ Receipt(i).op = i /\ Receipt(i).group = op[i].group
        /\ Receipt(i).status = op[i].status
        /\ RunNamed(i, rb) \in RunIds /\ StatusOf(rb) \in {"completed", "error", "unknown"}
    BY <1>0, <2>1, ReceiptIs
  <2>3. <<i, op[i].group>> \in Register'
    BY <1>0, <2>1, RegisterIs
  <2>4. ASSUME NEW r \in Receipts, r.op = i, r.group = op[i].group, r.status # "none",
               NEW at \in {"said", "answered"}, polled' = [at |-> at, receipt |-> r]
        PROVE  PollOk(polled', Register')
    <3>1. r # NoReceipt
      BY <2>1, <2>4, NothingIs, RunIdsAre
    <3> HIDE DEF i
    <3> QED BY <2>3, <2>4, <3>1 DEF PollOk, Polls, ReceiptKnown
  <2>5. \/ polled' = [at |-> "answered", receipt |-> Receipt(i)]
        \/ polled' = [at |-> "answered", receipt |-> unknown]
        \/ polled' = [at |-> "said", receipt |-> said]
    BY <1>3 DEF PollReceipt
  <2> HIDE DEF rb
  <2>6. unknown \in Receipts /\ unknown.op = i /\ unknown.group = op[i].group /\ unknown.status = "unknown"
    BY <2>2 DEF Receipts, Statuses, Open
  <2>7. said \in Receipts /\ said.op = i /\ said.group = op[i].group /\ said.status = StatusOf(rb)
    BY <2>2 DEF Receipts, Statuses, Open
  <2> HIDE DEF i, unknown, said
  <2> QED BY <2>1, <2>2, <2>4, <2>5, <2>6, <2>7
<1>4. CASE RouteWrites
  <2>1. polled' = [polled EXCEPT !.at = "answered"] /\ polled # NoPoll
    BY <1>4 DEF RouteWrites, NoPoll
  <2>2. polled' \in Polls /\ polled'.receipt = polled.receipt
    BY <1>0, <2>1 DEF PollOk, Polls
  <2> QED BY <1>0, <2>1, <2>2 DEF PollOk, ReceiptKnown
<1>5. polled' = polled \/ polled' = NoPoll \/ PollReceipt \/ RouteWrites
  BY DEF PanelNext, panelVars, PanelSteps, SelectGroup, SelectRun, Edit, Preflight, Prepare, Cancel, Execute, Prepared,
         ReceiptPolled, PrepareRoute, ExecuteRoute, ExecuteLost, Elsewhere, Executed, Poll, Loaded, Restart, Take, Act,
         WorkerEndsIt, Performed, PanelUntouched
<1> QED BY <1>1, <1>2, <1>3, <1>4, <1>5

\* Nothing is named, shown or under way at first.
LEMMA PanelStart == PanelInit => PanelInv
<1> SUFFICES ASSUME PanelInit PROVE PanelInv
  OBVIOUS
<1>0. /\ \E busy \in Groups \cup {"none"} :
           run = [g \in Groups |-> IF g = busy THEN [last |-> Earlier, alive |-> TRUE, runs |-> {Earlier}, config |-> "v1"]
                                  ELSE [last |-> 0, alive |-> FALSE, runs |-> {}, config |-> "v1"]]
      /\ op = [i \in Ops |-> NoOp] /\ expired = {}
      /\ runtimeLoads = {} /\ asking = NoAsking /\ executing = NoExecute /\ polled = NoPoll
  BY DEF PanelInit
<1>1. NoOp \in Operations
  BY RunIdsAre DEF NoOp, Operations, Statuses, Kinds, SomeGroup, Settings, Books
<1>2. PanelTypes
  <2>1. run \in [Groups -> GroupRuns]
    BY <1>0, RunIdsAre DEF GroupRuns
  <2>2. polled \in Polls
    BY <1>0, NothingIs DEF NoPoll, Polls
  <2> QED BY <1>0, <1>1, <2>1, <2>2, NothingIs, NothingAsked DEF PanelTypes
<1>3. PICK g \in Groups :
         panel = [selectedGroup |-> g, selectedRuns |-> [h \in Groups |-> 0], runtime |-> NoRuntime,
                  own |-> FALSE, reduction |-> "all",
                  ticket |-> NoTicket, receipt |-> NoReceipt]
  BY DEF PanelInit
<1>4. panel \in Panels /\ panel.ticket = NoTicket /\ panel.receipt = NoReceipt /\ panel.runtime = NoRuntime
  BY <1>3, NothingIs, RunIdsAre DEF Panels, Settings
<1>5. Consistent(panel, Register)
  BY <1>4, NothingIs DEF Consistent, TicketFits, ReceiptFits, RuntimeKnown, TicketKnown, ReceiptKnown
<1>6. UnderWay(Register)
  BY <1>0, NothingIs, NothingAsked DEF UnderWay, TicketKnown, ReceiptKnown, NoPoll
<1> QED BY <1>2, <1>5, <1>6 DEF PanelInv

\* Every step keeps the invariant.
LEMMA PanelKept == PanelInv /\ [PanelNext]_panelVars => PanelInv'
<1> SUFFICES ASSUME PanelInv, [PanelNext]_panelVars PROVE PanelInv'
  OBVIOUS
<1>1. PanelTypes'
  BY ServerKept, LoadsKept, AskingKept, ExecuteKept, PolledKept DEF PanelTypes, Loads, AskingOk, ExecuteOk, PollOk
<1>2. Consistent(panel, Register)'
  BY ConsistentKept
<1>3. \A l \in runtimeLoads' : RuntimeKnown(l.runtime, Register')
  BY ServerKept, LoadsKept DEF RuntimeKnown
<1>4. UnderWay(Register)'
  BY <1>3, AskingKept, ExecuteKept, PolledKept DEF UnderWay, AskingOk, ExecuteOk, PollOk
<1> QED BY <1>1, <1>2, <1>4 DEF PanelInv

\* The ticket on the screen is for the group, the run and, for a start, the settings shown, however
\* late it was prepared and whatever was selected, loaded or started since (TicketIsCurrent:
\* prepare, the effects of StrategyRunPanel).
THEOREM TicketsAreCurrent == PanelInit /\ [][PanelNext]_panelVars => []TicketIsCurrent
<1>1. PanelInv => TicketIsCurrent
  BY DEF PanelInv, Consistent, TicketFits, TicketIsCurrent
<1> QED BY <1>1, PanelStart, PanelKept, PTL

\* A receipt is shown with the group it is about, and one of a start with its run selected
\* (ReceiptIsCurrent: onComplete, refreshReceipt, the effects of StrategyRunPanel).
THEOREM ReceiptsAreCurrent == PanelInit /\ [][PanelNext]_panelVars => []ReceiptIsCurrent
<1>1. PanelInv => ReceiptIsCurrent
  BY DEF PanelInv, Consistent, ReceiptFits, ReceiptIsCurrent
<1> QED BY <1>1, PanelStart, PanelKept, PTL

-----------------------------------------------------------------------------
(* Workspace: the tabs, the layout and the route. *)

\* A list of tabs as it should be: no page twice, the pinned ones in it, and within the limit.
TabList(tabs) ==
    /\ tabs \in Seq(Pages) /\ IsInjective(tabs)
    /\ PinnedSet \subseteq ToSet(tabs) /\ Len(tabs) <= TabLimit

TabTypes ==
    /\ pathname \in Pages /\ going \in Pages \cup {NoPage}
    /\ front \in Pages \cup {NoPage, EventsTab} /\ aside \in BOOLEAN
    /\ closingPath \in {NoPage, pathname} /\ due \in BOOLEAN
    /\ dock \subseteq Pages /\ shut \subseteq Pages

\* While the tab of the route is being closed the browser is on its way to another page. The
\* closed pages have no tab, and the route is one of them only then.
Departing ==
    /\ closingPath # NoPage => going \notin {NoPage, pathname}
    /\ due /\ going # NoPage => closingPath = pathname
    /\ going \notin shut /\ (pathname \in shut => closingPath = pathname)

TabsInv ==
    /\ TabTypes /\ TabList(paths) /\ PinnedSet \subseteq dock
    /\ Departing /\ ClosedStaysClosed /\ RouteHasTab

\* One element taken out of a list.
LEMMA TakenOut ==
    ASSUME NEW s \in Seq(Pages), IsInjective(s), NEW i \in 1 .. Len(s)
    PROVE  /\ RemoveAt(s, i) \in Seq(Pages) /\ Len(RemoveAt(s, i)) = Len(s) - 1
           /\ IsInjective(RemoveAt(s, i)) /\ ToSet(RemoveAt(s, i)) = ToSet(s) \ {s[i]}
<1> DEFINE r == RemoveAt(s, i)
           n == Len(s)
<1>1. n \in Nat /\ i - 1 \in 0 .. n /\ i + 1 \in 1 .. n + 1
  OBVIOUS
<1> DEFINE a == SubSeq(s, 1, i - 1)
           b == SubSeq(s, i + 1, n)
<1>2. /\ a \in Seq(Pages) /\ Len(a) = i - 1 /\ \A j \in 1 .. i - 1 : a[j] = s[j]
      /\ b \in Seq(Pages) /\ Len(b) = n - i /\ \A j \in 1 .. n - i : b[j] = s[i + j]
  BY <1>1
<1>9. r = a \o b
  BY DEF RemoveAt
<1> HIDE DEF a, b, r
<1>10. /\ r \in Seq(Pages) /\ Len(r) = n - 1
       /\ \A j \in 1 .. i - 1 : r[j] = a[j]
       /\ \A j \in i .. n - 1 : r[j] = b[j - (i - 1)]
  <2>1. /\ r \in Seq(Pages) /\ Len(r) = Len(a) + Len(b)
        /\ \A j \in 1 .. Len(a) + Len(b) : r[j] = IF j <= Len(a) THEN a[j] ELSE b[j - Len(a)]
    BY <1>2, <1>9, ConcatProperties
  <2>2. Len(a) = i - 1 /\ Len(a) + Len(b) = n - 1 /\ i - 1 \in Nat /\ n - 1 \in Nat /\ i \in Nat /\ i - 1 <= n - 1
    BY <1>1, <1>2
  <2>3. \A j \in 1 .. n - 1 : r[j] = IF j <= i - 1 THEN a[j] ELSE b[j - (i - 1)]
    BY <2>1, <2>2
  <2>4. \A j \in 1 .. i - 1 : j \in 1 .. n - 1 /\ j <= i - 1
    BY <2>2
  <2>5. \A j \in i .. n - 1 : j \in 1 .. n - 1 /\ ~(j <= i - 1)
    BY <1>1, <2>2
  <2> QED BY <2>1, <2>2, <2>3, <2>4, <2>5
<1>3. /\ r \in Seq(Pages) /\ Len(r) = n - 1
      /\ \A j \in 1 .. n - 1 : r[j] = IF j < i THEN s[j] ELSE s[j + 1]
  <2>1. ASSUME NEW j \in 1 .. n - 1, j < i PROVE r[j] = s[j]
    BY <1>1, <1>2, <1>10, <2>1
  <2>2. ASSUME NEW j \in 1 .. n - 1, ~(j < i) PROVE r[j] = s[j + 1]
    <3>1. j \in i .. n - 1 /\ j - (i - 1) \in 1 .. n - i /\ i + (j - (i - 1)) = j + 1
      BY <1>1, <2>2
    <3> QED BY <1>2, <1>10, <3>1
  <2> QED BY <1>10, <2>1, <2>2
<1>4. DOMAIN r = 1 .. n - 1 /\ DOMAIN s = 1 .. n
  BY <1>3
<1>5. IsInjective(r)
  <2>1. SUFFICES ASSUME NEW j \in 1 .. n - 1, NEW k \in 1 .. n - 1, r[j] = r[k] PROVE j = k
    BY <1>4 DEF IsInjective
  <2>2. \A x, y \in 1 .. n : s[x] = s[y] => x = y
    BY <1>4 DEF IsInjective
  <2>3. /\ j \in 1 .. n /\ j + 1 \in 1 .. n /\ k \in 1 .. n /\ k + 1 \in 1 .. n
    BY <1>1
  <2> QED BY <1>1, <1>3, <2>1, <2>2, <2>3
<1>6. \A j \in 1 .. n : j # i => \E k \in 1 .. n - 1 : r[k] = s[j]
  <2> TAKE j \in 1 .. n
  <2> HAVE j # i
  <2>1. CASE j < i
    BY <1>1, <1>3, <2>1
  <2>2. CASE j > i
    <3>1. j - 1 \in 1 .. n - 1 /\ ~(j - 1 < i) /\ (j - 1) + 1 = j
      BY <1>1, <2>2
    <3> QED BY <1>3, <3>1
  <2> QED BY <2>1, <2>2
<1>7. \A k \in 1 .. n - 1 : \E j \in 1 .. n : j # i /\ r[k] = s[j]
  BY <1>1, <1>3
<1>8. ToSet(r) = ToSet(s) \ {s[i]}
  <2>1. \A x, y \in 1 .. n : s[x] = s[y] => x = y
    BY <1>4 DEF IsInjective
  <2>2. ToSet(r) = {r[k] : k \in 1 .. n - 1} /\ ToSet(s) = {s[j] : j \in 1 .. n}
    BY <1>4 DEF ToSet
  <2>3. \A e \in ToSet(r) : e \in ToSet(s) /\ e # s[i]
    BY <1>7, <2>1, <2>2
  <2>4. \A e \in ToSet(s) : e # s[i] => e \in ToSet(r)
    BY <1>6, <2>2
  <2> QED BY <2>3, <2>4
<1> QED BY <1>3, <1>5, <1>8 DEF r

\* The first element that is not pinned.
LEMMA Oldest ==
    ASSUME NEW s \in Seq(Pages), NEW k \in 1 .. Len(s), s[k] \notin PinnedSet
    PROVE  LET i == SelectInSeq(s, LAMBDA q : q \notin PinnedSet)
           IN  i \in 1 .. Len(s) /\ s[i] \notin PinnedSet /\ i <= k
<1> DEFINE I == {j \in 1 .. Len(s) : s[j] \notin PinnedSet}
<1>1. SelectInSeq(s, LAMBDA q : q \notin PinnedSet) = Min(I)
  BY DEF SelectInSeq
<1>2. k \in I /\ I \subseteq Nat
  OBVIOUS
<1>3. \E i \in I : \A j \in I : i <= j
  <2> HIDE DEF I
  <2> QED BY <1>2, Smallest
<1>4. Min(I) \in I /\ \A j \in I : Min(I) <= j
  BY <1>3 DEF Min
<1> QED BY <1>1, <1>2, <1>4

\* A full list has a tab that is not pinned: there are fewer pinned ones than tabs.
LEMMA SomeUnpinned ==
    ASSUME NEW tabs, TabList(tabs), Len(tabs) = TabLimit
    PROVE  \E k \in 1 .. Len(tabs) : tabs[k] \notin PinnedSet
<1> SUFFICES ASSUME \A k \in 1 .. Len(tabs) : tabs[k] \in PinnedSet PROVE FALSE
  OBVIOUS
<1> DEFINE m == Len(Pinned)
           n == Len(tabs)
           f == [k \in 1 .. n |-> CHOOSE j \in 1 .. m : Pinned[j] = tabs[k]]
<1>1. m \in Nat /\ n \in Nat /\ m < n
  BY WorkspaceAssumption DEF TabList
<1>2. \A k \in 1 .. n : f[k] \in 1 .. m /\ Pinned[f[k]] = tabs[k]
  <2> TAKE k \in 1 .. n
  <2>1. tabs[k] \in {Pinned[j] : j \in DOMAIN Pinned}
    BY DEF PinnedSet, ToSet
  <2>2. DOMAIN Pinned = 1 .. m
    BY WorkspaceAssumption
  <2>3. \E j \in 1 .. m : Pinned[j] = tabs[k]
    BY <2>1, <2>2
  <2> QED BY <2>3
<1>3. f \in [1 .. n -> 1 .. m]
  BY <1>2
<1>4. /\ IsFiniteSet(1 .. n) /\ Cardinality(1 .. n) = n
      /\ IsFiniteSet(1 .. m) /\ Cardinality(1 .. m) = m
  <2> HIDE DEF f, m, n
  <2>1. 1 \in Int /\ m \in Int /\ n \in Int
    BY <1>1
  <2>2. /\ IsFiniteSet(1 .. n) /\ Cardinality(1 .. n) = IF 1 > n THEN 0 ELSE n - 1 + 1
        /\ IsFiniteSet(1 .. m) /\ Cardinality(1 .. m) = IF 1 > m THEN 0 ELSE m - 1 + 1
    BY <2>1, FS_Interval
  <2> QED BY <1>1, <2>2
<1>5. \E x, y \in 1 .. n : x # y /\ f[x] = f[y]
  <2> HIDE DEF f, m, n
  <2> QED BY <1>1, <1>3, <1>4, FS_PigeonHole
<1>6. \A x, y \in 1 .. n : tabs[x] = tabs[y] => x = y
  BY DEF TabList, IsInjective
<1> HIDE DEF f
<1> QED BY <1>2, <1>5, <1>6

\* A tab is opened.
LEMMA OpenedIs ==
    ASSUME NEW tabs, TabList(tabs), NEW p \in Pages
    PROVE  /\ TabList(Opened(tabs, p)) /\ p \in ToSet(Opened(tabs, p))
           /\ ToSet(Opened(tabs, p)) \subseteq ToSet(tabs) \cup {p}
<1> DEFINE next == Append(tabs, p)
           n == Len(tabs)
           oldest == SelectInSeq(next, LAMBDA q : q \notin PinnedSet)
<1>1. CASE p \in ToSet(tabs)
  BY <1>1 DEF Opened
<1>2. CASE p \notin ToSet(tabs)
  <2>1. /\ next \in Seq(Pages) /\ Len(next) = n + 1 /\ n \in Nat /\ n <= TabLimit /\ TabLimit \in Nat
        /\ next[n + 1] = p /\ \A i \in 1 .. n : next[i] = tabs[i]
    BY WorkspaceAssumption DEF TabList
  <2>2. DOMAIN next = 1 .. n + 1 /\ DOMAIN tabs = 1 .. n
    BY <2>1 DEF TabList
  <2> HIDE DEF next
  <2>3. ToSet(next) = ToSet(tabs) \cup {p}
    <3>1. 1 .. n + 1 = (1 .. n) \cup {n + 1}
      BY <2>1
    <3> QED BY <2>1, <2>2, <3>1 DEF ToSet
  <2>4. IsInjective(next)
    BY <1>2, <2>1, <2>2 DEF IsInjective, ToSet, TabList
  <2>5. CASE n + 1 > TabLimit
    <3>1. n = TabLimit
      BY <2>1, <2>5
    <3>2. PICK k \in 1 .. n : tabs[k] \notin PinnedSet
      BY <3>1, SomeUnpinned
    <3>3. k \in 1 .. Len(next) /\ next[k] \notin PinnedSet
      BY <2>1, <3>2
    <3>4. oldest \in 1 .. Len(next) /\ next[oldest] \notin PinnedSet /\ oldest <= k
      BY <2>1, <3>3, Oldest
    <3>5. Opened(tabs, p) = RemoveAt(next, oldest)
      BY <1>2, <2>1, <2>5 DEF Opened, next
    <3> HIDE DEF oldest
    <3>6. next[oldest] # p
      BY <1>2, <2>1, <2>2, <3>4 DEF ToSet
    <3>7. /\ RemoveAt(next, oldest) \in Seq(Pages) /\ Len(RemoveAt(next, oldest)) = n
          /\ IsInjective(RemoveAt(next, oldest)) /\ ToSet(RemoveAt(next, oldest)) = ToSet(next) \ {next[oldest]}
      BY <2>1, <2>4, <3>4, TakenOut
    <3> QED BY <2>1, <2>3, <3>4, <3>5, <3>6, <3>7 DEF TabList
  <2>6. CASE ~(n + 1 > TabLimit)
    <3>1. Opened(tabs, p) = next
      BY <1>2, <2>1, <2>6 DEF Opened, next
    <3> QED BY <2>1, <2>3, <2>4, <2>6, <3>1 DEF TabList
  <2> QED BY <2>5, <2>6
<1> QED BY <1>1, <1>2

\* The stored tabs are opened one after another: there is such a function.
LEMMA ReducedIs ==
    ASSUME NEW saved \in Seq(Pages)
    PROVE  Reduced(saved) = [i \in 0 .. Len(saved) |-> IF i = 0 THEN Pinned ELSE Opened(Reduced(saved)[i - 1], saved[i])]
<1> DEFINE Fits(g, m) == g = [i \in 0 .. m |-> IF i = 0 THEN Pinned ELSE Opened(g[i - 1], saved[i])]
           Bad == {m \in 0 .. Len(saved) : ~ \E g : Fits(g, m)}
<1>1. Reduced(saved) = CHOOSE g : Fits(g, Len(saved))
  BY Zenon DEF Reduced
<1>2. Len(saved) \in Nat /\ Bad \subseteq Nat
  OBVIOUS
<1>3. SUFFICES ASSUME Bad # {} PROVE FALSE
  <2>1. ASSUME Bad = {} PROVE \E g : Fits(g, Len(saved))
    <3> HIDE DEF Fits
    <3> QED BY <1>2, <2>1
  <2> QED BY <1>1, <2>1
<1>4. PICK m \in Bad : \A k \in Bad : m <= k
  <2> HIDE DEF Bad
  <2> QED BY <1>2, <1>3, Smallest
<1>5. m # 0
  <2>1. Fits([i \in {0} |-> Pinned], 0)
    OBVIOUS
  <2> HIDE DEF Fits
  <2> QED BY <1>4, <2>1
<1>6. m \in 1 .. Len(saved) /\ m - 1 \in 0 .. Len(saved) /\ m - 1 \notin Bad
  <2>1. m \in 0 .. Len(saved)
    BY <1>4
  <2>2. m \in 1 .. Len(saved) /\ m - 1 \in 0 .. Len(saved) /\ ~(m <= m - 1)
    BY <1>2, <1>5, <2>1
  <2> HIDE DEF Bad
  <2> QED BY <1>4, <2>2
<1>7. PICK g : Fits(g, m - 1)
  <2> HIDE DEF Fits
  <2> QED BY <1>6
<1> DEFINE h == [i \in 0 .. m |-> IF i < m THEN g[i] ELSE Opened(g[m - 1], saved[m])]
<1>8. Fits(h, m)
  <2>1. /\ \A i \in 0 .. m - 1 : h[i] = g[i]
        /\ h[m] = Opened(g[m - 1], saved[m])
    BY <1>6
  <2>2. \A i \in 0 .. m - 1 : g[i] = IF i = 0 THEN Pinned ELSE Opened(g[i - 1], saved[i])
    BY <1>6, <1>7
  <2>3. h = [i \in 0 .. m |-> h[i]]
    OBVIOUS
  <2> HIDE DEF h
  <2>4. \A i \in 0 .. m : i = m \/ i = 0 \/ (i \in 0 .. m - 1 /\ i - 1 \in 0 .. m - 1)
    BY <1>6
  <2>5. m - 1 \in 0 .. m - 1 /\ 0 \in 0 .. m - 1
    BY <1>6
  <2>6. \A i \in 0 .. m : h[i] = IF i = 0 THEN Pinned ELSE Opened(h[i - 1], saved[i])
    BY <1>5, <2>1, <2>2, <2>4, <2>5
  <2> QED BY <2>3, <2>6
<1> HIDE DEF Fits
<1> QED BY <1>4, <1>8

\* What is loaded is a list as it should be, of the pinned and the saved tabs.
LEMMA StoredIs ==
    ASSUME TabList(paths)
    PROVE  TabList(StoredTabs) /\ ToSet(StoredTabs) \subseteq ToSet(paths)
<1> DEFINE tabs == Reduced(paths)
           n == Len(paths)
           Good(m) == TabList(tabs[m]) /\ ToSet(tabs[m]) \subseteq ToSet(paths)
           Bad == {m \in 0 .. n : ~Good(m)}
<1>1. paths \in Seq(Pages) /\ n \in Nat /\ Bad \subseteq Nat /\ PinnedSet \subseteq ToSet(paths)
  BY DEF TabList
<1>2. \A i \in 0 .. n : tabs[i] = IF i = 0 THEN Pinned ELSE Opened(tabs[i - 1], paths[i])
  <2>1. tabs = [i \in 0 .. n |-> IF i = 0 THEN Pinned ELSE Opened(tabs[i - 1], paths[i])]
    BY <1>1, ReducedIs
  <2> HIDE DEF tabs
  <2> QED BY <2>1
<1> HIDE DEF tabs
<1>3. Good(0)
  <2>1. tabs[0] = Pinned
    BY <1>1, <1>2
  <2>2. TabList(Pinned)
    BY WorkspaceAssumption DEF TabList, PinnedSet
  <2> QED BY <1>1, <2>1, <2>2 DEF PinnedSet
<1>4. ASSUME NEW m \in 1 .. n, Good(m - 1) PROVE Good(m)
  <2>1. tabs[m] = Opened(tabs[m - 1], paths[m])
    BY <1>1, <1>2
  <2>2. paths[m] \in Pages /\ paths[m] \in ToSet(paths)
    BY <1>1 DEF ToSet
  <2> QED BY <1>4, <2>1, <2>2, OpenedIs
<1> HIDE DEF Good
<1>5. Bad = {}
  <2>1. SUFFICES ASSUME Bad # {} PROVE FALSE
    OBVIOUS
  <2>2. PICK m \in Bad : \A k \in Bad : m <= k
    <3> HIDE DEF Bad
    <3> QED BY <1>1, <2>1, Smallest
  <2>3. m \in 1 .. n /\ m - 1 \in 0 .. n
    BY <1>1, <1>3, <2>2
  <2>4. m - 1 \notin Bad
    BY <1>1, <2>2, <2>3
  <2> QED BY <1>4, <2>2, <2>3, <2>4
<1>6. Good(n)
  BY <1>1, <1>5
<1> QED BY <1>6 DEF Good, StoredTabs, tabs

\* The tabs but one: there is such a function.
LEMMA FilteredIs ==
    ASSUME NEW tabs \in Seq(Pages), NEW p
    PROVE  Filtered(tabs, p) = [i \in 0 .. Len(tabs) |-> IF i = 0 THEN <<>>
               ELSE IF tabs[i] = p THEN Filtered(tabs, p)[i - 1] ELSE Append(Filtered(tabs, p)[i - 1], tabs[i])]
<1> DEFINE More(s, i) == IF tabs[i] = p THEN s ELSE Append(s, tabs[i])
           Fits(g, m) == g = [i \in 0 .. m |-> IF i = 0 THEN <<>> ELSE More(g[i - 1], i)]
           Bad == {m \in 0 .. Len(tabs) : ~ \E g : Fits(g, m)}
<1>1. Filtered(tabs, p) = CHOOSE g : Fits(g, Len(tabs))
  BY Zenon DEF Filtered
<1>2. Len(tabs) \in Nat /\ Bad \subseteq Nat
  OBVIOUS
<1>3. SUFFICES ASSUME Bad # {} PROVE FALSE
  <2>1. ASSUME Bad = {} PROVE \E g : Fits(g, Len(tabs))
    <3> HIDE DEF Fits
    <3> QED BY <1>2, <2>1
  <2>2. ASSUME Bad = {} PROVE Fits(Filtered(tabs, p), Len(tabs))
    <3> HIDE DEF Fits
    <3> QED BY <1>1, <2>1, <2>2
  <2> QED BY <2>2
<1>4. PICK m \in Bad : \A k \in Bad : m <= k
  <2> HIDE DEF Bad
  <2> QED BY <1>2, <1>3, Smallest
<1>5. m # 0
  <2>1. Fits([i \in {0} |-> <<>>], 0)
    OBVIOUS
  <2> HIDE DEF Fits
  <2> QED BY <1>4, <2>1
<1>6. m \in 1 .. Len(tabs) /\ m - 1 \in 0 .. Len(tabs) /\ m - 1 \notin Bad
  <2>1. m \in 0 .. Len(tabs)
    BY <1>4
  <2>2. m \in 1 .. Len(tabs) /\ m - 1 \in 0 .. Len(tabs) /\ ~(m <= m - 1)
    BY <1>2, <1>5, <2>1
  <2> HIDE DEF Bad
  <2> QED BY <1>4, <2>2
<1>7. PICK g : Fits(g, m - 1)
  <2> HIDE DEF Fits
  <2> QED BY <1>6
<1> DEFINE h == [i \in 0 .. m |-> IF i < m THEN g[i] ELSE More(g[m - 1], m)]
<1>8. Fits(h, m)
  <2> HIDE DEF More
  <2>1. /\ \A i \in 0 .. m - 1 : h[i] = g[i]
        /\ h[m] = More(g[m - 1], m)
    BY <1>6
  <2>2. \A i \in 0 .. m - 1 : g[i] = IF i = 0 THEN <<>> ELSE More(g[i - 1], i)
    BY <1>6, <1>7
  <2>3. h = [i \in 0 .. m |-> h[i]]
    OBVIOUS
  <2> HIDE DEF h
  <2>4. \A i \in 0 .. m : i = m \/ i = 0 \/ (i \in 0 .. m - 1 /\ i - 1 \in 0 .. m - 1)
    BY <1>6
  <2>5. m - 1 \in 0 .. m - 1 /\ 0 \in 0 .. m - 1
    BY <1>6
  <2>6. \A i \in 0 .. m : h[i] = IF i = 0 THEN <<>> ELSE More(h[i - 1], i)
    BY <1>5, <2>1, <2>2, <2>4, <2>5
  <2> QED BY <2>3, <2>6
<1> HIDE DEF Fits
<1> QED BY <1>4, <1>8

\* The list without a page that is not pinned.
LEMMA WithoutIs ==
    ASSUME NEW tabs, TabList(tabs), NEW p \in Pages \ PinnedSet
    PROVE  /\ TabList(Without(tabs, p)) /\ ToSet(Without(tabs, p)) = ToSet(tabs) \ {p}
           /\ Len(Without(tabs, p)) >= Len(tabs) - 1
<1> DEFINE kept == Filtered(tabs, p)
           n == Len(tabs)
           Good(m) == /\ kept[m] \in Seq(Pages) /\ IsInjective(kept[m])
                      /\ ToSet(kept[m]) = {tabs[i] : i \in 1 .. m} \ {p}
                      /\ m - 1 <= Len(kept[m]) /\ Len(kept[m]) <= m
                      /\ (\A i \in 1 .. m : tabs[i] # p) => Len(kept[m]) = m
           Bad == {m \in 0 .. n : ~Good(m)}
<1>1. tabs \in Seq(Pages) /\ n \in Nat /\ Bad \subseteq Nat /\ DOMAIN tabs = 1 .. n
  BY DEF TabList
<1>2. \A i \in 0 .. n : kept[i] = IF i = 0 THEN <<>> ELSE IF tabs[i] = p THEN kept[i - 1] ELSE Append(kept[i - 1], tabs[i])
  <2>1. kept = [i \in 0 .. n |-> IF i = 0 THEN <<>> ELSE IF tabs[i] = p THEN kept[i - 1] ELSE Append(kept[i - 1], tabs[i])]
    BY <1>1, FilteredIs
  <2> HIDE DEF kept
  <2> QED BY <2>1
<1> HIDE DEF kept
<1>3. Good(0)
  <2>1. kept[0] = <<>>
    BY <1>1, <1>2
  <2>2. ToSet(<<>>) = {} /\ IsInjective(<<>>) /\ {tabs[i] : i \in 1 .. 0} = {}
    BY DEF ToSet, IsInjective
  <2> QED BY <2>1, <2>2
<1>4. ASSUME NEW m \in 1 .. n, Good(m - 1) PROVE Good(m)
  <2> DEFINE k == kept[m - 1]
             l == Len(k)
  <2>1. k \in Seq(Pages) /\ IsInjective(k) /\ l \in Nat /\ DOMAIN k = 1 .. l
    BY <1>4
  <2>2. ToSet(k) = {tabs[i] : i \in 1 .. m - 1} \ {p}
    BY <1>4
  <2>3. m - 2 <= l /\ l <= m - 1 /\ ((\A i \in 1 .. m - 1 : tabs[i] # p) => l = m - 1)
    BY <1>1, <1>4
  <2>4. kept[m] = IF tabs[m] = p THEN k ELSE Append(k, tabs[m])
    BY <1>1, <1>2
  <2>5. m \in 1 .. m /\ tabs[m] \in Pages /\ {tabs[i] : i \in 1 .. m} = {tabs[i] : i \in 1 .. m - 1} \cup {tabs[m]}
    BY <1>1
  <2>6. \A i \in 1 .. m - 1 : tabs[i] # tabs[m]
    BY <1>1 DEF TabList, IsInjective
  <2> HIDE DEF k, l
  <2>7. CASE tabs[m] = p
    <3>1. \A i \in 1 .. m - 1 : tabs[i] # p
      BY <2>6, <2>7
    <3>2. kept[m] = k /\ Len(kept[m]) = l /\ l = m - 1
      BY <2>3, <2>4, <2>7, <3>1 DEF l
    <3>3. ToSet(kept[m]) = {tabs[i] : i \in 1 .. m} \ {p}
      BY <2>2, <2>5, <2>7, <3>2
    <3>4. m - 1 <= l /\ l <= m /\ ~ \A i \in 1 .. m : tabs[i] # p
      BY <1>1, <2>5, <2>7, <3>2
    <3> QED BY <2>1, <3>2, <3>3, <3>4
  <2>8. CASE tabs[m] # p
    <3> DEFINE a == Append(k, tabs[m])
    <3>1. a \in Seq(Pages) /\ Len(a) = l + 1 /\ a[l + 1] = tabs[m] /\ \A i \in 1 .. l : a[i] = k[i]
      BY <2>1, <2>5 DEF l
    <3>2. DOMAIN a = 1 .. l + 1 /\ 1 .. l + 1 = (1 .. l) \cup {l + 1}
      BY <2>1, <3>1
    <3> HIDE DEF a
    <3>3. ToSet(a) = ToSet(k) \cup {tabs[m]}
      BY <2>1, <3>1, <3>2 DEF ToSet
    <3>4. tabs[m] \notin ToSet(k)
      BY <2>2, <2>6
    <3>5. IsInjective(a)
      BY <2>1, <3>1, <3>2, <3>4 DEF IsInjective, ToSet
    <3>6. ToSet(a) = {tabs[i] : i \in 1 .. m} \ {p}
      BY <2>2, <2>5, <2>8, <3>3
    <3>7. kept[m] = a
      BY <2>4, <2>8 DEF a
    <3>8. m - 1 <= l + 1 /\ l + 1 <= m /\ ((\A i \in 1 .. m : tabs[i] # p) => l + 1 = m)
      BY <1>1, <2>1, <2>3
    <3> QED BY <3>1, <3>5, <3>6, <3>7, <3>8
  <2> QED BY <2>7, <2>8
<1>5. Bad = {}
  <2> HIDE DEF Good
  <2>1. SUFFICES ASSUME Bad # {} PROVE FALSE
    OBVIOUS
  <2>2. PICK m \in Bad : \A k \in Bad : m <= k
    <3> HIDE DEF Bad
    <3> QED BY <1>1, <2>1, Smallest
  <2>3. m \in 1 .. n /\ m - 1 \in 0 .. n
    BY <1>1, <1>3, <2>2
  <2>4. m - 1 \notin Bad
    BY <1>1, <2>2, <2>3
  <2> QED BY <1>4, <2>2, <2>3, <2>4
<1>6. Good(n)
  <2> HIDE DEF Good
  <2> QED BY <1>1, <1>5
<1>7. Without(tabs, p) = kept[n] /\ ToSet(tabs) = {tabs[i] : i \in 1 .. n}
  BY <1>1 DEF Without, kept, ToSet
<1>8. n <= TabLimit /\ TabLimit \in Nat /\ PinnedSet \subseteq ToSet(tabs) \ {p}
  BY WorkspaceAssumption DEF TabList
<1> QED BY <1>1, <1>6, <1>7, <1>8 DEF TabList

\* The page that is active after a tab is closed is another one that has a tab.
LEMMA NeighbourIs ==
    ASSUME TabList(paths), pathname \in Pages, NEW p \in Pages \ PinnedSet
    PROVE  /\ pathname # p => Neighbour(paths, p) = pathname
           /\ pathname = p => Neighbour(paths, p) \in ToSet(paths) \ {p}
<1> DEFINE rest == Without(paths, p)
           at == SelectInSeq(paths, LAMBDA q : q = p)
           j == IF at > 2 THEN at - 1 ELSE 1
<1>1. Neighbour(paths, p) = IF pathname # p THEN pathname ELSE rest[j]
  BY DEF Neighbour
<1>2. at \in 0 .. Len(paths) /\ Len(paths) \in Nat
  <2> DEFINE I == {i \in 1 .. Len(paths) : paths[i] = p}
  <2>1. at = IF I # {} THEN Min(I) ELSE 0
    BY DEF SelectInSeq
  <2>2. Len(paths) \in Nat /\ I \subseteq Nat
    BY DEF TabList
  <2>3. ASSUME I # {} PROVE Min(I) \in I
    <3>1. \E i \in I : \A k \in I : i <= k
      <4> HIDE DEF I
      <4> QED BY <2>2, <2>3, Smallest
    <3> QED BY <3>1 DEF Min
  <2> QED BY <2>1, <2>2, <2>3
<1>3. TabList(rest) /\ ToSet(rest) = ToSet(paths) \ {p} /\ Len(rest) >= Len(paths) - 1
  BY WithoutIs
<1> HIDE DEF rest, at
<1>4. rest \in Seq(Pages) /\ Len(rest) \in Nat /\ Len(rest) >= 1
  <2>1. Pinned[1] \in PinnedSet
    BY WorkspaceAssumption DEF PinnedSet, ToSet
  <2>2. rest # <<>>
    BY <1>3, <2>1 DEF TabList, ToSet
  <2> QED BY <1>3, <2>2 DEF TabList
<1>5. j \in 1 .. Len(rest)
  BY <1>2, <1>3, <1>4
<1>6. rest[j] \in ToSet(rest)
  BY <1>4, <1>5 DEF ToSet
<1> QED BY <1>1, <1>3, <1>6

\* The effect for the route p, which is not the one that is being left.
LEMMA EffectShows ==
    ASSUME TabList(paths), PinnedSet \subseteq dock, dock \subseteq Pages, NEW p \in Pages, closingPath # p,
           TabEffect(p, paths, dock)
    PROVE  /\ TabList(paths') /\ p \in ToSet(paths') /\ ToSet(paths') \subseteq ToSet(paths) \cup {p}
           /\ dock' = dock \cup ToSet(paths') /\ dock' \subseteq Pages
           /\ front' = p /\ closingPath' = NoPage
<1>1. paths' = Opened(paths, p) /\ dock' = dock \cup ToSet(paths') /\ front' = p /\ closingPath' = NoPage
  BY DEF TabEffect
<1>2. ToSet(paths) \subseteq Pages
  BY DEF TabList, ToSet
<1> QED BY <1>1, <1>2, OpenedIs

\* Nothing is left, closed or shown at first but the pinned tabs.
LEMMA TabsStart == WorkspaceInit => TabsInv
<1> SUFFICES ASSUME WorkspaceInit PROVE TabsInv
  OBVIOUS
<1>1. /\ pathname \in Pages /\ going = NoPage /\ paths = Pinned /\ dock = PinnedSet /\ front = NoPage
      /\ closingPath = NoPage /\ due = TRUE /\ shut = {} /\ aside = FALSE
  BY DEF WorkspaceInit
<1>2. PinnedSet \subseteq Pages
  BY WorkspaceAssumption DEF PinnedSet, ToSet
<1>3. TabList(paths)
  BY <1>1, WorkspaceAssumption DEF TabList, PinnedSet
<1> QED BY <1>1, <1>2, <1>3, WorkspaceAssumption
        DEF TabsInv, TabTypes, Departing, ClosedStaysClosed, RouteHasTab, Quiet, NoPage

\* Every step keeps the tabs, the layout and the route together.
LEMMA TabsStep == TabsInv /\ [WorkspaceNext]_workspaceVars => TabsInv'
<1> SUFFICES ASSUME TabsInv, [WorkspaceNext]_workspaceVars PROVE TabsInv'
  OBVIOUS
<1>1. /\ TabTypes /\ TabList(paths) /\ PinnedSet \subseteq dock
      /\ Departing /\ ClosedStaysClosed /\ RouteHasTab /\ NoPage \notin Pages
  BY WorkspaceAssumption DEF TabsInv, NoPage
<1>2. CASE UNCHANGED workspaceVars
  BY <1>1, <1>2 DEF workspaceVars, TabsInv, TabTypes, TabList, Departing, ClosedStaysClosed, RouteHasTab, Quiet
<1>3. ASSUME going # NoPage, pathname' = going, going' = NoPage, due' = FALSE,
             TabEffect(going, paths, dock), UNCHANGED <<shut, aside>>
      PROVE  TabsInv'
  <2>1. going \in Pages /\ closingPath # going /\ going \notin shut
    BY <1>1, <1>3 DEF TabTypes, Departing
  <2>2. /\ TabList(paths') /\ going \in ToSet(paths') /\ ToSet(paths') \subseteq ToSet(paths) \cup {going}
        /\ dock' = dock \cup ToSet(paths') /\ dock' \subseteq Pages
        /\ front' = going /\ closingPath' = NoPage
    BY <1>1, <1>3, <2>1, EffectShows DEF TabTypes
  <2>3. TabTypes'
    BY <1>1, <1>3, <2>1, <2>2 DEF TabTypes
  <2>4. Departing'
    BY <1>1, <1>3, <2>1, <2>2 DEF Departing, TabTypes
  <2>5. ClosedStaysClosed'
    BY <1>1, <1>3, <2>1, <2>2 DEF ClosedStaysClosed
  <2>6. RouteHasTab' /\ PinnedSet \subseteq dock' /\ TabList(paths)'
    BY <1>1, <1>3, <2>2 DEF RouteHasTab, TabList
  <2> QED BY <2>3, <2>4, <2>5, <2>6 DEF TabsInv
<1>4. ASSUME due, due' = FALSE, TabEffect(pathname, paths, dock),
             UNCHANGED <<pathname, going, shut, aside>>
      PROVE  TabsInv'
  <2>1. CASE closingPath = pathname
    <3>1. UNCHANGED <<paths, dock, front, closingPath>>
      BY <1>4, <2>1 DEF TabEffect
    <3>2. going # NoPage
      BY <1>1, <2>1 DEF Departing, TabTypes
    <3> QED BY <1>1, <1>4, <2>1, <3>1, <3>2
            DEF TabsInv, TabTypes, TabList, Departing, ClosedStaysClosed, RouteHasTab, Quiet
  <2>2. CASE closingPath # pathname
    <3>1. going = NoPage /\ pathname \in Pages /\ pathname \notin shut
      BY <1>1, <1>4, <2>2 DEF TabTypes, Departing
    <3>2. /\ TabList(paths') /\ pathname \in ToSet(paths') /\ ToSet(paths') \subseteq ToSet(paths) \cup {pathname}
          /\ dock' = dock \cup ToSet(paths') /\ dock' \subseteq Pages
          /\ front' = pathname /\ closingPath' = NoPage
      BY <1>1, <1>4, <2>2, <3>1, EffectShows DEF TabTypes
    <3>3. TabTypes'
      BY <1>1, <1>4, <3>1, <3>2 DEF TabTypes
    <3>4. Departing'
      BY <1>1, <1>4, <3>1, <3>2 DEF Departing, TabTypes
    <3>5. ClosedStaysClosed'
      BY <1>1, <1>4, <3>1, <3>2 DEF ClosedStaysClosed
    <3>6. RouteHasTab' /\ PinnedSet \subseteq dock' /\ TabList(paths)'
      BY <1>1, <1>4, <3>2 DEF RouteHasTab, TabList
    <3> QED BY <3>3, <3>4, <3>5, <3>6 DEF TabsInv
  <2> QED BY <2>1, <2>2
<1>5. ASSUME NEW p \in Pages, Go(p) PROVE TabsInv'
  <2>1. /\ going = NoPage /\ ~due /\ p # pathname /\ going' = p /\ shut' = shut \ {p}
        /\ aside' = FALSE /\ front' \in {p, front} /\ UNCHANGED <<pathname, paths, dock, closingPath, due>>
    BY <1>5 DEF Go, Quiet
  <2>2. closingPath = NoPage /\ pathname \in Pages
    BY <1>1, <1>5 DEF Go, Quiet, RouteHasTab, Departing, TabTypes, ClosedStaysClosed, TabList
  <2> QED BY <1>1, <2>1, <2>2
          DEF TabsInv, TabTypes, TabList, Departing, ClosedStaysClosed, RouteHasTab, Quiet
<1>6. ASSUME NEW p \in Pages, CloseTab(p) PROVE TabsInv'
  <2> DEFINE next == Neighbour(paths, p)
  <2>1. /\ Quiet /\ p \in dock /\ p \in Pages \ PinnedSet
        /\ closingPath' = IF next = pathname THEN closingPath ELSE pathname
        /\ going' = IF next = pathname THEN NoPage ELSE next
        /\ paths' = Without(paths, p) /\ dock' = dock \ {p} /\ due' = TRUE
        /\ shut' = (shut \cup {p}) \ {going'} /\ aside' \in BOOLEAN /\ UNCHANGED <<pathname, front>>
    BY <1>6 DEF CloseTab, Leaving
  <2>2. pathname \in Pages /\ TabList(paths) /\ pathname \notin shut /\ ToSet(paths) \subseteq Pages
    BY <1>1, <2>1 DEF TabTypes, RouteHasTab, ClosedStaysClosed, TabList, ToSet
  <2>3. /\ pathname # p => next = pathname
        /\ pathname = p => next \in ToSet(paths) \ {p}
    BY <2>1, <2>2, NeighbourIs
  <2>4. TabList(paths') /\ ToSet(paths') = ToSet(paths) \ {p}
    BY <2>1, <2>2, WithoutIs
  <2> HIDE DEF next
  <2>5. closingPath = NoPage
    BY <1>1, <2>1 DEF Departing, TabTypes, Quiet
  <2>6. TabTypes'
    BY <1>1, <2>1, <2>2, <2>3, <2>5 DEF TabTypes
  <2>7. Departing'
    BY <1>1, <2>1, <2>2, <2>3, <2>5 DEF Departing, TabTypes, ClosedStaysClosed
  <2>8. ClosedStaysClosed' /\ PinnedSet \subseteq dock'
    BY <1>1, <2>1, <2>4 DEF ClosedStaysClosed
  <2>9. RouteHasTab' /\ TabList(paths)'
    BY <2>1, <2>4 DEF RouteHasTab, Quiet, TabList
  <2> QED BY <2>6, <2>7, <2>8, <2>9 DEF TabsInv
<1>7. CASE Reload
  <2>1. /\ Quiet /\ due' = TRUE /\ closingPath' = NoPage /\ paths' = Opened(StoredTabs, pathname)
        /\ dock' \in {dock, PinnedSet} /\ aside' = FALSE /\ UNCHANGED <<pathname, going, front, shut>>
    BY <1>7 DEF Reload
  <2>2. pathname \in Pages /\ pathname \in ToSet(paths)
    BY <1>1, <2>1 DEF TabTypes, RouteHasTab
  <2>3. TabList(paths') /\ ToSet(paths') \subseteq ToSet(paths)
    BY <1>1, <2>1, <2>2, StoredIs, OpenedIs
  <2>4. going = NoPage /\ pathname \notin shut
    BY <1>1, <2>1, <2>2 DEF Quiet, ClosedStaysClosed
  <2>5. TabTypes' /\ PinnedSet \subseteq dock'
    BY <1>1, <2>1 DEF TabTypes
  <2>6. Departing'
    BY <1>1, <2>1, <2>4 DEF Departing, TabTypes
  <2>7. ClosedStaysClosed'
    BY <1>1, <2>1, <2>3 DEF ClosedStaysClosed
  <2>8. RouteHasTab' /\ TabList(paths)'
    BY <2>1, <2>3 DEF RouteHasTab, Quiet, TabList
  <2> QED BY <2>5, <2>6, <2>7, <2>8 DEF TabsInv
<1>8. ASSUME NEW tab \in Pages \cup {EventsTab}, SelectTab(tab) PROVE TabsInv'
  <2>1. /\ tab \in {EventsTab, pathname} /\ front' = tab /\ aside' = (tab = EventsTab)
        /\ UNCHANGED <<pathname, going, paths, dock, closingPath, due, shut>>
    BY <1>8 DEF SelectTab
  <2>2. TabTypes'
    BY <1>1, <2>1 DEF TabTypes
  <2>3. TabList(paths)' /\ Departing' /\ ClosedStaysClosed' /\ PinnedSet \subseteq dock'
    BY <1>1, <2>1 DEF TabList, Departing, ClosedStaysClosed
  <2>4. RouteHasTab'
    BY <1>1, <2>1 DEF RouteHasTab, Quiet
  <2> QED BY <2>2, <2>3, <2>4 DEF TabsInv
<1> QED BY <1>2, <1>3, <1>4, <1>5, <1>6, <1>7, <1>8 DEF WorkspaceNext, Render

\* A list without a page twice has as many pages as it is long.
LEMMA PagesCounted == ASSUME TabList(paths) PROVE TabsBounded
<1>1. DOMAIN paths = 1 .. Len(paths) /\ Len(paths) \in Nat /\ Len(paths) <= TabLimit /\ IsInjective(paths)
  BY DEF TabList
<1>2. paths \in [1 .. Len(paths) -> ToSet(paths)] /\ \A e \in ToSet(paths) : \E i \in 1 .. Len(paths) : paths[i] = e
  BY <1>1 DEF ToSet, TabList
<1>3. paths \in Bijection(1 .. Len(paths), ToSet(paths))
  BY <1>1, <1>2 DEF Bijection, Injection, Surjection, IsInjective
<1>4. Cardinality(ToSet(paths)) = Len(paths)
  BY <1>1, <1>3, FS_CountingElements DEF ExistsBijection
<1> QED BY <1>1, <1>4 DEF TabsBounded

\* The tabs of the workspace (QuantWorkspace.tsx): when all is rendered the route has a tab, which
\* is the selected one unless the operator has selected the events since, and every open tab is in the
\* layout; there are never more tabs than the
\* limit, nor two of a page; and a closed tab stays closed until the operator goes to its page.
THEOREM TabsFollow == WorkspaceInit /\ [][WorkspaceNext]_workspaceVars => []TabsFollowRoute
<1>1. TabsInv => TabsFollowRoute
  BY PagesCounted DEF TabsInv, TabsFollowRoute
<1> QED BY <1>1, TabsStart, TabsStep, PTL
=============================================================================
