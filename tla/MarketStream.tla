---------------------------- MODULE MarketStream ----------------------------
(***************************************************************************)
(* The market data of one chart: useMarket.ts with its MarketBuffer. Each  *)
(* change of instrument starts a new effect, a generation, which loads a   *)
(* snapshot and follows a WebSocket that reconnects; what an effect has    *)
(* begun may answer when a later one runs. A quote is a version of the     *)
(* market of an instrument.                                                *)
(***************************************************************************)
EXTENDS Integers, FiniteSets, Sequences

CONSTANTS
    Instruments,
    MaxSockets,     \* bound: connections made
    MaxTicks,       \* bound: versions of the market of an instrument
    MaxUpsets       \* bound: other instruments, connections that break, pages hidden, sessions that fail

ASSUME MarketAssumption == {MaxSockets, MaxTicks, MaxUpsets} \subseteq Nat

VARIABLES
    market,         \* by instrument, its version at the exchange
    effects,        \* the effects so far; the last is the one that is not disposed
    quote,          \* what the page shows: the ticker, the candles, connected
    requests,       \* the snapshot and the candles of an effect, on their way
    sockets,        \* the connections made so far
    hides,          \* how often the page was hidden
    failed,         \* a connect could not get a session
    upsets

marketVars == <<market, effects, quote, requests, sockets, hides, failed, upsets>>

None == [of |-> "none", at |-> 0, from |-> "none"]
Blank == [ticker |-> None, candles |-> None, connected |-> FALSE]

\* Seeded fault: the effect connects twice.
Effect0_Twice(i) ==
    [instrument |-> i, suspended |-> FALSE, socket |-> 0, timers |-> 0, connecting |-> 2, pending |-> None]

\* socket is the variable of the closure, which knows only the last connection. connecting
\* counts the connects that wait for a session, timers the reconnects to come.
Effect0(i) ==
    [instrument |-> i, suspended |-> FALSE, socket |-> 0, timers |-> 0, connecting |-> 1, pending |-> None]

Generation == Len(effects)
Current == effects[Generation]

Started(i, n) == {[gen |-> n, what |-> w, value |-> None] : w \in {"snapshot", "candles"}}

MarketInit ==
    /\ market = [i \in Instruments |-> 1]
    /\ \E i \in Instruments : effects = <<Effect0(i)>> /\ requests = Started(i, 1)
    /\ quote = Blank /\ sockets = <<>> /\ hides = 0 /\ failed = FALSE /\ upsets = 0

-----------------------------------------------------------------------------
\* close() of the connection that the closure knows; its onclose comes later.
Closing(s) == IF s = 0 \/ sockets[s].pc = "closed" THEN sockets ELSE [sockets EXCEPT ![s].pc = "closing"]

\* clearTimeout knows the last timer only.
Cleared(e) == [e EXCEPT !.timers = IF @ > 0 THEN @ - 1 ELSE 0]

\* Another instrument: the effect is cleaned up and the next one starts from nothing.
SelectInstrument(i) ==
    /\ i # Current.instrument /\ upsets < MaxUpsets /\ upsets' = upsets + 1
    /\ sockets' = Closing(Current.socket)
    /\ effects' = Append([effects EXCEPT ![Generation] = Cleared(@)], Effect0(i))
    /\ requests' = requests \cup Started(i, Generation + 1)
    /\ quote' = Blank
    /\ UNCHANGED <<market, hides, failed>>

\* candles_route asks the exchange; market_snapshot_route may answer with a snapshot that it has
\* kept since some page asked for it, and which is older than the market.
MarketAnswers(r, i) == IF r.what = "candles" THEN {market[i]} ELSE 1 .. market[i]

ReadMarket(r) ==
    /\ r \in requests /\ r.value = None
    /\ LET i == effects[r.gen].instrument
       IN  \E at \in MarketAnswers(r, i) :
             requests' = (requests \ {r}) \cup {[r EXCEPT !.value = [of |-> i, at |-> at, from |-> r.what]]}
    /\ UNCHANGED <<market, effects, quote, sockets, hides, failed, upsets>>

\* Seeded fault: an answer is not asked which effect wanted it.
Wanted_Any(r) == TRUE

\* disposed || current !== generation.current
Wanted(r) == r.gen = Generation

\* Seeded fault: the snapshot replaces what is there.
Bootstrapped_Always(value) == [quote EXCEPT !.ticker = value]

\* The snapshot fills what the stream has not brought yet.
Bootstrapped(value) == [quote EXCEPT !.ticker = IF @ = None THEN value ELSE @]

MarketAnswered(r) ==
    /\ r \in requests /\ r.value # None /\ requests' = requests \ {r}
    /\ quote' = IF ~Wanted(r) THEN quote
                ELSE IF r.what = "snapshot" THEN Bootstrapped(r.value) ELSE [quote EXCEPT !.candles = r.value]
    /\ UNCHANGED <<market, effects, sockets, hides, failed, upsets>>

-----------------------------------------------------------------------------
\* connect() once it has a session.
ConnectReady(n) ==
    /\ effects[n].connecting > 0
    /\ IF n = Generation /\ ~effects[n].suspended
       THEN /\ Len(sockets) < MaxSockets
            /\ sockets' = Append(sockets, [gen |-> n, pc |-> "opening", queue |-> <<>>, sent |-> 0])
            /\ effects' = [effects EXCEPT ![n].connecting = @ - 1, ![n].socket = Len(sockets) + 1]
       ELSE effects' = [effects EXCEPT ![n].connecting = @ - 1] /\ UNCHANGED sockets
    /\ UNCHANGED <<market, quote, requests, hides, failed, upsets>>

\* ensureSession fails; nobody tries again.
ConnectFails ==
    /\ Current.connecting > 0 /\ upsets < MaxUpsets /\ upsets' = upsets + 1 /\ failed' = TRUE
    /\ effects' = [effects EXCEPT ![Generation].connecting = @ - 1]
    /\ UNCHANGED <<market, quote, requests, sockets, hides>>

OnOpen(s) ==
    /\ sockets[s].pc = "opening" /\ sockets' = [sockets EXCEPT ![s].pc = "open"]
    /\ quote' = IF sockets[s].gen = Generation THEN [quote EXCEPT !.connected = TRUE] ELSE quote
    /\ UNCHANGED <<market, effects, requests, hides, failed, upsets>>

\* The exchange moves, and stream_route, which subscribes anew for each connection, passes on what
\* the exchange sends there.
Tick(i) ==
    /\ market[i] < MaxTicks /\ market' = [market EXCEPT ![i] = @ + 1]
    /\ UNCHANGED <<effects, quote, requests, sockets, hides, failed, upsets>>

Relay(s) ==
    /\ sockets[s].pc = "open"
    /\ LET i == effects[sockets[s].gen].instrument
       IN  /\ sockets[s].sent < market[i]
           /\ sockets' = [sockets EXCEPT ![s].sent = market[i], ![s].queue = Append(@, market[i])]
    /\ UNCHANGED <<market, effects, quote, requests, hides, failed, upsets>>

OnMessage(s) ==
    /\ sockets[s].pc = "open" /\ sockets[s].queue # <<>>
    /\ sockets' = [sockets EXCEPT ![s].queue = Tail(@)]
    /\ LET n == sockets[s].gen
       IN  effects' = IF n # Generation \/ effects[n].suspended THEN effects
                      ELSE [effects EXCEPT ![n].pending =
                               [of |-> effects[n].instrument, at |-> Head(sockets[s].queue), from |-> "stream"]]
    /\ UNCHANGED <<market, quote, requests, hides, failed, upsets>>

\* The interval: what MarketBuffer.drain() returns is merged.
Flush ==
    /\ Current.pending # None
    /\ quote' = [quote EXCEPT !.ticker = Current.pending]
    /\ effects' = [effects EXCEPT ![Generation].pending = None]
    /\ UNCHANGED <<market, requests, sockets, hides, failed, upsets>>

Break(s) ==
    /\ sockets[s].pc \in {"opening", "open"} /\ upsets < MaxUpsets /\ upsets' = upsets + 1
    /\ sockets' = Closing(s)
    /\ UNCHANGED <<market, effects, quote, requests, hides, failed>>

\* Seeded fault: a connection that is lost is not made again.
Lost_Quiet(e) == e

\* A connection that is lost is made again in three seconds.
Lost(e) == [e EXCEPT !.timers = @ + 1]

OnClose(s) ==
    /\ sockets[s].pc = "closing" /\ sockets' = [sockets EXCEPT ![s].pc = "closed", ![s].queue = <<>>]
    /\ LET n == sockets[s].gen
       IN  IF n # Generation \/ effects[n].suspended THEN UNCHANGED <<effects, quote>>
           ELSE /\ quote' = [quote EXCEPT !.connected = FALSE]
                /\ effects' = [effects EXCEPT ![n] = Lost(@)]
    /\ UNCHANGED <<market, requests, hides, failed, upsets>>

\* A reconnect of an effect that is over connects too, and finds itself disposed.
Reconnect(n) ==
    /\ effects[n].timers > 0
    /\ effects' = [effects EXCEPT ![n].timers = @ - 1, ![n].connecting = @ + 1]
    /\ UNCHANGED <<market, quote, requests, sockets, hides, failed, upsets>>

\* pagehide, and pageshow from the back/forward cache.
Hide ==
    /\ ~Current.suspended /\ upsets < MaxUpsets /\ upsets' = upsets + 1 /\ hides' = hides + 1
    /\ sockets' = Closing(Current.socket)
    /\ effects' = [effects EXCEPT ![Generation] = [Cleared(@) EXCEPT !.suspended = TRUE]]
    /\ UNCHANGED <<market, quote, requests, failed>>

Show ==
    /\ Current.suspended
    /\ effects' = [effects EXCEPT ![Generation].suspended = FALSE, ![Generation].connecting = @ + 1]
    /\ UNCHANGED <<market, quote, requests, sockets, hides, failed, upsets>>

-----------------------------------------------------------------------------
Connections == \/ \E n \in DOMAIN effects : ConnectReady(n) \/ Reconnect(n)
               \/ \E s \in DOMAIN sockets : OnOpen(s) \/ OnClose(s)

MarketNext ==
    \/ \E i \in Instruments : SelectInstrument(i) \/ Tick(i)
    \/ \E r \in requests : ReadMarket(r) \/ MarketAnswered(r)
    \/ Connections \/ ConnectFails \/ Flush \/ Hide \/ Show
    \/ \E s \in DOMAIN sockets : Relay(s) \/ OnMessage(s) \/ Break(s)

-----------------------------------------------------------------------------
MarketTypeOK ==
    /\ market \in [Instruments -> 1 .. MaxTicks] /\ Generation \in 1 .. MaxUpsets + 1
    /\ \A n \in DOMAIN effects :
         /\ effects[n].instrument \in Instruments /\ effects[n].suspended \in BOOLEAN
         /\ effects[n].socket \in 0 .. Len(sockets) /\ effects[n].timers \in Nat /\ effects[n].connecting \in Nat
    /\ \A s \in DOMAIN sockets : /\ sockets[s].pc \in {"opening", "open", "closing", "closed"}
                                 /\ sockets[s].gen \in DOMAIN effects
    /\ \A r \in requests : r.gen \in DOMAIN effects
    /\ quote.connected \in BOOLEAN /\ failed \in BOOLEAN /\ {hides, upsets} \subseteq 0 .. MaxUpsets

\* What a chart shows is of its instrument, whatever earlier effects still bring.
MarketIsSelected ==
    \A q \in {quote.ticker, quote.candles} : q = None \/ q.of = Current.instrument

\* Once the stream has brought a quote, an older one never replaces it ("Streaming data wins
\* if it arrived while the bootstrap request was in flight"). A page that was hidden may hold
\* two connections, see README.md.
StreamWins ==
    [][hides = 0 /\ quote.ticker.from = "stream" /\ Len(effects') = Generation
       => quote'.ticker.from = "stream" /\ quote'.ticker.at >= quote.ticker.at]_marketVars

\* A chart whose page is not hidden is connected in the end, however often its connection
\* breaks, if it always gets its session and the bound on connections is not met.
MarketReconnects == <>[](failed \/ Current.suspended \/ quote.connected \/ Len(sockets) = MaxSockets)

\* What a chart shows is of the selected instrument and goes forward with its stream.
ChartIsOfStream == []MarketIsSelected /\ StreamWins
=============================================================================
