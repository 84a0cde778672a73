------------------------------- MODULE WebApi -------------------------------
(***************************************************************************)
(* How a page of the web terminal reads and writes: the session and the    *)
(* shared reads of api.ts, the polling of usePoll.ts, and the status cache *)
(* of the web backend behind them (GroupRuntimeClient). The state of the   *)
(* runs is a version: an execute that takes effect makes the next one.     *)
(***************************************************************************)
EXTENDS Integers, FiniteSets, Sequences

CONSTANTS
    Operators,
    SlotCount,      \* bound: requests under way at once
    MaxVersion,     \* bound: executes
    MaxLogins,      \* bound: sessions there have been, the later ones by sign-ins in another tab
    MaxLosses       \* bound: connections that fail, tabs hidden and shown

ASSUME ApiAssumption ==
    /\ {SlotCount, MaxVersion, MaxLosses} \subseteq Nat /\ MaxLogins \in Nat \ {0}
    /\ Operators # {}

VARIABLES
    logins,         \* the operator of each session there has been
    cookie,         \* the browser's session, 0 when it has ended
    version,        \* what the supervisor would answer
    cache,          \* status_cache: the version kept, -1 for none
    shared,         \* status_pending: the request that asked the supervisor, 0 for none
    epoch,          \* status_epoch
    page,           \* "open", or "gone" to the sign-in or a reload
    session,        \* the page's session, 0 for undefined
    starting,       \* ensureSession is under way
    pendingReads,   \* by session (0: "pending"), the read under way that others join, 0 for none
    req,            \* the requests
    executes,
    acked,          \* the newest version an execute has reported to the page
    poll,           \* the request usePoll waits for, 0 when not inFlight
    visible,        \* visibilityState
    shown,          \* the version the page shows
    losses

apiServerVars == <<logins, cookie, version, cache, shared, epoch>>
apiVars == <<apiServerVars, page, session, starting, pendingReads, req, executes, acked, poll,
             visible, shown, losses>>

Slots == 1 .. SlotCount
RequestKinds == {"read", "query", "execute"}

\* pc is the page's side: it waits for a session ("session", or "refresh" after a mismatch)
\* or an answer ("sent"), or was denied one. at is the backend's: on its way, in the status
\* call ("status", task, epoch), at the supervisor, answered with a value. floor is what the
\* page knew when it made or joined the request.
Idle == [kind |-> "none", pc |-> "done", at |-> "none", id |-> 0, retried |-> FALSE,
         task |-> 0, epoch |-> 0, value |-> -1, floor |-> 0]

NoReads == [n \in 0 .. MaxLogins |-> 0]

ApiInit ==
    /\ logins = <<CHOOSE o \in Operators : TRUE>>
    /\ cookie = 1 /\ version = 0 /\ cache = -1 /\ shared = 0 /\ epoch = 0
    /\ page = "open" /\ session = 0 /\ starting = FALSE /\ pendingReads = NoReads
    /\ req = [s \in Slots |-> Idle] /\ executes = 0 /\ acked = 0
    /\ poll = 0 /\ visible = TRUE /\ shown = 0 /\ losses = 0

-----------------------------------------------------------------------------
(* The page: api(), request() and usePoll.                                 *)

\* The next free place among the requests.
Next1(s) == req[s] = Idle /\ \A t \in Slots : t < s => req[t] # Idle

\* request() up to its fetch: it waits for the session that is being read, takes the one it
\* has, or asks for one.
Request(s, kind) ==
    LET ready == ~starting /\ session # 0
    IN  /\ req' = [req EXCEPT ![s] = [Idle EXCEPT !.kind = kind, !.floor = acked, !.id = session,
                                      !.pc = IF ready THEN "sent" ELSE "session",
                                      !.at = IF ready THEN "net" ELSE "none"]]
        /\ starting' = (starting \/ session = 0)

\* api(path): the read under way is joined, or a new one is made and shared.
Read(s) ==
    IF pendingReads[session] # 0
    THEN /\ s = pendingReads[session] /\ req' = [req EXCEPT ![s].floor = acked]
         /\ UNCHANGED <<starting, pendingReads>>
    ELSE /\ Next1(s) /\ Request(s, "read")
         /\ pendingReads' = [pendingReads EXCEPT ![session] = s]

\* run() of usePoll: skipped while the tab is hidden or the last run is under way. What a
\* visibilitychange, a refresh or a queued run adds to the interval is a run that comes
\* sooner.
RunPoll(s) ==
    /\ page = "open" /\ visible /\ poll = 0
    /\ Read(s) /\ poll' = s
    /\ UNCHANGED <<apiServerVars, page, session, executes, acked, visible, shown, losses>>

\* The same read for another caller: the reload after a confirmation.
Load(s) ==
    /\ page = "open" /\ Read(s)
    /\ UNCHANGED <<apiServerVars, page, session, executes, acked, poll, visible, shown, losses>>

\* api(path, body): reads under way are no longer joined.
Write(s, kind) ==
    /\ page = "open" /\ Next1(s) /\ \A t \in Slots : req[t].kind # kind
    /\ kind = "execute" => executes < MaxVersion
    /\ executes' = IF kind = "execute" THEN executes + 1 ELSE executes
    /\ Request(s, kind) /\ pendingReads' = NoReads
    /\ UNCHANGED <<apiServerVars, page, session, acked, poll, visible, shown, losses>>

\* Seeded fault: the reads under way when an execute ends are still joined.
Forget_Kept(s) == [n \in DOMAIN pendingReads |-> IF pendingReads[n] = s THEN 0 ELSE pendingReads[n]]

\* A read that ends is forgotten if it is still the one to join; an execute forgets all.
Forget(s) ==
    IF req[s].kind = "execute" THEN NoReads
    ELSE [n \in DOMAIN pendingReads |-> IF pendingReads[n] = s THEN 0 ELSE pendingReads[n]]

\* Seeded fault: a run that fails leaves inFlight set.
Ran_OnSuccess(s, value) == IF poll = s /\ value >= 0 THEN 0 ELSE poll

\* The finally of run().
Ran(s, value) == IF poll = s THEN 0 ELSE poll

\* The promise of a request settles with a version, or fails (-1); a lost execute settles
\* with "unknown", which tells no version either.
Settle(s, value) ==
    /\ req' = [req EXCEPT ![s] = IF @.at \in {"none", "answered", "403"} THEN Idle ELSE [@ EXCEPT !.pc = "done"]]
    /\ pendingReads' = Forget(s) /\ poll' = Ran(s, value)
    /\ shown' = IF req[s].kind = "read" /\ value >= 0 THEN value ELSE shown
    /\ acked' = IF req[s].kind = "execute" /\ value > acked THEN value ELSE acked

\* The tab is hidden or shown.
Visibility ==
    /\ page = "open" /\ losses < MaxLosses /\ losses' = losses + 1 /\ visible' = ~visible
    /\ UNCHANGED <<apiServerVars, page, session, starting, pendingReads, req, executes, acked, poll, shown>>

-----------------------------------------------------------------------------
(* ensureSession.                                                          *)

DeniedRequest(r) == [r EXCEPT !.pc = "denied", !.at = "none"]

\* request() when the session it waited for is there: one that was refused for its CSRF
\* token is sent again, if it is a read, and fails if it is not.
Resumed(r) ==
    IF r.pc = "session" \/ (r.pc = "refresh" /\ r.kind # "execute")
    THEN [r EXCEPT !.id = cookie, !.retried = (r.pc = "refresh"), !.pc = "sent", !.at = "net"]
    ELSE IF r.pc = "refresh" THEN DeniedRequest(r) ELSE r

\* A refresh that brings another operator reloads the page.
Switched == \E s \in Slots : req[s].pc = "refresh" /\ logins[cookie] # logins[req[s].id]

\* /api/session answers: with the session of the cookie, or 401, which leaves for the sign-in.
SessionAnswered ==
    /\ page = "open" /\ starting /\ starting' = FALSE
    /\ page' = IF cookie = 0 \/ Switched THEN "gone" ELSE "open"
    /\ IF cookie = 0 THEN UNCHANGED <<session, req>>
       ELSE session' = cookie /\ req' = [s \in Slots |-> Resumed(req[s])]
    /\ UNCHANGED <<apiServerVars, pendingReads, executes, acked, poll, visible, shown, losses>>

\* The backend cannot be reached: all who wait fail.
SessionFails ==
    /\ page = "open" /\ starting /\ starting' = FALSE
    /\ losses < MaxLosses /\ losses' = losses + 1
    /\ req' = [s \in Slots |-> IF req[s].pc \in {"session", "refresh"} THEN DeniedRequest(req[s]) ELSE req[s]]
    /\ UNCHANGED <<apiServerVars, page, session, pendingReads, executes, acked, poll, visible, shown>>

Denied(s) ==
    /\ page = "open" /\ req[s].pc = "denied" /\ Settle(s, -1)
    /\ UNCHANGED <<apiServerVars, page, session, starting, executes, visible, losses>>

-----------------------------------------------------------------------------
(* Answers.                                                                *)

\* A mismatch is refreshed once: with the session another request has brought, or by asking.
Mismatch(s) ==
    LET brought == session # req[s].id /\ session # 0 /\ ~starting
        mine    == session = req[s].id
    IN  /\ session' = IF mine THEN 0 ELSE session
        /\ IF brought
           THEN /\ page' = IF logins[session] # logins[req[s].id] THEN "gone" ELSE "open"
                /\ req' = [req EXCEPT ![s] =
                              IF @.kind = "execute" THEN DeniedRequest(@)
                              ELSE [@ EXCEPT !.id = session, !.retried = TRUE, !.at = "net"]]
                /\ UNCHANGED starting
           ELSE /\ req' = [req EXCEPT ![s].pc = "refresh", ![s].at = "none"]
                /\ starting' = TRUE /\ UNCHANGED page
        /\ UNCHANGED <<pendingReads, poll, shown, acked>>

\* The response of a request: 401 leaves for the sign-in, anything else settles it.
ResponseArrives(s) ==
    /\ page = "open" /\ req[s].pc = "sent" /\ req[s].at \in {"401", "403", "answered"}
    /\ CASE req[s].at = "401" ->
               /\ page' = "gone" /\ session' = 0 /\ starting' = FALSE
               /\ UNCHANGED <<req, pendingReads, poll, shown, acked>>
         [] req[s].at = "403" /\ ~req[s].retried -> Mismatch(s)
         [] OTHER -> Settle(s, req[s].value) /\ UNCHANGED <<page, session, starting>>
    /\ UNCHANGED <<apiServerVars, executes, visible, losses>>

\* The connection fails or the time is up; the backend may be at work on it all the same.
RequestLost(s) ==
    /\ page = "open" /\ req[s].pc = "sent" /\ losses < MaxLosses /\ losses' = losses + 1
    /\ Settle(s, -1)
    /\ UNCHANGED <<apiServerVars, page, session, starting, executes, visible>>

-----------------------------------------------------------------------------
(* The web backend.                                                        *)

Respond(s, how, value) ==
    req' = [req EXCEPT ![s] = IF @.pc = "done" THEN Idle
                              ELSE [@ EXCEPT !.at = how, !.task = 0, !.epoch = 0, !.value = value]]

\* A status call: the cached version, or the answer of the supervisor that is under way, or
\* a new question. "net" is where a request starts, so a task is named by its first caller.
Status(s) ==
    IF cache >= 0 THEN Respond(s, "answered", cache) /\ UNCHANGED shared
    ELSE LET t == IF shared = 0 THEN s ELSE shared
         IN  /\ shared' = t
             /\ req' = [req EXCEPT ![s].at = "status", ![s].task = t, ![s].epoch = epoch,
                                   ![s].value = IF t = s THEN -1 ELSE req[t].value]

\* Seeded fault: an execute leaves the status that is being read to be shared.
Invalidate_Pending == cache' = -1 /\ UNCHANGED shared /\ epoch' = epoch + 1

\* invalidate_status
Invalidate == cache' = -1 /\ shared' = 0 /\ epoch' = epoch + 1

\* A request arrives: it needs a session, and one with a body the token of that session.
Arrive(s) ==
    /\ req[s].at = "net"
    /\ CASE cookie = 0 -> Respond(s, "401", -1) /\ UNCHANGED <<cache, shared, epoch>>
         [] cookie # 0 /\ req[s].kind # "read" /\ req[s].id # cookie ->
               Respond(s, "403", -1) /\ UNCHANGED <<cache, shared, epoch>>
         [] cookie # 0 /\ req[s].kind = "read" -> Status(s) /\ UNCHANGED <<cache, epoch>>
         [] cookie # 0 /\ req[s].kind = "query" /\ req[s].id = cookie ->
               Respond(s, "answered", version) /\ UNCHANGED <<cache, shared, epoch>>
         [] OTHER -> Invalidate /\ req' = [req EXCEPT ![s].at = "supervisor"]
    /\ UNCHANGED <<logins, cookie, version, page, session, starting, pendingReads, executes, acked,
                   poll, visible, shown, losses>>

\* The supervisor reads its state for a status question, or runs the operation.
Supervise(s) ==
    /\ \/ /\ req[s].at = "status" /\ req[s].task = s /\ req[s].value = -1
          /\ req' = [t \in Slots |-> IF req[t].task = s THEN [req[t] EXCEPT !.value = version] ELSE req[t]]
          /\ UNCHANGED version
       \/ /\ req[s].at = "supervisor" /\ version' = version + 1
          /\ req' = [req EXCEPT ![s].at = "applied", ![s].value = version + 1]
    /\ UNCHANGED <<logins, cookie, cache, shared, epoch, page, session, starting, pendingReads,
                   executes, acked, poll, visible, shown, losses>>

\* Seeded fault: any answer is cached.
Cacheable_Any(s) == TRUE

\* An answer is cached if no execute has come in between.
Cacheable(s) == req[s].epoch = epoch

\* The supervisor's answer arrives: all who await the task go on.
StatusDone(s) ==
    /\ req[s].at = "status" /\ req[s].task = s /\ req[s].value >= 0
    /\ LET waiting == {t \in Slots : req[t].task = s /\ req[t].at = "status"}
       IN  /\ req' = [t \in Slots |-> IF t \notin waiting THEN req[t]
                                      ELSE IF req[t].pc = "done" THEN Idle
                                      ELSE [req[t] EXCEPT !.at = "answered", !.task = 0, !.epoch = 0]]
           /\ cache' = IF \E t \in waiting : Cacheable(t) THEN req[s].value ELSE cache
           /\ shared' = IF shared = s THEN 0 ELSE shared
    /\ UNCHANGED <<logins, cookie, version, epoch, page, session, starting, pendingReads, executes,
                   acked, poll, visible, shown, losses>>

\* GroupRuntimeClient.execute ends; its connection may have failed before, and the outcome
\* is then unknown.
ExecuteDone(s) ==
    /\ \/ req[s].at = "applied" /\ Respond(s, "answered", req[s].value) /\ UNCHANGED losses
       \/ req[s].at = "applied" /\ losses < MaxLosses /\ losses' = losses + 1 /\ Respond(s, "answered", -1)
    /\ Invalidate
    /\ UNCHANGED <<logins, cookie, version, page, session, starting, pendingReads, executes, acked,
                   poll, visible, shown>>

\* Half a second passes.
CacheExpires ==
    /\ cache >= 0 /\ cache' = -1
    /\ UNCHANGED <<logins, cookie, version, shared, epoch, page, session, starting, pendingReads, req,
                   executes, acked, poll, visible, shown, losses>>

\* Someone signs in or out in another tab of the browser.
Login(o) ==
    /\ Len(logins) < MaxLogins /\ logins' = Append(logins, o) /\ cookie' = Len(logins) + 1
    /\ UNCHANGED <<version, cache, shared, epoch, page, session, starting, pendingReads, req, executes,
                   acked, poll, visible, shown, losses>>

Logout ==
    /\ cookie # 0 /\ losses < MaxLosses /\ losses' = losses + 1 /\ cookie' = 0
    /\ UNCHANGED <<logins, version, cache, shared, epoch, page, session, starting, pendingReads, req,
                   executes, acked, poll, visible, shown>>

-----------------------------------------------------------------------------
ApiPage(s) == RunPoll(s) \/ Denied(s) \/ ResponseArrives(s)
ApiServer(s) == Arrive(s) \/ Supervise(s) \/ StatusDone(s) \/ ExecuteDone(s)

ApiStep ==
    \/ \E s \in Slots : ApiPage(s) \/ ApiServer(s) \/ Load(s) \/ RequestLost(s)
    \/ \E s \in Slots, kind \in {"query", "execute"} : Write(s, kind)
    \/ SessionAnswered \/ SessionFails \/ Visibility \/ CacheExpires
    \/ (\E o \in Operators : Login(o)) \/ Logout

\* A page that is gone is followed by a new one, which starts as this one did.
ApiNext == page = "open" /\ ApiStep

-----------------------------------------------------------------------------
ApiTypeOK ==
    /\ logins \in Seq(Operators) /\ cookie \in 0 .. Len(logins) /\ session \in 0 .. Len(logins)
    /\ version \in Nat /\ cache \in Nat \cup {-1} /\ epoch \in Nat /\ shared \in Slots \cup {0}
    /\ page \in {"open", "gone"} /\ starting \in BOOLEAN /\ visible \in BOOLEAN
    /\ pendingReads \in [0 .. MaxLogins -> Slots \cup {0}] /\ poll \in Slots \cup {0}
    /\ \A s \in Slots : /\ req[s].kind \in RequestKinds \cup {"none"}
                        /\ req[s].pc \in {"session", "refresh", "sent", "denied", "done"}
                        /\ req[s].at \in {"none", "net", "status", "supervisor", "applied", "answered", "401", "403"}
    /\ {acked, shown, executes, losses} \subseteq Nat

\* A read that the page makes after an execute was reported done never brings the state from
\* before it, although three places share or keep answers: the page's pending reads, the
\* backend's status under way and the backend's cached status.
ReadsSeeWrites ==
    page = "open" => \A s \in Slots : req[s].pc = "sent" /\ req[s].at = "answered"
                                      /\ req[s].kind = "read" => req[s].value >= req[s].floor

\* A page that stays visible shows, in the end, what its executes did.
PageCatchesUp ==
    \A v \in 1 .. MaxVersion : acked >= v /\ [](page = "open" /\ visible) ~> shown >= v
=============================================================================
