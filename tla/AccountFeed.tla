----------------------------- MODULE AccountFeed -----------------------------
(***************************************************************************)
(* The account and the connections: the backend's loops and its push       *)
(* (app.py, profiles.py), and the page that is pushed to and also reads    *)
(* (models/operator.ts). Every change of the connections makes the next    *)
(* epoch.                                                                  *)
(***************************************************************************)
EXTENDS Integers

CONSTANTS
    Profiles,
    MaxEpoch,       \* bound: changes of the connections
    MaxFailures     \* bound: requests that fail, pages hidden

ASSUME FeedAssumption == {MaxEpoch, MaxFailures} \subseteq Nat

VARIABLES
    store,          \* profiles.py: the active profile and the epoch
    account,        \* the backend's account: whose, and of which epoch
    polling,        \* what account_loop has asked for, and what private_loop is connected with
    accountView,    \* the page's account, profiles and epoch
    refreshing,     \* reads of the connections on their way, 0 before they are read
    stream,         \* the EventSource: "closed", "connecting" or "open", and its message
    suspended, failures

feedServerVars == <<store, account, polling>>
feedVars == <<feedServerVars, accountView, refreshing, stream, suspended, failures>>

NotAsked == [profile |-> "none", epoch |-> 0]
NoMessage == [account |-> NotAsked, epoch |-> 0]

FeedInit ==
    /\ \E p \in Profiles :
         /\ store = [active |-> p, epoch |-> 1]
         /\ account = [profile |-> p, epoch |-> 1]
    /\ polling = [loop |-> NotAsked, private |-> NotAsked]
    /\ accountView = [account |-> NotAsked, profiles |-> 0, epoch |-> -1]
    /\ refreshing = {0} /\ stream = [pc |-> "connecting", message |-> NoMessage]
    /\ suspended = FALSE /\ failures = 0

-----------------------------------------------------------------------------
(* The backend.                                                            *)

\* save, select or delete: persist() counts the epoch, and the account is emptied.
Persist(p) ==
    /\ store.epoch < MaxEpoch /\ store' = [active |-> p, epoch |-> store.epoch + 1]
    /\ account' = NotAsked
    /\ UNCHANGED <<polling, accountView, refreshing, stream, suspended, failures>>

Ask(task) ==
    /\ polling[task] = NotAsked /\ polling' = [polling EXCEPT ![task] = [profile |-> store.active, epoch |-> store.epoch]]
    /\ UNCHANGED <<store, account, accountView, refreshing, stream, suspended, failures>>

\* Seeded fault: an answer is not asked which connections it is for.
OfNow_Any(asked) == asked # NotAsked

\* epoch == self.profiles.epoch
OfNow(asked) == asked # NotAsked /\ asked.epoch = store.epoch

\* account_loop's answers, or a message of the private connection, which stays.
Received(task) ==
    /\ polling[task] # NotAsked
    /\ account' = IF OfNow(polling[task]) THEN polling[task] ELSE account
    /\ polling' = IF task = "private" /\ OfNow(polling[task]) THEN polling
                  ELSE [polling EXCEPT ![task] = NotAsked]
    /\ UNCHANGED <<store, accountView, refreshing, stream, suspended, failures>>

-----------------------------------------------------------------------------
(* The page.                                                               *)

\* refresh(), each element the epoch that was read, 0 before; reads under way are shared.
Refresh == refreshing \cup {0}

ReadConnections ==
    /\ 0 \in refreshing /\ refreshing' = (refreshing \ {0}) \cup {store.epoch}
    /\ UNCHANGED <<feedServerVars, accountView, stream, suspended, failures>>

Refreshed(e) ==
    /\ e \in refreshing \ {0} /\ refreshing' = refreshing \ {e}
    /\ accountView' = [accountView EXCEPT !.profiles = e, !.epoch = e, !.account = account]
    /\ UNCHANGED <<feedServerVars, stream, suspended, failures>>

RefreshFails ==
    /\ refreshing # {} /\ failures < MaxFailures /\ failures' = failures + 1
    /\ \E e \in refreshing : refreshing' = refreshing \ {e}
    /\ UNCHANGED <<feedServerVars, accountView, stream, suspended>>

\* connect() when its session is there.
OpenEvents ==
    /\ stream.pc = "connecting"
    /\ stream' = [stream EXCEPT !.pc = IF suspended THEN "closed" ELSE "open"]
    /\ UNCHANGED <<feedServerVars, accountView, refreshing, suspended, failures>>

\* events_route, which writes at every change and every second.
PushEvents ==
    /\ stream.pc = "open" /\ stream.message = NoMessage
    /\ stream' = [stream EXCEPT !.message = [account |-> account, epoch |-> store.epoch]]
    /\ UNCHANGED <<feedServerVars, accountView, refreshing, suspended, failures>>

\* Seeded fault: only the first push makes the page read again.
Changed_First(e) == accountView.epoch = -1

\* previous !== -1 && previous !== next.epoch
Changed(e) == accountView.epoch \notin {-1, e}

OnEvent ==
    /\ stream.pc = "open" /\ stream.message # NoMessage
    /\ stream' = [stream EXCEPT !.message = NoMessage]
    /\ accountView' = [accountView EXCEPT !.account = stream.message.account, !.epoch = stream.message.epoch]
    /\ refreshing' = IF Changed(stream.message.epoch) THEN Refresh ELSE refreshing
    /\ UNCHANGED <<feedServerVars, suspended, failures>>

\* pagehide, and pageshow from the back/forward cache.
HidePage ==
    /\ ~suspended /\ failures < MaxFailures /\ failures' = failures + 1 /\ suspended' = TRUE
    /\ stream' = [pc |-> IF stream.pc = "connecting" THEN "connecting" ELSE "closed", message |-> NoMessage]
    /\ UNCHANGED <<feedServerVars, accountView, refreshing>>

ShowPage ==
    /\ suspended /\ suspended' = FALSE
    /\ stream' = [pc |-> "connecting", message |-> NoMessage] /\ refreshing' = Refresh
    /\ UNCHANGED <<feedServerVars, accountView, failures>>

-----------------------------------------------------------------------------
Feed == OpenEvents \/ PushEvents \/ OnEvent
Reads == ReadConnections \/ \E e \in refreshing : Refreshed(e)

FeedNext ==
    \/ \E p \in Profiles : Persist(p)
    \/ \E task \in {"loop", "private"} : Ask(task) \/ Received(task)
    \/ Reads \/ RefreshFails \/ Feed \/ HidePage \/ ShowPage

FeedSpec == FeedInit /\ [][FeedNext]_feedVars

-----------------------------------------------------------------------------
FeedTypeOK ==
    /\ store \in [active : Profiles, epoch : 1 .. MaxEpoch]
    /\ account \in {NotAsked} \cup [profile : Profiles, epoch : 1 .. MaxEpoch]
    /\ \A task \in {"loop", "private"} : polling[task].epoch \in 0 .. MaxEpoch
    /\ accountView.profiles \in 0 .. MaxEpoch /\ accountView.epoch \in -1 .. MaxEpoch
    /\ refreshing \subseteq 0 .. MaxEpoch /\ stream.pc \in {"closed", "connecting", "open"}
    /\ suspended \in BOOLEAN /\ failures \in 0 .. MaxFailures

\* The backend never shows the account of connections that are no longer used: neither a late
\* answer nor an old private connection brings it back.
AccountFollows == account = NotAsked \/ (account.epoch = store.epoch /\ account.profile = store.active)

\* The list of connections is current in the end if no read of it failed and the page was not
\* hidden, although pushes and reads overtake each other.
ProfilesCatchUp == <>[](failures > 0 \/ accountView.profiles = store.epoch)
=============================================================================
