--------------------------- MODULE WebReadsProofs ---------------------------
(***************************************************************************)
(* What the web reads is what it asked for: the account is that of the     *)
(* connection in use (AccountFeed), and a read that begins after an        *)
(* execute was reported brings no state from before it (WebApi), though    *)
(* answers are shared and kept in three places. The two share no variable. *)
(***************************************************************************)
EXTENDS AccountFeed, WebApi, TLAPS

(* AccountFeed. *)

Tasks == {"loop", "private"}
Asked == [profile : Profiles, epoch : Nat]

\* What a task has asked for is of an epoch there has been, and the epoch tells the connection:
\* so an answer that passes for one of this epoch is of the connection in use.
AskedInv ==
    /\ store \in [active : Profiles, epoch : Nat \ {0}]
    /\ polling \in [Tasks -> Asked \cup {NotAsked}]
    /\ \A task \in Tasks : /\ polling[task].epoch <= store.epoch
                           /\ polling[task].epoch = store.epoch => polling[task].profile = store.active

FollowInv == AskedInv /\ AccountFollows

\* Nothing is asked or shown at first.
LEMMA FollowStart == FeedInit => FollowInv
<1> SUFFICES ASSUME FeedInit PROVE FollowInv
  OBVIOUS
<1>1. PICK p \in Profiles : store = [active |-> p, epoch |-> 1] /\ account = [profile |-> p, epoch |-> 1]
  BY DEF FeedInit
<1>2. polling = [loop |-> NotAsked, private |-> NotAsked]
  BY DEF FeedInit
<1> QED BY <1>1, <1>2 DEF FollowInv, AskedInv, AccountFollows, Tasks, NotAsked

\* Every step keeps the invariant of the account.
LEMMA FollowStep == FollowInv /\ [FeedNext]_feedVars => FollowInv'
<1> SUFFICES ASSUME FollowInv, [FeedNext]_feedVars PROVE FollowInv'
  OBVIOUS
<1> USE DEF FollowInv
<1>0. /\ store.epoch \in Nat \ {0} /\ store.active \in Profiles
      /\ \A task \in Tasks : polling[task] \in Asked \cup {NotAsked} /\ polling[task].epoch \in Nat
  BY DEF AskedInv, Asked, NotAsked
<1>1. CASE \E p \in Profiles : Persist(p)
  <2>1. PICK p \in Profiles : store' = [active |-> p, epoch |-> store.epoch + 1]
    BY <1>1 DEF Persist
  <2>2. polling' = polling /\ account' = NotAsked
    BY <1>1 DEF Persist
  <2> QED BY <1>0, <2>1, <2>2 DEF AskedInv, AccountFollows
<1>2. CASE \E task \in Tasks : Ask(task)
  <2>1. PICK task \in Tasks : polling' = [polling EXCEPT ![task] = [profile |-> store.active, epoch |-> store.epoch]]
    BY <1>2 DEF Ask
  <2>2. store' = store /\ account' = account
    BY <1>2 DEF Ask
  <2>3. [profile |-> store.active, epoch |-> store.epoch] \in Asked
    BY <1>0 DEF Asked
  <2> QED BY <1>0, <2>1, <2>2, <2>3 DEF AskedInv, AccountFollows
<1>3. CASE \E task \in Tasks : Received(task)
  <2>1. PICK task \in Tasks :
            /\ account' = IF OfNow(polling[task]) THEN polling[task] ELSE account
            /\ polling' \in {polling, [polling EXCEPT ![task] = NotAsked]}
    BY <1>3 DEF Received
  <2>2. store' = store
    BY <1>3 DEF Received
  <2>3. AskedInv'
    BY <1>0, <2>1, <2>2 DEF AskedInv, NotAsked
  <2>4. OfNow(polling[task]) => polling[task].profile = store.active /\ polling[task].epoch = store.epoch
    BY <2>1 DEF OfNow, AskedInv
  <2> QED BY <2>1, <2>2, <2>3, <2>4 DEF AccountFollows
<1>4. CASE UNCHANGED feedServerVars
  BY <1>4 DEF feedServerVars, AskedInv, AccountFollows
<1>5. CASE UNCHANGED feedVars
  BY <1>4, <1>5 DEF feedVars
<1>6. CASE Reads \/ RefreshFails \/ Feed \/ HidePage \/ ShowPage
  BY <1>4, <1>6 DEF Reads, ReadConnections, Refreshed, RefreshFails, Feed, OpenEvents, PushEvents, OnEvent,
                    HidePage, ShowPage
<1> QED BY <1>1, <1>2, <1>3, <1>5, <1>6 DEF FeedNext, Tasks

\* The backend never shows the account of connections that are no longer used: every answer is
\* compared with the epoch of the moment it arrives (account_loop, private_loop).
THEOREM AccountIsOfActive == FeedSpec => []AccountFollows
<1>1. FollowInv => AccountFollows
  BY DEF FollowInv
<1> QED BY <1>1, FollowStart, FollowStep, PTL DEF FeedSpec

-----------------------------------------------------------------------------
(* WebApi: the invariant. *)

Requests == [kind : RequestKinds \cup {"none"},
             pc : {"session", "refresh", "sent", "denied", "done"},
             at : {"none", "net", "status", "supervisor", "applied", "answered", "401", "403"},
             id : Nat, retried : BOOLEAN, task : Slots \cup {0}, epoch : Nat, value : Nat \cup {-1}, floor : Nat]

ApiTypes ==
    /\ logins \in Seq(Operators) /\ Len(logins) \in 1 .. MaxLogins
    /\ cookie \in 0 .. MaxLogins /\ session \in 0 .. MaxLogins
    /\ version \in Nat /\ cache \in Nat \cup {-1} /\ epoch \in Nat /\ shared \in Slots \cup {0}
    /\ pendingReads \in [0 .. MaxLogins -> Slots \cup {0}] /\ req \in [Slots -> Requests] /\ acked \in Nat

\* A version that no execute reported done goes beyond, to the page or on the way to it.
AsNewAsTold(n) ==
    /\ n >= acked
    /\ \A s \in Slots : req[s].kind = "execute" /\ req[s].at # "applied" => n >= req[s].value

\* Executes bring versions there have been.
ToldVersions == acked <= version /\ \A s \in Slots : req[s].kind = "execute" => req[s].value <= version

\* What a status call is about: it shares the question of its task, and the answer is no older
\* than what was reported when the question was asked, or, in this epoch, than any report.
StatusCall(s) ==
    LET r == req[s]
    IN  /\ r.kind = "read" /\ r.epoch <= epoch
        /\ r.task \in Slots /\ req[r.task].at = "status" /\ req[r.task].task = r.task
        /\ req[r.task].value = r.value
        /\ r.value >= 0 => r.value >= r.floor /\ (r.epoch = epoch => AsNewAsTold(r.value))

StatusCalls ==
    /\ \A s \in Slots : IF req[s].at = "status" THEN StatusCall(s) ELSE req[s].task = 0
    /\ shared # 0 => req[shared].at = "status" /\ req[shared].task = shared /\ req[shared].epoch = epoch
    /\ cache >= 0 => AsNewAsTold(cache)

\* A read knows what was reported when it was made, one that can be joined all that was.
ReadsOfPage ==
    /\ \A s \in Slots : /\ req[s].pc \in {"session", "refresh", "denied"} => req[s].at = "none"
                        /\ req[s].kind = "read" => /\ req[s].floor <= acked
                                                   /\ req[s].at \notin {"supervisor", "applied"}
                        /\ req[s].kind = "read" /\ req[s].at = "answered" => req[s].value >= req[s].floor
    /\ \A n \in 0 .. MaxLogins :
         LET r == req[pendingReads[n]]
         IN  pendingReads[n] # 0 => r.kind = "read" /\ r.pc # "done" /\ r.floor = acked

ApiInv == ApiTypes /\ ToldVersions /\ StatusCalls /\ ReadsOfPage

-----------------------------------------------------------------------------
(* WebApi: status calls and reports. *)

\* A request that is the same to the backend, and one that is no status call and reports nothing.
SameCall(r, q) ==
    /\ q.kind = r.kind /\ q.value = r.value /\ q.task = r.task /\ q.epoch = r.epoch /\ q.floor = r.floor
    /\ q.at = "status" <=> r.at = "status"
    /\ q.at = "applied" <=> r.at = "applied"
NoCall(r, q) ==
    /\ r.at # "status" /\ q.at # "status" /\ q.task = 0
    /\ q.kind = "execute" => q.value = -1 \/ (q.at = "applied" /\ q.value <= version')

\* A step of requests that are no status calls, in which the page may take note of a report.
Plain ==
    /\ version' \in Nat /\ version' >= version /\ UNCHANGED <<shared, epoch>> /\ cache' \in {cache, -1}
    /\ req' \in [Slots -> Requests] /\ acked' \in Nat
    /\ \A t \in Slots : SameCall(req[t], req'[t]) \/ NoCall(req[t], req'[t])
    /\ \/ acked' = acked
       \/ \E t \in Slots : req[t].kind = "execute" /\ req[t].at # "applied" /\ acked' = req[t].value

\* The types of a request.
LEMMA RequestIs ==
    ASSUME ApiTypes, NEW t \in Slots
    PROVE  /\ req[t] \in Requests /\ req[t].task \in Slots \cup {0} /\ req[t].epoch \in Nat
           /\ req[t].value \in Nat \cup {-1} /\ req[t].floor \in Nat
<1>1. req[t] \in Requests
  BY DEF ApiTypes
<1> QED BY <1>1 DEF Requests

\* No request.
LEMMA IdleIs ==
    /\ Idle \in Requests /\ Idle.kind = "none" /\ Idle.at = "none" /\ Idle.task = 0 /\ Idle.value = -1
    /\ Idle.pc = "done" /\ Idle.floor = 0
    /\ 0 \notin Slots
BY DEF Requests, Idle, RequestKinds, Slots

\* A status call that is left alone stays one, if no report is newer than what was as new as told,
\* or if another epoch begins.
LEMMA CallStays ==
    ASSUME ApiTypes, NEW t \in Slots, StatusCall(t), SameCall(req[t], req'[t]),
           \A k \in Slots : k = req[t].task => SameCall(req[k], req'[k]), req[t].at = "status",
           \/ epoch' = epoch /\ \A n \in Nat : AsNewAsTold(n) => AsNewAsTold(n)'
           \/ epoch' = epoch + 1
    PROVE  StatusCall(t)'
<1>1. PICK k, v : k = req[t].task /\ v = req[t].value
  OBVIOUS
<1>2. /\ req'[t].kind = "read" /\ req'[t].epoch = req[t].epoch /\ req'[t].value = v
      /\ req'[t].task = k /\ req'[t].floor = req[t].floor /\ req[t].epoch <= epoch
      /\ k \in Slots /\ req[k].at = "status" /\ req[k].task = k /\ req[k].value = v
      /\ v >= 0 => v >= req[t].floor /\ (req[t].epoch = epoch => AsNewAsTold(v))
  BY <1>1 DEF StatusCall, SameCall
<1>3. req'[k].at = "status" /\ req'[k].task = k /\ req'[k].value = v
  BY <1>1, <1>2 DEF SameCall
<1>4. /\ req[t].epoch \in Nat /\ epoch \in Nat /\ (v >= 0 => v \in Nat)
  BY <1>1, RequestIs DEF ApiTypes
<1>5. req[t].epoch <= epoch' /\ (v >= 0 /\ req[t].epoch = epoch' => AsNewAsTold(v)')
  <2>1. CASE epoch' = epoch /\ \A n \in Nat : AsNewAsTold(n) => AsNewAsTold(n)'
    BY <1>2, <1>4, <2>1
  <2>2. CASE epoch' = epoch + 1
    <3>1. req[t].epoch <= epoch' /\ req[t].epoch # epoch'
      BY <1>2, <1>4, <2>2
    <3> QED BY <3>1
  <2> QED BY <2>1, <2>2
<1> QED BY <1>2, <1>3, <1>5 DEF StatusCall, AsNewAsTold

\* Such a step leaves the backend's answers as new as what was reported.
LEMMA PlainStep ==
    ASSUME ApiInv, Plain PROVE ToldVersions' /\ StatusCalls'
<1>0. ApiTypes /\ ToldVersions /\ StatusCalls
  BY DEF ApiInv
<1>1. \A t \in Slots : /\ req[t].task \in Slots \cup {0} /\ req[t].epoch \in Nat
                       /\ req[t].value \in Nat \cup {-1} /\ req'[t].value \in Nat \cup {-1}
                       /\ SameCall(req[t], req'[t]) \/ NoCall(req[t], req'[t])
  BY <1>0, RequestIs DEF Plain, Requests
<1>2. ASSUME NEW n \in Nat, AsNewAsTold(n) PROVE AsNewAsTold(n)'
  <2>1. n >= acked'
    BY <1>2 DEF Plain, AsNewAsTold
  <2>2. ASSUME NEW t \in Slots, req'[t].kind = "execute", req'[t].at # "applied" PROVE n >= req'[t].value
    BY <1>1, <1>2, <2>2 DEF AsNewAsTold, SameCall, NoCall
  <2> QED BY <2>1, <2>2 DEF AsNewAsTold
<1>3. ToldVersions'
  <2>1. acked' <= version'
    <3>1. acked' <= version /\ version \in Nat /\ acked' \in Nat
      BY <1>0 DEF Plain, ToldVersions, ApiTypes
    <3> QED BY <3>1 DEF Plain
  <2>2. ASSUME NEW t \in Slots, req'[t].kind = "execute" PROVE req'[t].value <= version'
    <3>1. version \in Nat /\ version' \in Nat /\ version' >= version
      BY <1>0 DEF Plain, ApiTypes
    <3>2. CASE SameCall(req[t], req'[t])
      BY <1>0, <1>1, <2>2, <3>1, <3>2 DEF ToldVersions, SameCall
    <3>3. CASE NoCall(req[t], req'[t])
      BY <1>1, <2>2, <3>1, <3>3 DEF NoCall
    <3> QED BY <1>1, <3>2, <3>3
  <2> QED BY <2>1, <2>2 DEF ToldVersions
<1>4. ASSUME NEW t \in Slots, req'[t].at = "status" PROVE StatusCall(t) /\ SameCall(req[t], req'[t])
  BY <1>0, <1>1, <1>4 DEF StatusCalls, SameCall, NoCall
<1>5. ASSUME NEW t \in Slots, req'[t].at = "status" PROVE StatusCall(t)'
  <2>1. req[t].at = "status"
    BY <1>4, <1>5 DEF SameCall
  <2>2. ASSUME NEW k \in Slots, k = req[t].task PROVE SameCall(req[k], req'[k])
    BY <1>1, <1>4, <1>5, <2>2 DEF NoCall, StatusCall
  <2>3. epoch' = epoch
    BY DEF Plain
  <2> QED BY <1>0, <1>2, <1>4, <1>5, <2>1, <2>2, <2>3, CallStays
<1>6. ASSUME NEW t \in Slots, req'[t].at # "status" PROVE req'[t].task = 0
  BY <1>0, <1>1, <1>6 DEF StatusCalls, SameCall, NoCall
<1>7. shared' # 0 => req'[shared'].at = "status" /\ req'[shared'].task = shared' /\ req'[shared'].epoch = epoch'
  <2>1. CASE shared # 0
    <3>1. shared \in Slots /\ req[shared].at = "status" /\ req[shared].task = shared /\ req[shared].epoch = epoch
      BY <1>0, <2>1 DEF StatusCalls, ApiTypes
    <3>2. SameCall(req[shared], req'[shared])
      BY <1>1, <3>1 DEF NoCall
    <3> QED BY <3>1, <3>2 DEF SameCall, Plain
  <2> QED BY <2>1 DEF Plain
<1>8. cache' >= 0 => AsNewAsTold(cache)'
  <2>1. PICK c : c = cache
    OBVIOUS
  <2>2. cache' >= 0 => cache' = c /\ c \in Nat /\ AsNewAsTold(c)
    BY <1>0, <2>1 DEF Plain, StatusCalls, ApiTypes
  <2>3. cache' >= 0 => cache' = c /\ AsNewAsTold(c)'
    BY <1>2, <2>2
  <2> QED BY <2>3 DEF AsNewAsTold
<1> QED BY <1>3, <1>5, <1>6, <1>7, <1>8 DEF StatusCalls

\* A request of the page that is as it should be, when told is what was reported.
Orderly(q, told) ==
    /\ q.pc \in {"session", "refresh", "denied"} => q.at = "none"
    /\ q.kind = "read" => q.floor <= told /\ q.at \notin {"supervisor", "applied"}
    /\ q.kind = "read" /\ q.at = "answered" => q.value >= q.floor

\* A read that is joined.
Joinable(q, told) == q.kind = "read" /\ q.pc # "done" /\ q.floor = told

\* What a request is like.
LEMMA RequestsAre ==
    ASSUME ApiInv, NEW t \in Slots
    PROVE  /\ req[t] \in Requests /\ Orderly(req[t], acked)
           /\ req[t].at # "status" => req[t].task = 0
           /\ req[t].at = "status" => req[t].kind = "read"
           /\ \A n \in 0 .. MaxLogins : pendingReads[n] = t => Joinable(req[t], acked)
<1>1. req[t] \in Requests /\ t # 0
  BY RequestIs, IdleIs DEF ApiInv
<1>2. Orderly(req[t], acked)
  BY DEF ApiInv, ReadsOfPage, Orderly
<1>3. /\ req[t].at # "status" => req[t].task = 0
      /\ req[t].at = "status" => req[t].kind = "read"
  BY DEF ApiInv, StatusCalls, StatusCall
<1>4. ASSUME NEW n \in 0 .. MaxLogins, pendingReads[n] = t PROVE Joinable(req[t], acked)
  BY <1>1, <1>4 DEF ApiInv, ReadsOfPage, Joinable
<1> QED BY <1>1, <1>2, <1>3, <1>4

\* What makes the page's reads what they should be.
LEMMA ReadsAre ==
    ASSUME \A t \in Slots : Orderly(req'[t], acked'),
           \A n \in 0 .. MaxLogins : pendingReads'[n] # 0 => Joinable(req'[pendingReads'[n]], acked')
    PROVE  ReadsOfPage'
BY DEF ReadsOfPage, Orderly, Joinable

\* One request changes that is no status call, or stays one.
LEMMA OneRequest ==
    ASSUME ApiInv, NEW s \in Slots, NEW r \in Requests, req' = [req EXCEPT ![s] = r],
           SameCall(req[s], r) \/ NoCall(req[s], r),
           version' \in {version, version + 1}, UNCHANGED <<shared, epoch>>, cache' \in {cache, -1},
           acked' \in Nat,
           acked' = acked \/ (req[s].kind = "execute" /\ req[s].at # "applied" /\ acked' = req[s].value)
    PROVE  req' \in [Slots -> Requests] /\ ToldVersions' /\ StatusCalls'
<1>1. req \in [Slots -> Requests]
  BY DEF ApiInv, ApiTypes
<1>2. /\ req' \in [Slots -> Requests]
      /\ \A t \in Slots : req'[t] = IF t = s THEN r ELSE req[t]
  BY <1>1
<1>3. \A t \in Slots : SameCall(req[t], req'[t]) \/ NoCall(req[t], req'[t])
  BY <1>2 DEF SameCall
<1>4. version' \in Nat /\ version' >= version
  BY DEF ApiInv, ApiTypes
<1>5. Plain
  BY <1>2, <1>3, <1>4 DEF Plain
<1> QED BY <1>2, <1>5, PlainStep

\* One request changes that stays orderly, and another read may be joined.
LEMMA OneRead ==
    ASSUME ApiInv, NEW s \in Slots, NEW r \in Requests, req' = [req EXCEPT ![s] = r],
           acked' \in Nat, acked' >= acked, Orderly(r, acked'),
           \A n \in 0 .. MaxLogins : \/ pendingReads'[n] \in {0, s}
                                     \/ pendingReads'[n] = pendingReads[n] /\ acked' = acked,
           \A n \in 0 .. MaxLogins : pendingReads'[n] = s => Joinable(r, acked')
    PROVE  ReadsOfPage'
<1>0. req \in [Slots -> Requests] /\ acked \in Nat /\ pendingReads \in [0 .. MaxLogins -> Slots \cup {0}]
  BY DEF ApiInv, ApiTypes
<1>1. \A t \in Slots : req'[t] = IF t = s THEN r ELSE req[t]
  BY <1>0
<1>2. ASSUME NEW t \in Slots PROVE Orderly(req'[t], acked')
  <2>1. req[t].floor \in Nat /\ Orderly(req[t], acked)
    BY RequestIs, RequestsAre DEF ApiInv
  <2>2. Orderly(req[t], acked')
    BY <1>0, <2>1 DEF Orderly
  <2> QED BY <1>1, <2>2
<1>3. ASSUME NEW n \in 0 .. MaxLogins, pendingReads'[n] # 0 PROVE Joinable(req'[pendingReads'[n]], acked')
  <2>1. CASE pendingReads'[n] = s
    BY <1>1, <2>1
  <2>2. CASE pendingReads'[n] = pendingReads[n] /\ acked' = acked /\ pendingReads[n] # s
    <3>1. pendingReads[n] \in Slots /\ Joinable(req[pendingReads[n]], acked)
      BY <1>0, <1>3, <2>2, RequestsAre
    <3> QED BY <1>1, <2>2, <3>1
  <2> QED BY <1>3, <2>1, <2>2
<1> QED BY <1>2, <1>3, ReadsAre

\* A request as it is made.
LEMMA RequestMade ==
    ASSUME ApiInv, NEW s \in Slots, req[s] = Idle, NEW k \in RequestKinds, Request(s, k)
    PROVE  \E r \in Requests :
               /\ req' = [req EXCEPT ![s] = r] /\ r.kind = k /\ r.floor = acked /\ r.value = -1 /\ r.task = 0
               /\ (r.pc = "sent" /\ r.at = "net") \/ (r.pc = "session" /\ r.at = "none")
<1> DEFINE ready == ~starting /\ session # 0
           r == [Idle EXCEPT !.kind = k, !.floor = acked, !.id = session,
                             !.pc = IF ready THEN "sent" ELSE "session",
                             !.at = IF ready THEN "net" ELSE "none"]
<1>1. req' = [req EXCEPT ![s] = r]
  BY DEF Request
<1>2. acked \in Nat /\ session \in Nat
  BY DEF ApiInv, ApiTypes
<1>3. /\ r \in Requests /\ r.kind = k /\ r.floor = acked /\ r.value = -1 /\ r.task = 0
      /\ (r.pc = "sent" /\ r.at = "net") \/ (r.pc = "session" /\ r.at = "none")
  BY <1>2, IdleIs DEF Idle, Requests
<1> HIDE DEF r
<1> QED BY <1>1, <1>3

\* A read that joins another changes nothing but the page that waits for it; else it is made.
LEMMA ReadKeeps ==
    ASSUME ApiInv, NEW s \in Slots, Read(s), UNCHANGED <<version, cache, shared, epoch, acked, session>>
    PROVE  /\ req' \in [Slots -> Requests] /\ pendingReads' \in [0 .. MaxLogins -> Slots \cup {0}]
           /\ ToldVersions' /\ StatusCalls' /\ ReadsOfPage'
<1>0. /\ session \in 0 .. MaxLogins /\ pendingReads \in [0 .. MaxLogins -> Slots \cup {0}] /\ acked \in Nat
      /\ req \in [Slots -> Requests] /\ \A n \in 0 .. MaxLogins : pendingReads[n] = s => Joinable(req[s], acked)
  BY RequestsAre DEF ApiInv, ApiTypes
<1>1. CASE pendingReads[session] # 0
  <2>1. s = pendingReads[session] /\ req' = [req EXCEPT ![s].floor = acked] /\ pendingReads' = pendingReads
    BY <1>1 DEF Read
  <2>2. req[s].floor = acked
    BY <1>0, <2>1 DEF Joinable
  <2>3. req' = [req EXCEPT ![s] = req[s]] /\ req[s] \in Requests /\ Orderly(req[s], acked)
    BY <1>0, <2>1, <2>2, RequestsAre DEF Requests
  <2>4. SameCall(req[s], req[s])
    BY DEF SameCall
  <2>5. req' \in [Slots -> Requests] /\ ToldVersions' /\ StatusCalls'
    BY <1>0, <2>3, <2>4, OneRequest
  <2>6. ReadsOfPage'
    <3>1. acked' \in Nat /\ acked' >= acked /\ Orderly(req[s], acked')
      BY <1>0, <2>3
    <3>2. \A n \in 0 .. MaxLogins : pendingReads'[n] = pendingReads[n] /\ acked' = acked
      BY <2>1
    <3>3. \A n \in 0 .. MaxLogins : pendingReads'[n] = s => Joinable(req[s], acked')
      BY <1>0, <3>2
    <3> QED BY <2>3, <3>1, <3>2, <3>3, OneRead
  <2> QED BY <1>0, <2>1, <2>5, <2>6
<1>2. CASE pendingReads[session] = 0
  <2>1. req[s] = Idle /\ Request(s, "read") /\ pendingReads' = [pendingReads EXCEPT ![session] = s]
    BY <1>2 DEF Read, Next1
  <2>2. PICK r \in Requests : /\ req' = [req EXCEPT ![s] = r] /\ r.kind = "read" /\ r.floor = acked /\ r.value = -1
                              /\ r.task = 0
                              /\ (r.pc = "sent" /\ r.at = "net") \/ (r.pc = "session" /\ r.at = "none")
    BY <2>1, RequestMade DEF RequestKinds
  <2>3. NoCall(req[s], r) /\ Orderly(r, acked) /\ Joinable(r, acked)
    BY <1>0, <2>1, <2>2, IdleIs DEF NoCall, Orderly, Joinable
  <2>4. req' \in [Slots -> Requests] /\ ToldVersions' /\ StatusCalls'
    BY <1>0, <2>2, <2>3, OneRequest
  <2>5. \A n \in 0 .. MaxLogins : pendingReads'[n] = IF n = session THEN s ELSE pendingReads[n]
    BY <1>0, <2>1
  <2>6. ReadsOfPage'
    <3>1. acked' \in Nat /\ acked' >= acked /\ Orderly(r, acked') /\ Joinable(r, acked')
      BY <1>0, <2>3
    <3>2. \A n \in 0 .. MaxLogins : \/ pendingReads'[n] \in {0, s}
                                    \/ pendingReads'[n] = pendingReads[n] /\ acked' = acked
      BY <2>5
    <3> QED BY <2>2, <3>1, <3>2, OneRead
  <2>7. pendingReads' \in [0 .. MaxLogins -> Slots \cup {0}]
    BY <1>0, <2>1
  <2> QED BY <2>4, <2>6, <2>7
<1> QED BY <1>1, <1>2

\* No read is joined.
LEMMA NoReadsAre ==
    NoReads \in [0 .. MaxLogins -> Slots \cup {0}] /\ \A n \in 0 .. MaxLogins : NoReads[n] = 0
BY DEF NoReads

\* A query or an execute is made.
LEMMA WriteKeeps ==
    ASSUME ApiInv, NEW s \in Slots, NEW k \in {"query", "execute"}, Write(s, k) PROVE ApiInv'
<1>0. req[s] = Idle /\ Request(s, k) /\ pendingReads' = NoReads /\ UNCHANGED <<apiServerVars, session, acked>>
  BY DEF Write, Next1
<1>1. PICK r \in Requests : /\ req' = [req EXCEPT ![s] = r] /\ r.kind = k /\ r.floor = acked /\ r.value = -1
                            /\ r.task = 0
                            /\ (r.pc = "sent" /\ r.at = "net") \/ (r.pc = "session" /\ r.at = "none")
  BY <1>0, RequestMade DEF RequestKinds
<1>2. NoCall(req[s], r) /\ Orderly(r, acked) /\ acked \in Nat
  BY <1>0, <1>1, IdleIs DEF NoCall, Orderly, ApiInv, ApiTypes
<1>3. req' \in [Slots -> Requests] /\ ToldVersions' /\ StatusCalls'
  BY <1>0, <1>1, <1>2, OneRequest DEF apiServerVars
<1>4. ReadsOfPage'
  <2>1. acked' \in Nat /\ acked' >= acked /\ Orderly(r, acked')
    BY <1>0, <1>2
  <2>2. \A n \in 0 .. MaxLogins : pendingReads'[n] = 0 /\ pendingReads'[n] # s
    BY <1>0, NoReadsAre, IdleIs
  <2> QED BY <1>1, <2>1, <2>2, OneRead
<1>5. ApiTypes'
  BY <1>0, <1>3, NoReadsAre DEF ApiInv, ApiTypes, apiServerVars
<1> QED BY <1>3, <1>4, <1>5 DEF ApiInv

-----------------------------------------------------------------------------
(* WebApi: the page. *)

\* A request that settles is no longer joined, and an execute that reports a version leaves no
\* read to join.
LEMMA SettleKeeps ==
    ASSUME ApiInv, NEW s \in Slots, NEW v, v = -1 \/ (v = req[s].value /\ req[s].at # "applied"),
           req[s].at # "status" \/ v = -1, Settle(s, v), UNCHANGED <<version, cache, shared, epoch>>
    PROVE  /\ req' \in [Slots -> Requests] /\ pendingReads' \in [0 .. MaxLogins -> Slots \cup {0}]
           /\ acked' \in Nat /\ ToldVersions' /\ StatusCalls' /\ ReadsOfPage'
<1>0. /\ pendingReads \in [0 .. MaxLogins -> Slots \cup {0}] /\ acked \in Nat /\ req \in [Slots -> Requests]
      /\ req[s] \in Requests /\ req[s].value \in Nat \cup {-1} /\ Orderly(req[s], acked)
      /\ req[s].at # "status" => req[s].task = 0
  BY RequestIs, RequestsAre DEF ApiInv, ApiTypes
<1> DEFINE r == IF req[s].at \in {"none", "answered", "403"} THEN Idle ELSE [req[s] EXCEPT !.pc = "done"]
<1>1. /\ req' = [req EXCEPT ![s] = r] /\ pendingReads' = Forget(s)
      /\ acked' = IF req[s].kind = "execute" /\ v > acked THEN v ELSE acked
  BY DEF Settle
<1>2. r \in Requests /\ (SameCall(req[s], r) \/ NoCall(req[s], r)) /\ Orderly(r, acked) /\ r.pc = "done"
  <2>1. CASE req[s].at \in {"none", "answered", "403"}
    <3>1. r = Idle /\ req[s].at # "status"
      BY <2>1
    <3> HIDE DEF r
    <3> QED BY <1>0, <3>1, IdleIs DEF NoCall, Orderly
  <2>2. CASE req[s].at \notin {"none", "answered", "403"}
    <3>1. r = [req[s] EXCEPT !.pc = "done"]
      BY <2>2
    <3> HIDE DEF r
    <3>2. /\ r \in Requests /\ r.pc = "done" /\ r.kind = req[s].kind /\ r.at = req[s].at /\ r.value = req[s].value
          /\ r.task = req[s].task /\ r.epoch = req[s].epoch /\ r.floor = req[s].floor
      BY <1>0, <3>1 DEF Requests
    <3> QED BY <1>0, <3>2 DEF SameCall, Orderly
  <2> QED BY <2>1, <2>2
<1> HIDE DEF r
<1>3. acked' \in Nat /\ acked' >= acked
  BY <1>0, <1>1
<1>4. acked' = acked \/ (req[s].kind = "execute" /\ req[s].at # "applied" /\ acked' = req[s].value)
  BY <1>0, <1>1
<1>5. req' \in [Slots -> Requests] /\ ToldVersions' /\ StatusCalls'
  BY <1>1, <1>2, <1>3, <1>4, OneRequest
<1>6. /\ pendingReads' \in [0 .. MaxLogins -> Slots \cup {0}]
      /\ \A n \in 0 .. MaxLogins : /\ pendingReads'[n] # s
                                   /\ \/ pendingReads'[n] = 0
                                      \/ pendingReads'[n] = pendingReads[n] /\ acked' = acked
  <2>1. CASE req[s].kind = "execute"
    BY <1>1, <2>1, NoReadsAre, IdleIs DEF Forget
  <2>2. CASE req[s].kind # "execute"
    <3>1. pendingReads' = [n \in 0 .. MaxLogins |-> IF pendingReads[n] = s THEN 0 ELSE pendingReads[n]]
      BY <1>0, <1>1, <2>2 DEF Forget
    <3>2. acked' = acked
      BY <1>1, <2>2
    <3> QED BY <1>0, <3>1, <3>2, IdleIs
  <2> QED BY <2>1, <2>2
<1>7. ReadsOfPage'
  <2>1. Orderly(r, acked')
    BY <1>0, <1>2, <1>3 DEF Orderly, Requests
  <2> QED BY <1>1, <1>2, <1>3, <1>6, <2>1, OneRead
<1> QED BY <1>3, <1>5, <1>6, <1>7

\* The page's session is not the request's: it is refreshed once.
LEMMA MismatchKeeps ==
    ASSUME ApiInv, NEW s \in Slots, req[s].pc = "sent", req[s].at = "403", Mismatch(s),
           UNCHANGED <<version, cache, shared, epoch>>
    PROVE  /\ req' \in [Slots -> Requests] /\ UNCHANGED <<pendingReads, acked>> /\ session' \in {0, session}
           /\ ToldVersions' /\ StatusCalls' /\ ReadsOfPage'
<1>0. /\ acked \in Nat /\ req \in [Slots -> Requests] /\ session \in Nat
      /\ req[s] \in Requests /\ req[s].task = 0 /\ Orderly(req[s], acked)
      /\ \A n \in 0 .. MaxLogins : pendingReads[n] = s => Joinable(req[s], acked)
  BY RequestsAre DEF ApiInv, ApiTypes
<1>1. UNCHANGED <<pendingReads, acked>> /\ session' \in {0, session}
  BY DEF Mismatch
<1>2. ASSUME NEW r \in Requests, req' = [req EXCEPT ![s] = r], r.kind = req[s].kind, r.value = req[s].value,
             r.task = req[s].task, r.epoch = req[s].epoch, r.floor = req[s].floor,
             r.at \in {"net", "none"}, r.pc # "done", r.pc \in {"session", "refresh", "denied"} => r.at = "none"
      PROVE  req' \in [Slots -> Requests] /\ ToldVersions' /\ StatusCalls' /\ ReadsOfPage'
  <2>1. SameCall(req[s], r) /\ Orderly(r, acked)
    BY <1>0, <1>2 DEF SameCall, Orderly
  <2>2. req' \in [Slots -> Requests] /\ ToldVersions' /\ StatusCalls'
    BY <1>0, <1>1, <1>2, <2>1, OneRequest
  <2>3. acked' \in Nat /\ acked' >= acked /\ Orderly(r, acked')
    BY <1>0, <1>1, <2>1
  <2>4. \A n \in 0 .. MaxLogins : /\ pendingReads'[n] = pendingReads[n] /\ acked' = acked
                                  /\ pendingReads'[n] = s => Joinable(r, acked')
    BY <1>0, <1>1, <1>2 DEF Joinable
  <2>5. ReadsOfPage'
    BY <1>2, <2>3, <2>4, OneRead
  <2> QED BY <2>2, <2>5
<1>3. CASE req' = [req EXCEPT ![s].pc = "refresh", ![s].at = "none"]
  <2>1. PICK r \in Requests : r = [req[s] EXCEPT !.pc = "refresh", !.at = "none"]
    BY <1>0 DEF Requests
  <2>2. /\ req' = [req EXCEPT ![s] = r] /\ r.kind = req[s].kind /\ r.value = req[s].value
        /\ r.task = req[s].task /\ r.epoch = req[s].epoch /\ r.floor = req[s].floor /\ r.at = "none"
        /\ r.pc = "refresh"
    BY <1>0, <1>3, <2>1 DEF Requests
  <2> QED BY <1>1, <1>2, <2>2
<1>4. CASE req' = [req EXCEPT ![s] = DeniedRequest(req[s])]
  <2>1. PICK r \in Requests : r = [req[s] EXCEPT !.pc = "denied", !.at = "none"]
    BY <1>0 DEF Requests
  <2>2. /\ req' = [req EXCEPT ![s] = r] /\ r.kind = req[s].kind /\ r.value = req[s].value
        /\ r.task = req[s].task /\ r.epoch = req[s].epoch /\ r.floor = req[s].floor /\ r.at = "none"
        /\ r.pc = "denied"
    BY <1>0, <1>4, <2>1 DEF Requests, DeniedRequest
  <2> QED BY <1>1, <1>2, <2>2
<1>5. CASE req' = [req EXCEPT ![s] = [req[s] EXCEPT !.id = session, !.retried = TRUE, !.at = "net"]]
  <2>1. PICK r \in Requests : r = [req[s] EXCEPT !.id = session, !.retried = TRUE, !.at = "net"]
    BY <1>0 DEF Requests
  <2>2. /\ req' = [req EXCEPT ![s] = r] /\ r.kind = req[s].kind /\ r.value = req[s].value
        /\ r.task = req[s].task /\ r.epoch = req[s].epoch /\ r.floor = req[s].floor /\ r.at = "net"
        /\ r.pc = "sent"
    BY <1>0, <1>5, <2>1 DEF Requests
  <2> QED BY <1>1, <1>2, <2>2
<1>6. \/ req' = [req EXCEPT ![s].pc = "refresh", ![s].at = "none"]
      \/ req' = [req EXCEPT ![s] = IF req[s].kind = "execute" THEN DeniedRequest(req[s])
                                   ELSE [req[s] EXCEPT !.id = session, !.retried = TRUE, !.at = "net"]]
  BY DEF Mismatch
<1> QED BY <1>1, <1>3, <1>4, <1>5, <1>6

\* The page's steps on one request.
LEMMA PageKeeps ==
    ASSUME ApiInv, NEW s \in Slots, ApiPage(s) \/ Load(s) \/ RequestLost(s) PROVE ApiInv'
<1>0. ApiTypes /\ UNCHANGED apiServerVars
  BY DEF ApiInv, ApiPage, RunPoll, Denied, ResponseArrives, Load, RequestLost
<1>1. ASSUME req' \in [Slots -> Requests], pendingReads' \in [0 .. MaxLogins -> Slots \cup {0}],
             acked' \in Nat, session' \in {0, session}, ToldVersions', StatusCalls', ReadsOfPage'
      PROVE  ApiInv'
  <2>1. session' \in 0 .. MaxLogins
    BY <1>0, <1>1, ApiAssumption DEF ApiTypes
  <2>2. UNCHANGED <<logins, cookie, version, cache, shared, epoch>>
    BY <1>0 DEF apiServerVars
  <2>3. ApiTypes'
    BY <1>0, <1>1, <2>1, <2>2 DEF ApiTypes
  <2> QED BY <1>1, <2>3 DEF ApiInv
<1>2. /\ acked \in Nat /\ req \in [Slots -> Requests] /\ pendingReads \in [0 .. MaxLogins -> Slots \cup {0}]
      /\ UNCHANGED <<version, cache, shared, epoch>>
  BY <1>0 DEF ApiTypes, apiServerVars
<1>3. CASE RunPoll(s) \/ Load(s)
  <2>1. Read(s) /\ UNCHANGED <<acked, session>>
    BY <1>3 DEF RunPoll, Load
  <2> QED BY <1>1, <1>2, <2>1, ReadKeeps
<1>4. CASE Denied(s) \/ RequestLost(s)
  <2>1. Settle(s, -1) /\ UNCHANGED session
    BY <1>4 DEF Denied, RequestLost
  <2> QED BY <1>1, <1>2, <2>1, SettleKeeps
<1>5. CASE ResponseArrives(s)
  <2>1. /\ req[s].pc = "sent" /\ req[s].at \in {"401", "403", "answered"}
        /\ \/ session' = 0 /\ UNCHANGED <<req, pendingReads, acked>>
           \/ req[s].at = "403" /\ Mismatch(s)
           \/ Settle(s, req[s].value) /\ UNCHANGED session
    BY <1>5 DEF ResponseArrives
  <2>2. CASE session' = 0 /\ UNCHANGED <<req, pendingReads, acked>>
    <3>1. ToldVersions' /\ StatusCalls' /\ ReadsOfPage'
      BY <1>2, <2>2 DEF ApiInv, ToldVersions, StatusCalls, StatusCall, ReadsOfPage, AsNewAsTold
    <3> QED BY <1>1, <1>2, <2>2, <3>1
  <2>3. CASE req[s].at = "403" /\ Mismatch(s)
    BY <1>1, <1>2, <2>1, <2>3, MismatchKeeps
  <2>4. CASE Settle(s, req[s].value) /\ UNCHANGED session
    BY <1>1, <1>2, <2>1, <2>4, SettleKeeps
  <2> QED BY <2>1, <2>2, <2>3, <2>4
<1> QED BY <1>3, <1>4, <1>5 DEF ApiPage

\* Requests that waited for a session go on, or fail.
LEMMA SessionKeeps ==
    ASSUME ApiInv, SessionAnswered \/ SessionFails PROVE ApiInv'
<1>0. /\ acked \in Nat /\ req \in [Slots -> Requests] /\ pendingReads \in [0 .. MaxLogins -> Slots \cup {0}]
      /\ cookie \in 0 .. MaxLogins /\ session \in 0 .. MaxLogins /\ version \in Nat /\ ApiTypes
  BY DEF ApiInv, ApiTypes
<1>1. /\ UNCHANGED <<logins, cookie, version, cache, shared, epoch, pendingReads, acked>>
      /\ session' \in {session, cookie}
  BY DEF SessionAnswered, SessionFails, apiServerVars
<1>2. ASSUME NEW r \in Requests, Orderly(r, acked), NEW q,
             q = r \/ q = Resumed(r) \/ (q = DeniedRequest(r) /\ r.pc \in {"session", "refresh"})
      PROVE  /\ q \in Requests /\ SameCall(r, q) /\ Orderly(q, acked) /\ (Joinable(r, acked) => Joinable(q, acked))
  <2>1. CASE q = r
    BY <1>2, <2>1 DEF SameCall
  <2>2. CASE q = [r EXCEPT !.pc = "denied", !.at = "none"] /\ r.pc \in {"session", "refresh"}
    <3>1. /\ q \in Requests /\ q.kind = r.kind /\ q.value = r.value /\ q.task = r.task /\ q.epoch = r.epoch
          /\ q.floor = r.floor /\ q.at = "none" /\ q.pc = "denied" /\ r.at = "none"
      BY <1>2, <2>2 DEF Requests, Orderly
    <3> QED BY <1>2, <3>1 DEF SameCall, Orderly, Joinable
  <2>3. CASE /\ q = [r EXCEPT !.id = cookie, !.retried = (r.pc = "refresh"), !.pc = "sent", !.at = "net"]
             /\ r.pc \in {"session", "refresh"}
    <3>1. cookie \in Nat /\ (r.pc = "refresh") \in BOOLEAN
      BY <1>0
    <3>2. /\ q \in Requests /\ q.kind = r.kind /\ q.value = r.value /\ q.task = r.task /\ q.epoch = r.epoch
          /\ q.floor = r.floor /\ q.at = "net" /\ q.pc = "sent" /\ r.at = "none"
      BY <1>2, <2>3, <3>1 DEF Requests, Orderly
    <3> QED BY <1>2, <3>2 DEF SameCall, Orderly, Joinable
  <2> QED BY <1>2, <2>1, <2>2, <2>3 DEF Resumed, DeniedRequest
<1>3. \A t \in Slots : req[t] \in Requests /\ Orderly(req[t], acked)
  BY RequestsAre
<1>4. ASSUME NEW t \in Slots
      PROVE  \/ req'[t] = req[t] \/ req'[t] = Resumed(req[t])
             \/ req'[t] = DeniedRequest(req[t]) /\ req[t].pc \in {"session", "refresh"}
  BY DEF SessionAnswered, SessionFails
<1>5. ASSUME NEW t \in Slots
      PROVE  /\ req'[t] \in Requests /\ SameCall(req[t], req'[t]) /\ Orderly(req'[t], acked)
             /\ Joinable(req[t], acked) => Joinable(req'[t], acked)
  BY <1>2, <1>3, <1>4
<1>6. req' \in [Slots -> Requests]
  <2>1. req' = req \/ req' = [t \in Slots |-> req'[t]]
    BY DEF SessionAnswered, SessionFails
  <2> QED BY <1>0, <1>5, <2>1
<1>7. Plain
  BY <1>0, <1>1, <1>5, <1>6 DEF Plain
<1>8. ASSUME NEW n \in 0 .. MaxLogins, pendingReads'[n] # 0 PROVE Joinable(req'[pendingReads'[n]], acked')
  <2>1. pendingReads'[n] = pendingReads[n] /\ pendingReads[n] \in Slots
    BY <1>0, <1>1, <1>8
  <2>2. Joinable(req[pendingReads[n]], acked)
    BY <2>1, RequestsAre
  <2> QED BY <1>1, <1>5, <2>1, <2>2
<1>9. ReadsOfPage'
  BY <1>1, <1>5, <1>8, ReadsAre
<1>10. session' \in 0 .. MaxLogins
  BY <1>0, <1>1
<1>11. ApiTypes'
  BY <1>0, <1>1, <1>6, <1>10 DEF ApiTypes
<1> QED BY <1>7, <1>9, <1>11, PlainStep DEF ApiInv

\* Nothing changes for the requests.
LEMMA RestKeeps ==
    ASSUME ApiInv, UNCHANGED apiVars \/ Visibility \/ CacheExpires \/ Logout \/ \E o \in Operators : Login(o)
    PROVE  ApiInv'
<1>0. /\ UNCHANGED <<version, shared, epoch, session, pendingReads, req, acked>>
      /\ cache' \in {cache, -1}
      /\ \/ UNCHANGED logins /\ cookie' \in {0, cookie}
         \/ \E o \in Operators : Len(logins) < MaxLogins /\ logins' = Append(logins, o) /\ cookie' = Len(logins) + 1
  BY DEF apiVars, apiServerVars, Visibility, CacheExpires, Logout, Login
<1>1. ApiTypes /\ MaxLogins \in Nat
  BY ApiAssumption DEF ApiInv
<1>2. logins' \in Seq(Operators) /\ Len(logins') \in 1 .. MaxLogins /\ cookie' \in 0 .. MaxLogins
  <2>1. CASE UNCHANGED logins /\ cookie' \in {0, cookie}
    BY <1>1, <2>1 DEF ApiTypes
  <2>2. ASSUME NEW o \in Operators, Len(logins) < MaxLogins, logins' = Append(logins, o), cookie' = Len(logins) + 1
        PROVE  logins' \in Seq(Operators) /\ Len(logins') \in 1 .. MaxLogins /\ cookie' \in 0 .. MaxLogins
    BY <1>1, <2>2 DEF ApiTypes
  <2> QED BY <1>0, <2>1, <2>2
<1>3. ApiTypes'
  BY <1>0, <1>1, <1>2 DEF ApiTypes
<1>4. Plain
  BY <1>0, <1>3 DEF Plain, ApiTypes, SameCall
<1>5. ReadsOfPage'
  BY <1>0 DEF ApiInv, ReadsOfPage
<1> QED BY <1>3, <1>4, <1>5, PlainStep DEF ApiInv

-----------------------------------------------------------------------------
(* WebApi: the backend. *)

\* The page does nothing, and the backend's answers and the requests stay as they should be.
LEMMA ServerKeeps ==
    ASSUME ApiInv, UNCHANGED <<logins, cookie, session, pendingReads, acked>>, epoch' \in {epoch, epoch + 1},
           version' \in {version, version + 1}, cache' \in Nat \cup {-1}, shared' \in Slots \cup {0},
           req' \in [Slots -> Requests], ToldVersions', StatusCalls', ReadsOfPage'
    PROVE  ApiInv'
<1>1. ApiTypes'
  BY DEF ApiInv, ApiTypes
<1> QED BY <1>1 DEF ApiInv

\* The response to a request that is no status call.
LEMMA RespondIs ==
    ASSUME ApiInv, NEW s \in Slots, NEW how \in {"401", "403", "answered"}, NEW v \in Nat \cup {-1},
           Respond(s, how, v), req[s].at \in {"net", "applied"}
    PROVE  \E r \in Requests :
               /\ req' = [req EXCEPT ![s] = r] /\ r.at \in {how, "none"} /\ r.task = 0
               /\ r = Idle \/ (r.kind = req[s].kind /\ r.floor = req[s].floor /\ r.value = v /\ r.pc = req[s].pc)
               /\ r = Idle <=> req[s].pc = "done"
<1>1. req[s] \in Requests
  BY RequestsAre
<1>2. CASE req[s].pc = "done"
  BY <1>2, IdleIs DEF Respond
<1>3. CASE req[s].pc # "done"
  <2>1. PICK r \in Requests : r = [req[s] EXCEPT !.at = how, !.task = 0, !.epoch = 0, !.value = v]
    BY <1>1 DEF Requests
  <2>2. req' = [req EXCEPT ![s] = r]
    BY <1>3, <2>1 DEF Respond
  <2>3. /\ r.at = how /\ r.task = 0 /\ r.kind = req[s].kind /\ r.floor = req[s].floor /\ r.value = v
        /\ r.pc = req[s].pc
    BY <1>1, <2>1 DEF Requests
  <2> QED BY <1>3, <2>2, <2>3, IdleIs
<1> QED BY <1>2, <1>3

\* A request without effect is answered.
LEMMA RespondKeeps ==
    ASSUME ApiInv, NEW s \in Slots, NEW how \in {"401", "403", "answered"}, NEW v \in Nat \cup {-1},
           Respond(s, how, v), req[s].at = "net", req[s].kind = "execute" => v = -1,
           req[s].kind = "read" /\ how = "answered" => v >= req[s].floor,
           UNCHANGED <<version, shared, epoch, cache, acked, pendingReads>>
    PROVE  req' \in [Slots -> Requests] /\ ToldVersions' /\ StatusCalls' /\ ReadsOfPage'
<1>0. /\ acked \in Nat /\ Orderly(req[s], acked)
      /\ \A n \in 0 .. MaxLogins : pendingReads[n] = s => Joinable(req[s], acked)
  BY RequestsAre DEF ApiInv, ApiTypes
<1>1. PICK r \in Requests :
               /\ req' = [req EXCEPT ![s] = r] /\ r.at \in {how, "none"} /\ r.task = 0
               /\ r = Idle \/ (r.kind = req[s].kind /\ r.floor = req[s].floor /\ r.value = v /\ r.pc = req[s].pc)
               /\ r = Idle <=> req[s].pc = "done"
  BY RespondIs
<1>2. NoCall(req[s], r) /\ Orderly(r, acked)
  BY <1>0, <1>1, IdleIs DEF NoCall, Orderly
<1>3. req' \in [Slots -> Requests] /\ ToldVersions' /\ StatusCalls'
  BY <1>0, <1>1, <1>2, OneRequest
<1>4. acked' \in Nat /\ acked' >= acked /\ Orderly(r, acked')
  BY <1>0, <1>2
<1>5. \A n \in 0 .. MaxLogins : /\ pendingReads'[n] = pendingReads[n] /\ acked' = acked
                                /\ pendingReads'[n] = s => Joinable(r, acked')
  BY <1>0, <1>1 DEF Joinable
<1>6. ReadsOfPage'
  BY <1>1, <1>4, <1>5, OneRead
<1> QED BY <1>3, <1>6

\* A read becomes a status call.
LEMMA StatusKeeps ==
    ASSUME ApiInv, NEW s \in Slots, req[s].at = "net", req[s].kind = "read", Status(s),
           UNCHANGED <<version, cache, epoch, acked, pendingReads>>
    PROVE  /\ req' \in [Slots -> Requests] /\ shared' \in Slots \cup {0}
           /\ ToldVersions' /\ StatusCalls' /\ ReadsOfPage'
<1>0. /\ acked \in Nat /\ version \in Nat /\ epoch \in Nat /\ cache \in Nat \cup {-1} /\ shared \in Slots \cup {0}
      /\ req \in [Slots -> Requests] /\ req[s] \in Requests /\ req[s].floor \in Nat
      /\ Orderly(req[s], acked)
      /\ \A n \in 0 .. MaxLogins : pendingReads[n] = s => Joinable(req[s], acked)
  BY RequestsAre, RequestIs DEF ApiInv, ApiTypes
<1>1. req[s].floor <= acked
  BY <1>0 DEF Orderly
<1>2. CASE cache >= 0
  <2>1. Respond(s, "answered", cache) /\ UNCHANGED shared
    BY <1>2 DEF Status
  <2>2. cache >= acked
    BY <1>2 DEF ApiInv, StatusCalls, AsNewAsTold
  <2>3. cache >= req[s].floor
    BY <1>0, <1>1, <2>2
  <2> QED BY <1>0, <2>1, <2>3, RespondKeeps
<1>3. CASE ~(cache >= 0)
  <2>1. PICK k \in Slots : k = IF shared = 0 THEN s ELSE shared
    BY <1>0
  <2>2. PICK v \in Nat \cup {-1} : v = IF k = s THEN -1 ELSE req[k].value
    BY <2>1, RequestIs DEF ApiInv
  <2>3. /\ shared' = k
        /\ req' = [req EXCEPT ![s].at = "status", ![s].task = k, ![s].epoch = epoch, ![s].value = v]
    BY <1>3, <2>1, <2>2 DEF Status
  <2>4. PICK r \in Requests : r = [req[s] EXCEPT !.at = "status", !.task = k, !.epoch = epoch, !.value = v]
    BY <1>0, <2>1, <2>2 DEF Requests
  <2>5. /\ req' = [req EXCEPT ![s] = r] /\ r.kind = "read" /\ r.at = "status" /\ r.task = k /\ r.epoch = epoch
        /\ r.value = v /\ r.floor = req[s].floor /\ r.pc = req[s].pc
    <3>1. req' = [req EXCEPT ![s] = [req[s] EXCEPT !.at = "status", !.task = k, !.epoch = epoch, !.value = v]]
      BY <2>3
    <3>2. req' = [req EXCEPT ![s] = r]
      BY <2>4, <3>1
    <3>3. req[s] \in Requests /\ req[s].kind = "read"
      BY <1>0
    <3>4. /\ r.kind = "read" /\ r.at = "status" /\ r.task = k /\ r.epoch = epoch
          /\ r.value = v /\ r.floor = req[s].floor /\ r.pc = req[s].pc
      BY <2>4, <3>3 DEF Requests
    <3> QED BY <3>2, <3>4
  <2>6. req' \in [Slots -> Requests] /\ \A t \in Slots : req'[t] = IF t = s THEN r ELSE req[t]
    BY <1>0, <2>5
  <2>7. ASSUME NEW n \in Nat, AsNewAsTold(n) PROVE AsNewAsTold(n)'
    BY <2>5, <2>6, <2>7 DEF AsNewAsTold
  <2>8. ToldVersions'
    BY <2>5, <2>6 DEF ApiInv, ToldVersions
  <2>9. /\ req'[k].at = "status" /\ req'[k].task = k /\ req'[k].epoch = epoch /\ req'[k].value = v
        /\ v >= 0 => AsNewAsTold(v)
    <3>1. CASE k = s
      BY <2>2, <2>5, <2>6, <3>1
    <3>2. CASE k # s
      <4>1. k = shared /\ shared # 0
        BY <2>1, <3>2
      <4>2. req[k].at = "status" /\ req[k].task = k /\ req[k].epoch = epoch
        BY <4>1 DEF ApiInv, StatusCalls
      <4>3. StatusCall(k)
        BY <4>2 DEF ApiInv, StatusCalls
      <4> QED BY <2>2, <2>6, <3>2, <4>2, <4>3 DEF StatusCall
    <3> QED BY <3>1, <3>2
  <2>10. ASSUME NEW t \in Slots, req'[t].at = "status" PROVE StatusCall(t)'
    <3>1. CASE t = s
      <4>1. v >= 0 => v >= req[s].floor /\ AsNewAsTold(v)'
        BY <1>0, <1>1, <2>7, <2>9 DEF AsNewAsTold
      <4>2. req'[s] = r
        BY <2>6
      <4> QED BY <1>0, <2>1, <2>5, <2>9, <3>1, <4>1, <4>2 DEF StatusCall, AsNewAsTold
    <3>2. CASE t # s
      <4>1. req[t].at = "status" /\ SameCall(req[t], req'[t])
        BY <2>6, <2>10, <3>2 DEF SameCall
      <4>2. StatusCall(t)
        BY <4>1 DEF ApiInv, StatusCalls
      <4>3. ASSUME NEW j \in Slots, j = req[t].task PROVE SameCall(req[j], req'[j])
        BY <2>6, <4>2, <4>3 DEF StatusCall, SameCall
      <4> QED BY <2>7, <4>1, <4>2, <4>3, CallStays DEF ApiInv
    <3> QED BY <3>1, <3>2
  <2>11. ASSUME NEW t \in Slots, req'[t].at # "status" PROVE req'[t].task = 0
    BY <2>5, <2>6, <2>11, RequestsAre
  <2>12. StatusCalls'
    BY <1>3, <2>3, <2>9, <2>10, <2>11 DEF StatusCalls
  <2>13. Orderly(r, acked') /\ acked' \in Nat /\ acked' >= acked
    BY <1>0, <2>5 DEF Orderly
  <2>14. \A n \in 0 .. MaxLogins : /\ pendingReads'[n] = pendingReads[n] /\ acked' = acked
                                   /\ pendingReads'[n] = s => Joinable(r, acked')
    BY <1>0, <2>5 DEF Joinable
  <2>15. ReadsOfPage'
    BY <2>5, <2>13, <2>14, OneRead
  <2> QED BY <2>3, <2>6, <2>8, <2>12, <2>15
<1> QED BY <1>2, <1>3

\* After an execute nothing that was kept or asked before is shared.
LEMMA InvalidateKeeps ==
    ASSUME ApiInv, NEW s \in Slots, NEW r \in Requests, req' = [req EXCEPT ![s] = r], Invalidate,
           req[s].at # "status", r.at # "status", r.task = 0, r.kind = "execute" => r.value <= version,
           Orderly(r, acked), Joinable(req[s], acked) => Joinable(r, acked),
           UNCHANGED <<version, acked, pendingReads>>
    PROVE  /\ req' \in [Slots -> Requests] /\ cache' = -1 /\ shared' = 0 /\ epoch' = epoch + 1
           /\ ToldVersions' /\ StatusCalls' /\ ReadsOfPage'
<1>0. /\ acked \in Nat /\ req \in [Slots -> Requests] /\ cache' = -1 /\ shared' = 0 /\ epoch' = epoch + 1
      /\ \A n \in 0 .. MaxLogins : pendingReads[n] = s => Joinable(req[s], acked)
  BY RequestsAre DEF ApiInv, ApiTypes, Invalidate
<1>1. req' \in [Slots -> Requests] /\ \A t \in Slots : req'[t] = IF t = s THEN r ELSE req[t]
  BY <1>0
<1>2. ToldVersions'
  BY <1>1 DEF ApiInv, ToldVersions
<1>3. ASSUME NEW t \in Slots, req'[t].at = "status" PROVE StatusCall(t)'
  <2>1. req[t].at = "status" /\ SameCall(req[t], req'[t])
    BY <1>1, <1>3 DEF SameCall
  <2>2. StatusCall(t)
    BY <2>1 DEF ApiInv, StatusCalls
  <2>3. ASSUME NEW k \in Slots, k = req[t].task PROVE SameCall(req[k], req'[k])
    BY <1>1, <2>2, <2>3 DEF StatusCall, SameCall
  <2> QED BY <1>0, <2>1, <2>2, <2>3, CallStays DEF ApiInv
<1>4. ASSUME NEW t \in Slots, req'[t].at # "status" PROVE req'[t].task = 0
  BY <1>1, <1>4, RequestsAre
<1>5. StatusCalls'
  BY <1>0, <1>3, <1>4 DEF StatusCalls
<1>6. acked' \in Nat /\ acked' >= acked /\ Orderly(r, acked')
  BY <1>0
<1>7. \A n \in 0 .. MaxLogins : /\ pendingReads'[n] = pendingReads[n] /\ acked' = acked
                                /\ pendingReads'[n] = s => Joinable(r, acked')
  BY <1>0
<1>8. ReadsOfPage'
  BY <1>6, <1>7, OneRead
<1> QED BY <1>0, <1>1, <1>2, <1>5, <1>8

\* A request arrives.
LEMMA ArriveKeeps ==
    ASSUME ApiInv, NEW s \in Slots, Arrive(s) PROVE ApiInv'
<1>0. /\ req[s].at = "net" /\ UNCHANGED <<logins, cookie, session, version, acked, pendingReads>>
      /\ req[s] \in Requests /\ Orderly(req[s], acked) /\ req[s].task = 0 /\ acked \in Nat /\ version \in Nat
      /\ cache \in Nat \cup {-1} /\ epoch \in Nat /\ shared \in Slots \cup {0}
  BY RequestsAre DEF Arrive, ApiInv, ApiTypes
<1>1. CASE Respond(s, "401", -1) /\ UNCHANGED <<cache, shared, epoch>>
  <2>1. req' \in [Slots -> Requests] /\ ToldVersions' /\ StatusCalls' /\ ReadsOfPage'
    BY <1>0, <1>1, RespondKeeps
  <2> QED BY <1>0, <1>1, <2>1, ServerKeeps
<1>2. CASE Respond(s, "403", -1) /\ UNCHANGED <<cache, shared, epoch>>
  <2>1. req' \in [Slots -> Requests] /\ ToldVersions' /\ StatusCalls' /\ ReadsOfPage'
    BY <1>0, <1>2, RespondKeeps
  <2> QED BY <1>0, <1>2, <2>1, ServerKeeps
<1>3. CASE req[s].kind = "query" /\ Respond(s, "answered", version) /\ UNCHANGED <<cache, shared, epoch>>
  <2>1. req' \in [Slots -> Requests] /\ ToldVersions' /\ StatusCalls' /\ ReadsOfPage'
    BY <1>0, <1>3, RespondKeeps
  <2> QED BY <1>0, <1>3, <2>1, ServerKeeps
<1>4. CASE req[s].kind = "read" /\ Status(s) /\ UNCHANGED <<cache, epoch>>
  <2>1. /\ req' \in [Slots -> Requests] /\ shared' \in Slots \cup {0}
        /\ ToldVersions' /\ StatusCalls' /\ ReadsOfPage'
    BY <1>0, <1>4, StatusKeeps
  <2> QED BY <1>0, <1>4, <2>1, ServerKeeps
<1>5. CASE req[s].kind # "read" /\ Invalidate /\ req' = [req EXCEPT ![s].at = "supervisor"]
  <2>1. PICK r \in Requests : r = [req[s] EXCEPT !.at = "supervisor"]
    BY <1>0 DEF Requests
  <2>2. /\ req' = [req EXCEPT ![s] = r] /\ r.at = "supervisor" /\ r.kind = req[s].kind /\ r.pc = req[s].pc
        /\ r.value = req[s].value /\ r.task = 0 /\ r.floor = req[s].floor
    BY <1>0, <1>5, <2>1 DEF Requests
  <2>3. Orderly(r, acked) /\ ~Joinable(req[s], acked)
    BY <1>0, <1>5, <2>2 DEF Orderly, Joinable
  <2>4. r.kind = "execute" => r.value <= version
    BY <2>2 DEF ApiInv, ToldVersions
  <2>5. /\ req' \in [Slots -> Requests] /\ cache' = -1 /\ shared' = 0 /\ epoch' = epoch + 1
        /\ ToldVersions' /\ StatusCalls' /\ ReadsOfPage'
    BY <1>0, <1>5, <2>2, <2>3, <2>4, InvalidateKeeps
  <2> QED BY <1>0, <2>5, ServerKeeps
<1>6. \/ Respond(s, "401", -1) /\ UNCHANGED <<cache, shared, epoch>>
      \/ Respond(s, "403", -1) /\ UNCHANGED <<cache, shared, epoch>>
      \/ req[s].kind = "read" /\ Status(s) /\ UNCHANGED <<cache, epoch>>
      \/ req[s].kind = "query" /\ Respond(s, "answered", version) /\ UNCHANGED <<cache, shared, epoch>>
      \/ req[s].kind # "read" /\ Invalidate /\ req' = [req EXCEPT ![s].at = "supervisor"]
  BY DEF Arrive
<1> QED BY <1>1, <1>2, <1>3, <1>4, <1>5, <1>6

\* An execute ends.
LEMMA ExecuteDoneKeeps ==
    ASSUME ApiInv, NEW s \in Slots, ExecuteDone(s) PROVE ApiInv'
<1>0. /\ req[s].at = "applied" /\ UNCHANGED <<logins, cookie, session, version, acked, pendingReads>> /\ Invalidate
      /\ req[s] \in Requests /\ Orderly(req[s], acked) /\ req[s].value \in Nat \cup {-1} /\ version \in Nat
      /\ epoch \in Nat
  BY RequestsAre, RequestIs DEF ExecuteDone, ApiInv, ApiTypes
<1>1. PICK v \in {-1, req[s].value} : Respond(s, "answered", v)
  BY DEF ExecuteDone
<1>2. v \in Nat \cup {-1}
  BY <1>0
<1>3. PICK r \in Requests :
               /\ req' = [req EXCEPT ![s] = r] /\ r.at \in {"answered", "none"} /\ r.task = 0
               /\ r = Idle \/ (r.kind = req[s].kind /\ r.floor = req[s].floor /\ r.value = v /\ r.pc = req[s].pc)
               /\ r = Idle <=> req[s].pc = "done"
  BY <1>0, <1>1, <1>2, RespondIs
<1>4. req[s].kind # "read" /\ ~Joinable(req[s], acked) /\ req[s].pc \notin {"session", "refresh", "denied"}
  BY <1>0 DEF Orderly, Joinable
<1>5. Orderly(r, acked)
  BY <1>3, <1>4, IdleIs DEF Orderly
<1>6. r.kind = "execute" => r.value <= version
  BY <1>0, <1>3, IdleIs DEF ApiInv, ToldVersions
<1>7. /\ req' \in [Slots -> Requests] /\ cache' = -1 /\ shared' = 0 /\ epoch' = epoch + 1
      /\ ToldVersions' /\ StatusCalls' /\ ReadsOfPage'
  BY <1>0, <1>3, <1>4, <1>5, <1>6, InvalidateKeeps
<1> QED BY <1>0, <1>7, ServerKeeps

\* The supervisor runs an operation.
LEMMA OperationKeeps ==
    ASSUME ApiInv, NEW s \in Slots, req[s].at = "supervisor", version' = version + 1,
           req' = [req EXCEPT ![s].at = "applied", ![s].value = version + 1],
           UNCHANGED <<logins, cookie, session, cache, shared, epoch, acked, pendingReads>>
    PROVE  ApiInv'
<1>0. /\ req[s] \in Requests /\ Orderly(req[s], acked) /\ req[s].task = 0 /\ acked \in Nat /\ version \in Nat
      /\ cache \in Nat \cup {-1} /\ shared \in Slots \cup {0} /\ epoch \in Nat /\ req \in [Slots -> Requests]
      /\ \A n \in 0 .. MaxLogins : pendingReads[n] = s => Joinable(req[s], acked)
  BY RequestsAre DEF ApiInv, ApiTypes
<1>1. PICK r \in Requests : r = [req[s] EXCEPT !.at = "applied", !.value = version + 1]
  <2>1. PICK v \in Nat \cup {-1} : v = version + 1
    BY <1>0
  <2>2. [req[s] EXCEPT !.at = "applied", !.value = v] \in Requests
    BY <1>0 DEF Requests
  <2> QED BY <2>1, <2>2
<1>2. /\ req' = [req EXCEPT ![s] = r] /\ r.at = "applied" /\ r.kind = req[s].kind /\ r.pc = req[s].pc
      /\ r.value = version + 1 /\ r.task = 0
  <2> DEFINE v == version + 1
  <2>1. req' = [req EXCEPT ![s] = [req[s] EXCEPT !.at = "applied", !.value = v]]
    OBVIOUS
  <2>2. r = [req[s] EXCEPT !.at = "applied", !.value = v]
    BY <1>1
  <2> HIDE DEF v
  <2>3. req' = [req EXCEPT ![s] = r]
    BY <2>1, <2>2
  <2>4. /\ r.at = "applied" /\ r.kind = req[s].kind /\ r.pc = req[s].pc
        /\ r.value = v /\ r.task = req[s].task
    BY <1>0, <2>2 DEF Requests
  <2> QED BY <1>0, <2>3, <2>4 DEF v
<1>3. req[s].kind # "read" /\ req[s].pc \notin {"session", "refresh", "denied"}
  BY <1>0 DEF Orderly
<1>4. NoCall(req[s], r)
  BY <1>0, <1>2 DEF NoCall
<1>5. req' \in [Slots -> Requests] /\ ToldVersions' /\ StatusCalls'
  BY <1>0, <1>2, <1>4, OneRequest
<1>6. acked' \in Nat /\ acked' >= acked /\ Orderly(r, acked')
  BY <1>0, <1>2, <1>3 DEF Orderly
<1>7. \A n \in 0 .. MaxLogins : /\ pendingReads'[n] = pendingReads[n] /\ acked' = acked
                                /\ pendingReads'[n] # s
  BY <1>0, <1>3 DEF Joinable
<1>8. ReadsOfPage'
  BY <1>2, <1>6, <1>7, OneRead
<1> QED BY <1>0, <1>5, <1>8, ServerKeeps

\* The supervisor answers a status question with what it knows now.
LEMMA QuestionKeeps ==
    ASSUME ApiInv, NEW s \in Slots, req[s].at = "status",
           req' = [t \in Slots |-> IF req[t].task = s THEN [req[t] EXCEPT !.value = version] ELSE req[t]],
           UNCHANGED <<logins, cookie, session, version, cache, shared, epoch, acked, pendingReads>>
    PROVE  ApiInv'
<1>0. /\ acked \in Nat /\ version \in Nat /\ cache \in Nat \cup {-1} /\ shared \in Slots \cup {0} /\ epoch \in Nat
      /\ req \in [Slots -> Requests] /\ pendingReads \in [0 .. MaxLogins -> Slots \cup {0}] /\ s # 0
  BY IdleIs DEF ApiInv, ApiTypes
<1>1. ASSUME NEW t \in Slots
      PROVE  /\ req'[t] \in Requests /\ req'[t].kind = req[t].kind /\ req'[t].pc = req[t].pc
             /\ req'[t].at = req[t].at /\ req'[t].task = req[t].task /\ req'[t].epoch = req[t].epoch
             /\ req'[t].floor = req[t].floor
             /\ req'[t].value = IF req[t].task = s THEN version ELSE req[t].value
  <2>1. req[t] \in Requests /\ version \in Nat \cup {-1}
    BY <1>0
  <2>2. CASE req[t].task = s
    <3> DEFINE r == [req[t] EXCEPT !.value = version]
    <3>1. req'[t] = r
      BY <2>2
    <3>2. /\ r \in Requests /\ r.kind = req[t].kind /\ r.pc = req[t].pc /\ r.at = req[t].at
          /\ r.task = req[t].task /\ r.epoch = req[t].epoch /\ r.floor = req[t].floor /\ r.value = version
      BY <2>1 DEF Requests
    <3> HIDE DEF r
    <3> QED BY <2>2, <3>1, <3>2
  <2>3. CASE req[t].task # s
    BY <2>1, <2>3
  <2> QED BY <2>2, <2>3
<1>2. req' \in [Slots -> Requests]
  BY <1>1
<1>3. \A t \in Slots : req[t].task = s => req[t].at = "status" /\ req[t].kind = "read"
  BY <1>0, RequestsAre
<1>4. ToldVersions'
  BY <1>1, <1>3 DEF ApiInv, ToldVersions
<1>5. ASSUME NEW n \in Nat, AsNewAsTold(n) PROVE AsNewAsTold(n)'
  BY <1>1, <1>3, <1>5 DEF AsNewAsTold
<1>6. AsNewAsTold(version)'
  <2>1. acked <= version /\ \A t \in Slots : req[t].kind = "execute" => req[t].value <= version
    BY DEF ApiInv, ToldVersions
  <2>2. \A t \in Slots : req[t].value \in Nat \cup {-1}
    BY RequestIs DEF ApiInv
  <2> QED BY <1>0, <1>1, <1>3, <2>1, <2>2 DEF AsNewAsTold
<1>7. ASSUME NEW t \in Slots, req'[t].at = "status" PROVE StatusCall(t)'
  <2>1. req[t].at = "status" /\ StatusCall(t)
    BY <1>1, <1>7 DEF ApiInv, StatusCalls
  <2>2. CASE req[t].task # s
    <3>1. SameCall(req[t], req'[t])
      BY <1>1, <2>2 DEF SameCall
    <3>2. ASSUME NEW k \in Slots, k = req[t].task PROVE SameCall(req[k], req'[k])
      BY <1>1, <2>1, <2>2, <3>2 DEF SameCall, StatusCall
    <3> QED BY <1>5, <2>1, <3>1, <3>2, CallStays DEF ApiInv
  <2>3. CASE req[t].task = s
    <3>1. req[s].task = s /\ req[t].kind = "read" /\ req[t].epoch <= epoch
      BY <2>1, <2>3 DEF StatusCall
    <3>2. version >= req[t].floor
      <4>1. req[t].floor <= acked /\ acked <= version /\ req[t].floor \in Nat
        BY <3>1, RequestIs DEF ApiInv, ReadsOfPage, ToldVersions
      <4> QED BY <1>0, <4>1
    <3>3. /\ req'[t].value = version /\ req'[s].value = version /\ req'[s].at = "status" /\ req'[s].task = s
          /\ req'[t].task = s
      BY <1>1, <2>3, <3>1
    <3> QED BY <1>1, <1>6, <3>1, <3>2, <3>3 DEF StatusCall, AsNewAsTold
  <2> QED BY <2>2, <2>3
<1>8. StatusCalls'
  <2>1. ASSUME NEW t \in Slots, req'[t].at # "status" PROVE req'[t].task = 0
    BY <1>1, <2>1, RequestsAre
  <2>2. shared' # 0 => req'[shared'].at = "status" /\ req'[shared'].task = shared' /\ req'[shared'].epoch = epoch'
    BY <1>0, <1>1 DEF ApiInv, StatusCalls
  <2>3. cache' >= 0 => AsNewAsTold(cache)'
    <3>1. PICK c : c = cache
      OBVIOUS
    <3>2. c >= 0 => AsNewAsTold(c)'
      BY <1>0, <1>5, <3>1 DEF ApiInv, StatusCalls
    <3> QED BY <3>1, <3>2 DEF AsNewAsTold
  <2> QED BY <1>7, <2>1, <2>2, <2>3 DEF StatusCalls
<1>9. ReadsOfPage'
  <2>1. \A t \in Slots : Orderly(req'[t], acked')
    BY <1>1, <1>3, RequestsAre DEF Orderly
  <2>2. ASSUME NEW n \in 0 .. MaxLogins, pendingReads'[n] # 0 PROVE Joinable(req'[pendingReads'[n]], acked')
    <3>1. pendingReads'[n] = pendingReads[n] /\ pendingReads[n] \in Slots
      BY <1>0, <2>2
    <3>2. Joinable(req[pendingReads[n]], acked)
      BY <3>1, RequestsAre
    <3> QED BY <1>1, <3>1, <3>2 DEF Joinable
  <2> QED BY <2>1, <2>2, ReadsAre
<1> QED BY <1>0, <1>2, <1>4, <1>8, <1>9, ServerKeeps

\* A status question has its answer.
LEMMA StatusDoneKeeps ==
    ASSUME ApiInv, NEW s \in Slots, StatusDone(s) PROVE ApiInv'
<1> DEFINE Awaits(t) == req[t].task = s /\ req[t].at = "status"
<1>0. /\ acked \in Nat /\ version \in Nat /\ cache \in Nat \cup {-1} /\ shared \in Slots \cup {0} /\ epoch \in Nat
      /\ req \in [Slots -> Requests] /\ pendingReads \in [0 .. MaxLogins -> Slots \cup {0}] /\ s # 0
      /\ req[s].value \in Nat /\ Awaits(s)
      /\ UNCHANGED <<logins, cookie, session, version, epoch, acked, pendingReads>>
  <2>1. req[s].value \in Nat \cup {-1} /\ req[s].value >= 0
    BY RequestIs DEF ApiInv, StatusDone
  <2>2. Awaits(s) /\ UNCHANGED <<logins, cookie, session, version, epoch, acked, pendingReads>>
    BY DEF StatusDone
  <2> HIDE DEF Awaits
  <2> QED BY <2>1, <2>2, IdleIs DEF ApiInv, ApiTypes
<1>1. ASSUME NEW t \in Slots
      PROVE  /\ req'[t] \in Requests /\ (~Awaits(t) => req'[t] = req[t])
             /\ Awaits(t) => /\ req'[t].task = 0 /\ req'[t].at # "status"
                             /\ IF req[t].pc = "done" THEN req'[t] = Idle
                                ELSE /\ req'[t].kind = req[t].kind /\ req'[t].pc = req[t].pc
                                     /\ req'[t].at = "answered" /\ req'[t].floor = req[t].floor
                                     /\ req'[t].value = req[t].value
  <2>1. req'[t] = IF ~Awaits(t) THEN req[t] ELSE IF req[t].pc = "done" THEN Idle
                  ELSE [req[t] EXCEPT !.at = "answered", !.task = 0, !.epoch = 0]
    BY <1>0 DEF StatusDone
  <2>2. req[t] \in Requests
    BY <1>0
  <2> HIDE DEF Awaits
  <2>3. CASE ~Awaits(t)
    BY <2>1, <2>2, <2>3
  <2>4. CASE Awaits(t) /\ req[t].pc = "done"
    BY <2>1, <2>4, IdleIs
  <2>5. CASE Awaits(t) /\ req[t].pc # "done"
    <3>1. PICK r \in Requests : r = [req[t] EXCEPT !.at = "answered", !.task = 0, !.epoch = 0]
      BY <2>2 DEF Requests
    <3>2. /\ r.task = 0 /\ r.at = "answered" /\ r.kind = req[t].kind /\ r.pc = req[t].pc
          /\ r.floor = req[t].floor /\ r.value = req[t].value
      BY <2>2, <3>1 DEF Requests
    <3>3. req'[t] = r
      BY <2>1, <2>5, <3>1
    <3> QED BY <2>5, <3>2, <3>3
  <2> QED BY <2>3, <2>4, <2>5
<1>2. req' \in [Slots -> Requests]
  <2>1. req' = [t \in Slots |-> req'[t]]
    BY DEF StatusDone
  <2> QED BY <1>1, <2>1
<1>3. ASSUME NEW t \in Slots, Awaits(t)
      PROVE  /\ req[t].kind = "read" /\ req[t].value = req[s].value /\ req[t].value >= req[t].floor
             /\ req[t].epoch = epoch => AsNewAsTold(req[s].value)
  <2>1. StatusCall(t)
    BY <1>3 DEF ApiInv, StatusCalls
  <2> QED BY <1>0, <1>3, <2>1 DEF StatusCall
<1>4. \A t \in Slots : req'[t].kind = "execute" => req'[t] = req[t]
  BY <1>1, <1>3, IdleIs
<1>5. ToldVersions'
  BY <1>0, <1>4 DEF ApiInv, ToldVersions
<1>6. ASSUME NEW n \in Nat, AsNewAsTold(n) PROVE AsNewAsTold(n)'
  BY <1>0, <1>4, <1>6 DEF AsNewAsTold
<1>7. ASSUME NEW t \in Slots, req'[t].at = "status" PROVE StatusCall(t)'
  <2>1. ~Awaits(t) /\ req'[t] = req[t]
    BY <1>1, <1>7
  <2>2. req[t].at = "status" /\ StatusCall(t) /\ SameCall(req[t], req'[t])
    BY <1>7, <2>1 DEF ApiInv, StatusCalls, SameCall
  <2>3. ASSUME NEW k \in Slots, k = req[t].task PROVE SameCall(req[k], req'[k])
    <3>1. k # s /\ req[k].task = k
      BY <2>1, <2>2, <2>3 DEF StatusCall
    <3> QED BY <1>1, <3>1 DEF SameCall
  <2> QED BY <1>0, <1>6, <2>2, <2>3, CallStays DEF ApiInv
<1>8. \A t \in Slots : req'[t].at # "status" => req'[t].task = 0
  BY <1>1, RequestsAre
<1>9. shared' \in Slots \cup {0} /\
      (shared' # 0 => req'[shared'].at = "status" /\ req'[shared'].task = shared' /\ req'[shared'].epoch = epoch')
  <2>1. shared' = IF shared = s THEN 0 ELSE shared
    BY DEF StatusDone
  <2>2. CASE shared # s /\ shared # 0
    <3>1. shared \in Slots /\ req[shared].at = "status" /\ req[shared].task = shared /\ req[shared].epoch = epoch
      BY <1>0, <2>2 DEF ApiInv, StatusCalls
    <3>2. req'[shared] = req[shared]
      BY <1>1, <2>2, <3>1
    <3> QED BY <1>0, <2>1, <2>2, <3>1, <3>2
  <2> QED BY <1>0, <2>1, <2>2
<1>10. cache' \in Nat \cup {-1} /\ (cache' >= 0 => AsNewAsTold(cache)')
  <2>1. \/ cache' = cache
        \/ cache' = req[s].value /\ \E t \in Slots : Awaits(t) /\ req[t].epoch = epoch
    BY DEF StatusDone, Cacheable
  <2>2. PICK c : c = cache'
    OBVIOUS
  <2>3. c \in Nat \cup {-1} /\ (c >= 0 => AsNewAsTold(c))
    BY <1>0, <1>3, <2>1, <2>2 DEF ApiInv, StatusCalls
  <2>4. c >= 0 => AsNewAsTold(c)'
    BY <1>6, <2>3
  <2> QED BY <2>2, <2>3, <2>4 DEF AsNewAsTold
<1>11. StatusCalls'
  BY <1>7, <1>8, <1>9, <1>10 DEF StatusCalls
<1>12. ReadsOfPage'
  <2>1. ASSUME NEW t \in Slots PROVE Orderly(req'[t], acked')
    <3>1. Orderly(req[t], acked)
      BY RequestsAre
    <3>2. CASE ~Awaits(t)
      BY <1>0, <1>1, <3>1, <3>2
    <3>3. CASE Awaits(t) /\ req[t].pc = "done"
      BY <1>1, <3>3, IdleIs DEF Orderly
    <3>4. CASE Awaits(t) /\ req[t].pc # "done"
      BY <1>0, <1>1, <1>3, <3>1, <3>4 DEF Orderly
    <3> QED BY <3>2, <3>3, <3>4
  <2>2. ASSUME NEW n \in 0 .. MaxLogins, pendingReads'[n] # 0 PROVE Joinable(req'[pendingReads'[n]], acked')
    <3>1. pendingReads'[n] = pendingReads[n] /\ pendingReads[n] \in Slots
      BY <1>0, <2>2
    <3>2. Joinable(req[pendingReads[n]], acked)
      BY <3>1, RequestsAre
    <3> QED BY <1>0, <1>1, <3>1, <3>2 DEF Joinable
  <2> QED BY <2>1, <2>2, ReadsAre
<1> QED BY <1>0, <1>2, <1>5, <1>9, <1>10, <1>11, <1>12, ServerKeeps

\* Nothing is asked or reported at first.
LEMMA ApiStart == ApiInit => ApiInv
<1> SUFFICES ASSUME ApiInit PROVE ApiInv
  OBVIOUS
<1>1. logins \in Seq(Operators) /\ Len(logins) = 1
  BY ApiAssumption DEF ApiInit
<1>2. \A s \in Slots : req[s] = Idle
  BY DEF ApiInit
<1>3. ApiTypes
  BY <1>1, ApiAssumption, IdleIs, NoReadsAre DEF ApiInit, ApiTypes
<1>4. ToldVersions /\ StatusCalls /\ ReadsOfPage
  BY <1>2, IdleIs, NoReadsAre DEF ApiInit, ToldVersions, StatusCalls, ReadsOfPage
<1> QED BY <1>3, <1>4 DEF ApiInv

\* Every step keeps the invariant.
LEMMA ApiKept == ApiInv /\ [ApiNext]_apiVars => ApiInv'
<1> SUFFICES ASSUME ApiInv, [ApiNext]_apiVars PROVE ApiInv'
  OBVIOUS
<1>1. ASSUME NEW s \in Slots, Supervise(s) PROVE ApiInv'
  BY <1>1, OperationKeeps, QuestionKeeps DEF Supervise
<1>2. CASE \E s \in Slots : ApiPage(s) \/ ApiServer(s) \/ Load(s) \/ RequestLost(s)
  BY <1>1, <1>2, PageKeeps, ArriveKeeps, StatusDoneKeeps, ExecuteDoneKeeps DEF ApiServer
<1>3. CASE \E s \in Slots, kind \in {"query", "execute"} : Write(s, kind)
  BY <1>3, WriteKeeps
<1>4. CASE SessionAnswered \/ SessionFails
  BY <1>4, SessionKeeps
<1> QED BY <1>2, <1>3, <1>4, RestKeeps DEF ApiNext, ApiStep

\* A read that the page makes after an execute was reported done brings no state from before it
\* (ReadsSeeWrites: api, GroupRuntimeClient), for any number of requests, executes, sign-ins and
\* lost connections.
THEOREM ReadsAreFresh == ApiInit /\ [][ApiNext]_apiVars => []ReadsSeeWrites
<1>1. ApiInv => ReadsSeeWrites
  BY DEF ApiInv, ReadsOfPage, ReadsSeeWrites
<1> QED BY <1>1, ApiStart, ApiKept, PTL
=============================================================================
