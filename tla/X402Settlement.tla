---------------------------- MODULE X402Settlement ---------------------------
(***************************************************************************)
(* The x402 paid route of the gateway: concurrent request handlers, in one *)
(* or several gateway processes, that share the PostgreSQL challenge and   *)
(* settlement tables and call a remote facilitator.  A handler is a future *)
(* that is suspended at every await, so each await is a step; a dropped    *)
(* connection, the request timeout or a crash ends it between two steps    *)
(* and runs nothing else of it.                                            *)
(***************************************************************************)
EXTENDS Integers, FiniteSets

CONSTANTS
    Handlers,        \* requests that can be in progress at once
    Routes,          \* services with a paid route
    Inputs,          \* request bodies, by their digest
    Oversized,       \* inputs whose result exceeds MAX_RESULT_JSON
    Memos,           \* challenge memos the random source can draw
    Txs,             \* signed payment transactions, by their digest
    Tokens,          \* lease tokens (UUIDs)
    Responses,       \* settle responses of the facilitator
    NoLease, NoBinding, NoResponse, NoTx,
    LeaseSecs,       \* LEASE_SECS
    FailRetrySecs,   \* FAIL_RETRY_SECS
    ChallengeSecs,   \* max_timeout_seconds of a challenge
    PurgeLimit,      \* expired challenges deleted per issue
    RequestTimeout,  \* request_timeout_ms, of the timeout layer
    MaxTime          \* the clock's bound

ASSUME TimingAssumption ==
    /\ {LeaseSecs, FailRetrySecs, ChallengeSecs, PurgeLimit, MaxTime} \subseteq Nat
    /\ RequestTimeout \in Nat \ {0}
ASSUME NullAssumption ==
    /\ NoLease \notin Tokens
    /\ NoResponse \notin Responses
    /\ NoTx \notin Txs
ASSUME InputAssumption == Oversized \subseteq Inputs

Bindings == [route: Routes, input: Inputs, memo: Memos]

ASSUME BindingAssumption == NoBinding \notin Bindings

VARIABLES
    now,         \* the clock of the gateways, the database and the cluster
    challenge,   \* x402_challenges, by memo
    row,         \* x402_settlements, by transaction digest
    handler,     \* the local state of each request handler
    charged,     \* transactions the facilitator has settled
    served       \* what clients have received with status 200

vars == <<now, challenge, row, handler, charged, served>>

Time == 0 .. MaxTime + LeaseSecs + ChallengeSecs

\* A memo is drawn at most once, so a deleted challenge stays "gone".
ChallengeRecord == [status: {"unused", "open", "gone"},
                    binding: Bindings \cup {NoBinding}, expires: Time]

RowRecord == [state: {"unseen", "settling", "settled", "failed"},
              lease: Tokens \cup {NoLease}, until: Time, failedAt: Time,
              binding: Bindings \cup {NoBinding}, response: Responses \cup {NoResponse}]

\* The await a handler is suspended at.
Points == {"idle", "challenge", "begin", "insert", "verify", "settle", "complete",
           "fail", "reply"}

HandlerRecord == [at: Points, binding: Bindings \cup {NoBinding}, tx: Txs \cup {NoTx},
                  started: Time, lease: Tokens \cup {NoLease},
                  response: Responses \cup {NoResponse}]

Unseen == [state |-> "unseen", lease |-> NoLease, until |-> 0, failedAt |-> 0,
           binding |-> NoBinding, response |-> NoResponse]

Idle == [at |-> "idle", binding |-> NoBinding, tx |-> NoTx, started |-> 0,
         lease |-> NoLease, response |-> NoResponse]

Blank == [status |-> "unused", binding |-> NoBinding, expires |-> 0]

Init ==
    /\ now = 0
    /\ challenge = [m \in Memos |-> Blank]
    /\ row = [t \in Txs |-> Unseen]
    /\ handler = [h \in Handlers |-> Idle]
    /\ charged = {}
    /\ served = {}

-----------------------------------------------------------------------------
(* Challenges *)

\* A request without a payment header: a challenge is stored under a fresh
\* memo, and then up to PurgeLimit of the expired ones are deleted.  An error of
\* the purge is ignored, and it does not run when the request is dropped.
Expired(t) == {m \in Memos : challenge[m].status = "open" /\ challenge[m].expires < t}

Issue(route, input) ==
    \E m \in Memos, purged \in SUBSET Expired(now) :
        /\ challenge[m].status = "unused"
        /\ \/ purged = {}
           \/ IF Cardinality(Expired(now)) <= PurgeLimit
              THEN purged = Expired(now)
              ELSE Cardinality(purged) = PurgeLimit
        /\ challenge' =
             [x \in Memos |->
                IF x = m THEN [status |-> "open",
                               binding |-> [route |-> route, input |-> input, memo |-> m],
                               expires |-> now + ChallengeSecs]
                ELSE IF x \in purged THEN [challenge[x] EXCEPT !.status = "gone"]
                ELSE challenge[x]]
        /\ UNCHANGED <<now, row, handler, charged, served>>

\* A request at a route with an input and a payment header, which names a memo
\* and carries a transaction.  The handler reads the clock once.
Receive(h, b, tx) ==
    /\ handler[h].at = "idle"
    /\ handler' = [handler EXCEPT ![h] =
                     [at |-> "challenge", binding |-> b, tx |-> tx, started |-> now,
                      lease |-> NoLease, response |-> NoResponse]]
    /\ UNCHANGED <<now, challenge, row, charged, served>>

GoTo(h, point) == handler' = [handler EXCEPT ![h].at = point]

\* The handler returns, with an error or because it was dropped.
Return(h) == handler' = [handler EXCEPT ![h] = Idle]

\* get_valid and validate_payment_payload.  The payload is compared with the
\* challenge its memo names; what the payload does not repeat, such as the
\* route of the request, is not compared.
PayloadMatches(h) ==
    LET c == challenge[handler[h].binding.memo] IN
    /\ c.status = "open"
    /\ handler[h].started <= c.expires
    /\ c.binding.input = handler[h].binding.input

GetValid(h) ==
    /\ handler[h].at = "challenge"
    /\ PayloadMatches(h)
    /\ GoTo(h, "begin")
    /\ UNCHANGED <<now, challenge, row, charged, served>>

\* An unknown memo, a payload that differs from the challenge or an expired
\* challenge, which is deleted.
GetInvalid(h) ==
    LET m == handler[h].binding.memo
        late == challenge[m].status = "open" /\ handler[h].started > challenge[m].expires
    IN  /\ handler[h].at = "challenge"
        /\ challenge' = IF late THEN [challenge EXCEPT ![m].status = "gone"] ELSE challenge
        /\ Return(h)
        /\ UNCHANGED <<now, row, charged, served>>

-----------------------------------------------------------------------------
(* The settlement row *)

RowOf(h) == row[handler[h].tx]

\* A UUID that no row and no handler knows.
FreshToken(t) ==
    /\ \A x \in Txs : row[x].lease # t
    /\ \A h \in Handlers : handler[h].lease # t

\* The row is written with a new lease for handler h.
TakeLease(h) ==
    \E t \in Tokens :
        /\ FreshToken(t)
        /\ row' = [row EXCEPT ![handler[h].tx] =
                     [state |-> "settling", lease |-> t, until |-> now + LeaseSecs,
                      failedAt |-> 0, binding |-> handler[h].binding, response |-> NoResponse]]
        /\ handler' = [handler EXCEPT ![h].at = "verify", ![h].lease = t]

\* begin locks the row it finds, so what follows is one step; when there is no
\* row it inserts one in a second statement, which another handler may precede.
BeginUnseen(h) ==
    /\ handler[h].at = "begin"
    /\ RowOf(h).state = "unseen"
    /\ GoTo(h, "insert")
    /\ UNCHANGED <<now, challenge, row, charged, served>>

\* Mutant: the insert never takes the row.
Insert_Never(h) ==
    /\ handler[h].at = "insert"
    /\ GoTo(h, "begin")
    /\ UNCHANGED <<now, challenge, row, charged, served>>

Insert(h) ==
    /\ handler[h].at = "insert"
    /\ IF RowOf(h).state = "unseen"
       THEN TakeLease(h)
       ELSE GoTo(h, "begin") /\ UNCHANGED row
    /\ UNCHANGED <<now, challenge, charged, served>>

\* Mutant: the state of the row is not looked at.
BeginCached_AnyState(h) ==
    /\ handler[h].at = "begin"
    /\ RowOf(h).binding = handler[h].binding
    /\ handler' = [handler EXCEPT ![h].at = "reply", ![h].response = RowOf(h).response]
    /\ UNCHANGED <<now, challenge, row, charged, served>>

BeginCached(h) ==
    /\ handler[h].at = "begin"
    /\ RowOf(h).state = "settled"
    /\ RowOf(h).binding = handler[h].binding
    /\ handler' = [handler EXCEPT ![h].at = "reply", ![h].response = RowOf(h).response]
    /\ UNCHANGED <<now, challenge, row, charged, served>>

\* Mutant: a settling row can be taken over at once.
LeaseFree_Always(r) ==
    \/ r.state = "settling"
    \/ r.state = "failed" /\ r.failedAt + FailRetrySecs <= now

\* A lease that has run out or a failure that is old enough.
LeaseFree(r) ==
    \/ r.state = "settling" /\ r.until < now
    \/ r.state = "failed" /\ r.failedAt + FailRetrySecs <= now

BeginAgain(h) ==
    /\ handler[h].at = "begin"
    /\ RowOf(h).binding = handler[h].binding
    /\ LeaseFree(RowOf(h))
    /\ TakeLease(h)
    /\ UNCHANGED <<now, challenge, charged, served>>

\* BindingMismatch or SettlementInProgress.
BeginRefused(h) ==
    /\ handler[h].at = "begin"
    /\ RowOf(h).state # "unseen"
    /\ \/ RowOf(h).binding # handler[h].binding
       \/ RowOf(h).state \in {"settling", "failed"} /\ ~LeaseFree(RowOf(h))
    /\ Return(h)
    /\ UNCHANGED <<now, challenge, row, charged, served>>

\* Mutant: a request that has lost its lease still writes.
OwnsRow_AnyLease(h) == RowOf(h).binding = handler[h].binding

\* The guard of both updates that end a lease.
OwnsRow(h) ==
    /\ RowOf(h).state = "settling"
    /\ RowOf(h).lease = handler[h].lease
    /\ RowOf(h).binding = handler[h].binding

Complete(h) ==
    /\ handler[h].at = "complete"
    /\ IF handler[h].binding.input \notin Oversized /\ OwnsRow(h)
       THEN /\ row' = [row EXCEPT ![handler[h].tx] =
                         [@ EXCEPT !.state = "settled", !.lease = NoLease, !.until = 0,
                                   !.response = handler[h].response]]
            /\ GoTo(h, "reply")
       ELSE UNCHANGED row /\ Return(h)
    /\ UNCHANGED <<now, challenge, charged, served>>

Fail(h) ==
    /\ handler[h].at = "fail"
    /\ row' = IF OwnsRow(h)
              THEN [row EXCEPT ![handler[h].tx] =
                      [@ EXCEPT !.state = "failed", !.lease = NoLease, !.until = 0,
                                !.failedAt = now]]
              ELSE row
    /\ Return(h)
    /\ UNCHANGED <<now, challenge, charged, served>>

-----------------------------------------------------------------------------
(* The facilitator, which the gateway reaches over HTTP *)

Verify(h, valid) ==
    /\ handler[h].at = "verify"
    /\ GoTo(h, IF valid THEN "settle" ELSE "fail")
    /\ UNCHANGED <<now, challenge, row, charged, served>>

Settled(h, response) ==
    /\ handler[h].at = "settle"
    /\ charged' = charged \cup {handler[h].tx}
    /\ handler' = [handler EXCEPT ![h].at = "complete", ![h].response = response]
    /\ UNCHANGED <<now, challenge, row, served>>

\* Mutant: the resource is delivered although the settlement was refused.
NotSettled_Ignored(h, lost) ==
    /\ handler[h].at = "settle"
    /\ charged' = IF lost THEN charged \cup {handler[h].tx} ELSE charged
    /\ \E r \in Responses :
          handler' = [handler EXCEPT ![h].at = "complete", ![h].response = r]
    /\ UNCHANGED <<now, challenge, row, served>>

\* The settle call is refused, or its answer is lost: then the facilitator may
\* have settled all the same.
NotSettled(h, lost) ==
    /\ handler[h].at = "settle"
    /\ charged' = IF lost THEN charged \cup {handler[h].tx} ELSE charged
    /\ GoTo(h, "fail")
    /\ UNCHANGED <<now, challenge, row, served>>

-----------------------------------------------------------------------------
(* Replies, dropped requests and time *)

Reply(h) ==
    /\ handler[h].at = "reply"
    /\ served' = served \cup {[tx |-> handler[h].tx, binding |-> handler[h].binding,
                               response |-> handler[h].response]}
    /\ Return(h)
    /\ UNCHANGED <<now, challenge, row, charged>>

\* The client goes away, the request times out or the gateway crashes; a
\* database error or a response that cannot be encoded ends it in the same way.
Drop(h, lost) ==
    /\ handler[h].at # "idle"
    /\ charged' = IF lost /\ handler[h].at = "settle"
                  THEN charged \cup {handler[h].tx} ELSE charged
    /\ Return(h)
    /\ UNCHANGED <<now, challenge, row, served>>

\* No handler outlives the request timeout.
Tick ==
    /\ now < MaxTime
    /\ \A h \in Handlers : handler[h].at # "idle" => now < handler[h].started + RequestTimeout
    /\ now' = now + 1
    /\ UNCHANGED <<challenge, row, handler, charged, served>>

\* What a handler that has received a request does by itself.
HandlerStep(h) ==
    \/ GetValid(h) \/ GetInvalid(h)
    \/ BeginUnseen(h) \/ Insert(h) \/ BeginCached(h) \/ BeginAgain(h) \/ BeginRefused(h)
    \/ \E valid \in BOOLEAN : Verify(h, valid)
    \/ \E response \in Responses : Settled(h, response)
    \/ \E lost \in BOOLEAN : NotSettled(h, lost)
    \/ Complete(h) \/ Fail(h) \/ Reply(h)

HandlerNext(h) ==
    \/ \E b \in Bindings, tx \in Txs : Receive(h, b, tx)
    \/ HandlerStep(h)
    \/ \E lost \in BOOLEAN : Drop(h, lost)

Next ==
    \/ \E route \in Routes, input \in Inputs : Issue(route, input)
    \/ \E h \in Handlers : HandlerNext(h)
    \/ Tick

Spec == Init /\ [][Next]_vars

\* The runtime polls every future that can go on, and calls to the database and
\* the facilitator end, if only by their timeouts.
FairSpec == Spec /\ \A h \in Handlers : WF_vars(HandlerStep(h))

-----------------------------------------------------------------------------

\* Every row and every handler has its type.
TypeOK ==
    /\ now \in 0 .. MaxTime
    /\ challenge \in [Memos -> ChallengeRecord]
    /\ row \in [Txs -> RowRecord]
    /\ handler \in [Handlers -> HandlerRecord]
    /\ charged \subseteq Txs
    /\ served \subseteq [tx: Txs, binding: Bindings, response: Responses]

\* Two requests wait for the facilitator's settle call of one transaction at
\* the same time only if one of them has been running for longer than a lease:
\* within that time the second finds a lease in progress, or a first request
\* that has ended.
Overdue(h) == handler[h].started + LeaseSecs < now
SettleExclusive ==
    \A g, h \in Handlers :
        /\ handler[g].at = "settle"
        /\ handler[h].at = "settle"
        /\ handler[g].tx = handler[h].tx
        => g = h \/ Overdue(g) \/ Overdue(h)

\* A client gets the resource only for a transaction that the facilitator has
\* settled.
ServedIsPaid == \A s \in served : s.tx \in charged

\* Every request ends; in particular begin, which starts over when another
\* request has inserted the row first, does not start over for ever.
RequestsEnd ==
    \A h \in Handlers : (handler[h].at # "idle") ~> (handler[h].at = "idle")

\* A challenge is spent at the route it was issued for.
ChallengeBoundToRoute ==
    \A s \in served : s.binding.route = challenge[s.binding.memo].binding.route

Promise == INSTANCE SettleOnce WITH
    bound <- [t \in Txs |-> row[t].binding],
    answer <- [t \in Txs |-> row[t].response]

\* Whatever handlers are suspended, dropped or overtaken by another, a
\* transaction keeps its purchase, its first recorded answer is never
\* replaced, and every served client gets that one answer.
ImplementsSettleOnce == Promise!Spec

-----------------------------------------------------------------------------
(* The inductive invariants behind the promise and behind exclusivity *)

\* A row is bound from the moment it exists, and has an answer exactly when it
\* is settled.
RowSound ==
    \A t \in Txs :
        /\ row[t].state = "unseen" <=> row[t].binding = NoBinding
        /\ row[t].state = "settled" <=> row[t].response # NoResponse

\* A handler about to record an answer has one, and a handler about to reply
\* holds what its transaction's row has recorded.
HandlerSound ==
    \A h \in Handlers :
        /\ handler[h].at # "idle" => handler[h].binding \in Bindings /\ handler[h].tx \in Txs
        /\ handler[h].at = "complete" => handler[h].response \in Responses
        /\ handler[h].at = "reply" =>
              /\ RowOf(h).state = "settled"
              /\ RowOf(h).binding = handler[h].binding
              /\ RowOf(h).response = handler[h].response

PromiseInv == TypeOK /\ RowSound /\ HandlerSound

\* A settled row and a handler about to settle it mean that the facilitator has
\* charged.
PaidSound ==
    /\ \A t \in Txs : row[t].state = "settled" => t \in charged
    /\ \A h \in Handlers : handler[h].at = "complete" => handler[h].tx \in charged
    /\ ServedIsPaid

PaidInv == PromiseInv /\ PaidSound

\* A handler lives no longer than the request timeout, its lease is its own,
\* and until it has called the facilitator it owns its row, or has lost it after
\* the time of a lease.
LeaseSound ==
    /\ \A h \in Handlers : handler[h].at # "idle" =>
          /\ handler[h].started <= now
          /\ now <= handler[h].started + RequestTimeout
    /\ \A h \in Handlers : handler[h].at \in {"verify", "settle"} =>
          /\ handler[h].lease \in Tokens
          /\ \/ Overdue(h)
             \/ /\ RowOf(h).state = "settling"
                /\ RowOf(h).lease = handler[h].lease
                /\ RowOf(h).until >= handler[h].started + LeaseSecs
    /\ \A g, h \in Handlers :
          handler[g].lease = handler[h].lease /\ handler[g].lease # NoLease => g = h

LeaseInv == PromiseInv /\ LeaseSound
==============================================================================
