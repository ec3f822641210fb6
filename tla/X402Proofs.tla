------------------------------ MODULE X402Proofs -----------------------------
(***************************************************************************)
(* Proofs about the x402 settlement, for any number of handlers, routes,   *)
(* inputs, memos, transactions and tokens and any lease and timeout.       *)
(***************************************************************************)
EXTENDS X402Settlement, TLAPS

\* A handler whose position changes is well typed.
LEMMA AtUpdate ==
    ASSUME NEW f \in [Handlers -> HandlerRecord], NEW h \in Handlers, NEW x \in Points
    PROVE  [f EXCEPT ![h].at = x] \in [Handlers -> HandlerRecord]
BY DEF HandlerRecord

\* So is one that has been given a lease.
LEMMA LeaseUpdate ==
    ASSUME NEW f \in [Handlers -> HandlerRecord], NEW h \in Handlers, NEW x \in Points,
           NEW t \in Tokens
    PROVE  [f EXCEPT ![h].at = x, ![h].lease = t] \in [Handlers -> HandlerRecord]
BY ZenonT(60) DEF HandlerRecord

\* So is one that has been given a response.
LEMMA ResponseUpdate ==
    ASSUME NEW f \in [Handlers -> HandlerRecord], NEW h \in Handlers, NEW x \in Points,
           NEW r \in Responses \cup {NoResponse}
    PROVE  [f EXCEPT ![h].at = x, ![h].response = r] \in [Handlers -> HandlerRecord]
BY DEF HandlerRecord

\* A handler that has returned is well typed.
LEMMA IdleType == Idle \in HandlerRecord
BY TimingAssumption DEF Idle, HandlerRecord, Points, Time

\* The fields of a handler have their types.
LEMMA HandlerFields ==
    ASSUME TypeOK, NEW h \in Handlers
    PROVE  /\ handler[h].at \in Points
           /\ handler[h].binding \in Bindings \cup {NoBinding}
           /\ handler[h].tx \in Txs \cup {NoTx}
           /\ handler[h].started \in Time
           /\ handler[h].lease \in Tokens \cup {NoLease}
           /\ handler[h].response \in Responses \cup {NoResponse}
BY DEF TypeOK, HandlerRecord

\* The fields of a row have their types.
LEMMA RowFields ==
    ASSUME TypeOK, NEW t \in Txs
    PROVE  /\ row[t].state \in {"unseen", "settling", "settled", "failed"}
           /\ row[t].lease \in Tokens \cup {NoLease}
           /\ row[t].until \in Time
           /\ row[t].failedAt \in Time
           /\ row[t].binding \in Bindings \cup {NoBinding}
           /\ row[t].response \in Responses \cup {NoResponse}
BY DEF TypeOK, RowRecord

\* Settling a row leaves it well typed.
LEMMA SettledRow ==
    ASSUME NEW f \in [Txs -> RowRecord], NEW t \in Txs, NEW r \in Responses
    PROVE  [f EXCEPT ![t] = [@ EXCEPT !.state = "settled", !.lease = NoLease,
                                      !.until = 0, !.response = r]] \in [Txs -> RowRecord]
<1>1. 0 \in Time
  BY TimingAssumption DEF Time
<1>2. ASSUME NEW q \in RowRecord
      PROVE  [q EXCEPT !.state = "settled", !.lease = NoLease, !.until = 0,
                       !.response = r] \in RowRecord
  BY <1>1 DEF RowRecord
<1> QED
  BY <1>2

\* Failing a row leaves it well typed.
LEMMA FailedRow ==
    ASSUME NEW f \in [Txs -> RowRecord], NEW t \in Txs, NEW x \in Time
    PROVE  [f EXCEPT ![t] = [@ EXCEPT !.state = "failed", !.lease = NoLease,
                                      !.until = 0, !.failedAt = x]] \in [Txs -> RowRecord]
<1>1. 0 \in Time
  BY TimingAssumption DEF Time
<1>2. ASSUME NEW q \in RowRecord
      PROVE  [q EXCEPT !.state = "failed", !.lease = NoLease, !.until = 0,
                       !.failedAt = x] \in RowRecord
  BY <1>1 DEF RowRecord
<1> QED
  BY <1>2

\* Timestamps and lease ends are times.
LEMMA TimeBounds ==
    ASSUME now \in 0 .. MaxTime
    PROVE  /\ now \in Time
           /\ now + LeaseSecs \in Time
           /\ now + ChallengeSecs \in Time
           /\ 0 \in Time
BY TimingAssumption DEF Time

\* Initially all rows and handlers have their types.
LEMMA InitType == Init => TypeOK
BY TimingAssumption, IdleType DEF Init, TypeOK, ChallengeRecord, RowRecord, Blank, Unseen, Time

\* A row with a new lease is well typed, and so is its handler.
LEMMA TakeLeaseType ==
    ASSUME TypeOK, NEW h \in Handlers, TakeLease(h),
           handler[h].binding \in Bindings, handler[h].tx \in Txs
    PROVE  row' \in [Txs -> RowRecord] /\ handler' \in [Handlers -> HandlerRecord]
<1>1. PICK t \in Tokens :
        /\ row' = [row EXCEPT ![handler[h].tx] =
                     [state |-> "settling", lease |-> t, until |-> now + LeaseSecs,
                      failedAt |-> 0, binding |-> handler[h].binding,
                      response |-> NoResponse]]
        /\ handler' = [handler EXCEPT ![h].at = "verify", ![h].lease = t]
  BY DEF TakeLease
<1>2. handler' \in [Handlers -> HandlerRecord]
  BY <1>1, LeaseUpdate DEF TypeOK, Points
<1>3. [state |-> "settling", lease |-> t, until |-> now + LeaseSecs, failedAt |-> 0,
       binding |-> handler[h].binding, response |-> NoResponse] \in RowRecord
  BY TimeBounds DEF TypeOK, RowRecord
<1>4. row' \in [Txs -> RowRecord]
  BY <1>1, <1>3 DEF TypeOK
<1> QED
  BY <1>2, <1>4

\* No row or handler leaves its type in a step of a handler.
LEMMA HandlerType ==
    ASSUME PromiseInv, NEW h \in Handlers, HandlerNext(h)
    PROVE  TypeOK'
<1>inv. TypeOK /\ RowSound /\ HandlerSound
  BY DEF PromiseInv
<1> USE <1>inv DEF TypeOK
<1>0. /\ handler[h].at # "idle" => handler[h].binding \in Bindings /\ handler[h].tx \in Txs
      /\ handler[h].at = "complete" => handler[h].response \in Responses
      /\ handler[h].at = "reply" => handler[h].response = row[handler[h].tx].response
      /\ handler[h].at = "reply" => row[handler[h].tx].response # NoResponse
  BY DEF HandlerSound, RowSound, RowOf
<1>idle. [handler EXCEPT ![h] = Idle] \in [Handlers -> HandlerRecord]
  BY IdleType
<1>at. \A x \in Points : [handler EXCEPT ![h].at = x] \in [Handlers -> HandlerRecord]
  BY AtUpdate
<1>1. ASSUME NEW b \in Bindings, NEW tx \in Txs, Receive(h, b, tx) PROVE TypeOK'
  <2>1. [at |-> "challenge", binding |-> b, tx |-> tx, started |-> now,
         lease |-> NoLease, response |-> NoResponse] \in HandlerRecord
    BY TimeBounds DEF HandlerRecord, Points
  <2> QED
    BY <1>1, <2>1 DEF Receive
<1>2. CASE GetValid(h)
  BY <1>2, <1>at DEF GetValid, GoTo, Points
<1>3. CASE GetInvalid(h)
  <2>1. [challenge EXCEPT ![handler[h].binding.memo].status = "gone"]
          \in [Memos -> ChallengeRecord]
    BY DEF ChallengeRecord
  <2> QED
    BY <1>3, <2>1, <1>idle DEF GetInvalid, Return
<1>4. CASE BeginUnseen(h)
  BY <1>4, <1>at DEF BeginUnseen, GoTo, Points
<1>5. CASE Insert(h)
  <2>1. handler[h].binding \in Bindings /\ handler[h].tx \in Txs
    BY <1>5, <1>0 DEF Insert
  <2> QED
    BY <1>5, <2>1, <1>at, TakeLeaseType DEF Insert, GoTo, Points
<1>6. CASE BeginCached(h)
  <2>1. RowOf(h).response \in Responses \cup {NoResponse}
    BY <1>6, <1>0, RowFields DEF BeginCached, RowOf
  <2>2. handler' \in [Handlers -> HandlerRecord]
    BY <1>6, <2>1, ResponseUpdate DEF BeginCached, Points
  <2> QED
    BY <1>6, <2>2 DEF BeginCached
<1>7. CASE BeginAgain(h)
  <2>1. handler[h].binding \in Bindings /\ handler[h].tx \in Txs
    BY <1>7, <1>0 DEF BeginAgain
  <2> QED
    BY <1>7, <2>1, TakeLeaseType DEF BeginAgain
<1>8. CASE BeginRefused(h)
  BY <1>8, <1>idle DEF BeginRefused, Return
<1>9. ASSUME NEW valid \in BOOLEAN, Verify(h, valid) PROVE TypeOK'
  BY <1>9, <1>at DEF Verify, GoTo, Points
<1>10. ASSUME NEW response \in Responses, Settled(h, response) PROVE TypeOK'
  <2>1. handler' \in [Handlers -> HandlerRecord]
    BY <1>10, ResponseUpdate DEF Settled, Points
  <2> QED
    BY <1>10, <2>1, <1>0 DEF Settled
<1>11. ASSUME NEW lost \in BOOLEAN, NotSettled(h, lost) PROVE TypeOK'
  BY <1>11, <1>at, <1>0 DEF NotSettled, GoTo, Points
<1>12. CASE Complete(h)
  <2>1. handler[h].response \in Responses /\ handler[h].tx \in Txs
    BY <1>12, <1>0 DEF Complete
  <2>2. row' \in [Txs -> RowRecord]
    <3>1. [row EXCEPT ![handler[h].tx] =
             [@ EXCEPT !.state = "settled", !.lease = NoLease, !.until = 0,
                       !.response = handler[h].response]] \in [Txs -> RowRecord]
      BY <2>1, SettledRow
    <3> QED
      BY <1>12, <3>1 DEF Complete
  <2> QED
    BY <1>12, <2>2, <1>at, <1>idle DEF Complete, GoTo, Return, Points
<1>13. CASE Fail(h)
  <2>1. handler[h].tx \in Txs
    BY <1>13, <1>0 DEF Fail
  <2>2. row' \in [Txs -> RowRecord]
    <3>1. [row EXCEPT ![handler[h].tx] =
             [@ EXCEPT !.state = "failed", !.lease = NoLease, !.until = 0,
                       !.failedAt = now]] \in [Txs -> RowRecord]
      BY <2>1, FailedRow, TimeBounds
    <3> QED
      BY <1>13, <3>1 DEF Fail
  <2> QED
    BY <1>13, <2>2, <1>idle DEF Fail, Return
<1>14. CASE Reply(h)
  <2>1. handler[h].response \in Responses
    BY <1>14, <1>0, RowFields DEF Reply
  <2> QED
    BY <1>14, <2>1, <1>0, <1>idle DEF Reply, Return
<1>15. ASSUME NEW lost \in BOOLEAN, Drop(h, lost) PROVE TypeOK'
  BY <1>15, <1>idle, <1>0 DEF Drop, Return
<1> QED
  BY <1>1, <1>2, <1>3, <1>4, <1>5, <1>6, <1>7, <1>8, <1>9, <1>10, <1>11, <1>12, <1>13,
     <1>14, <1>15 DEF HandlerNext, HandlerStep

\* Issuing a challenge keeps the challenges well typed.
LEMMA IssueType ==
    ASSUME TypeOK, NEW route \in Routes, NEW input \in Inputs, Issue(route, input)
    PROVE  TypeOK'
<1>1. PICK m \in Memos, purged \in SUBSET Expired(now) :
        challenge' =
             [x \in Memos |->
                IF x = m THEN [status |-> "open",
                               binding |-> [route |-> route, input |-> input, memo |-> m],
                               expires |-> now + ChallengeSecs]
                ELSE IF x \in purged THEN [challenge[x] EXCEPT !.status = "gone"]
                ELSE challenge[x]]
  BY DEF Issue
<1>2. [status |-> "open", binding |-> [route |-> route, input |-> input, memo |-> m],
       expires |-> now + ChallengeSecs] \in ChallengeRecord
  BY TimeBounds DEF TypeOK, ChallengeRecord, Bindings
<1>3. \A x \in Memos : [challenge[x] EXCEPT !.status = "gone"] \in ChallengeRecord
  BY DEF TypeOK, ChallengeRecord
<1>4. challenge' \in [Memos -> ChallengeRecord]
  BY <1>1, <1>2, <1>3 DEF TypeOK
<1> QED
  BY <1>4 DEF Issue, TypeOK

\* What a new lease does to the rows and to the handler that takes it.
LEMMA TakeLeaseRow ==
    ASSUME PromiseInv, NEW h \in Handlers, TakeLease(h), handler[h].at # "idle",
           RowOf(h).state # "settled"
    PROVE  /\ RowSound'
           /\ \A t \in Txs : row[t].state = "settled" => row'[t] = row[t]
           /\ \A g \in Handlers \ {h} : handler'[g] = handler[g]
           /\ handler'[h].at = "verify"
           /\ handler'[h].binding = handler[h].binding
           /\ handler'[h].tx = handler[h].tx
<1>0. TypeOK /\ RowSound /\ HandlerSound
  BY DEF PromiseInv
<1>1. handler[h].tx \in Txs /\ handler[h].binding \in Bindings
  BY <1>0 DEF HandlerSound
<1>2. PICK k \in Tokens :
        /\ row' = [row EXCEPT ![handler[h].tx] =
                     [state |-> "settling", lease |-> k, until |-> now + LeaseSecs,
                      failedAt |-> 0, binding |-> handler[h].binding,
                      response |-> NoResponse]]
        /\ handler' = [handler EXCEPT ![h].at = "verify", ![h].lease = k]
  BY DEF TakeLease
<1>3. handler[h] \in HandlerRecord
  BY <1>0 DEF TypeOK
<1>4. /\ handler'[h].at = "verify"
      /\ handler'[h].binding = handler[h].binding
      /\ handler'[h].tx = handler[h].tx
  BY <1>0, <1>2, <1>3 DEF TypeOK, HandlerRecord
<1>5. \A g \in Handlers \ {h} : handler'[g] = handler[g]
  BY <1>0, <1>2 DEF TypeOK
<1>6. \A t \in Txs \ {handler[h].tx} : row'[t] = row[t]
  BY <1>0, <1>2 DEF TypeOK
<1>7. /\ row'[handler[h].tx].state = "settling"
      /\ row'[handler[h].tx].binding = handler[h].binding
      /\ row'[handler[h].tx].response = NoResponse
  BY <1>0, <1>1, <1>2 DEF TypeOK
<1>8. RowSound'
  BY <1>0, <1>1, <1>6, <1>7, BindingAssumption DEF RowSound
<1> QED
  BY <1>1, <1>4, <1>5, <1>6, <1>8 DEF RowOf

\* A handler's step keeps the rows sound and never touches a settled one.
LEMMA RowStep ==
    ASSUME PromiseInv, NEW h \in Handlers, HandlerNext(h)
    PROVE  /\ RowSound'
           /\ \A t \in Txs : row[t].state = "settled" => row'[t] = row[t]
<1>0. TypeOK /\ RowSound /\ HandlerSound
  BY DEF PromiseInv
<1>a. handler[h].at # "idle" => handler[h].tx \in Txs /\ handler[h].binding \in Bindings
  BY <1>0 DEF HandlerSound
<1>1. CASE UNCHANGED row
  BY <1>0, <1>1 DEF RowSound
<1>2. CASE Insert(h)
  <2>1. CASE RowOf(h).state = "unseen"
    BY <1>2, <2>1, TakeLeaseRow DEF Insert
  <2>2. CASE RowOf(h).state # "unseen"
    BY <1>2, <2>2, <1>1 DEF Insert
  <2> QED
    BY <2>1, <2>2
<1>3. CASE BeginAgain(h)
  BY <1>3, TakeLeaseRow DEF BeginAgain, LeaseFree
<1>4. CASE Complete(h) /\ ~ UNCHANGED row
  <2>1. /\ OwnsRow(h)
        /\ handler[h].tx \in Txs
        /\ handler[h].response \in Responses
        /\ row' = [row EXCEPT ![handler[h].tx] =
                     [@ EXCEPT !.state = "settled", !.lease = NoLease, !.until = 0,
                               !.response = handler[h].response]]
    BY <1>0, <1>4 DEF Complete, HandlerSound
  <2>2. row[handler[h].tx] \in RowRecord
    BY <1>0, <2>1 DEF TypeOK
  <2>3. /\ row'[handler[h].tx].state = "settled"
        /\ row'[handler[h].tx].binding = row[handler[h].tx].binding
        /\ row'[handler[h].tx].response = handler[h].response
    BY <1>0, <2>1, <2>2 DEF TypeOK, RowRecord
  <2>4. \A t \in Txs \ {handler[h].tx} : row'[t] = row[t]
    BY <1>0, <2>1 DEF TypeOK
  <2>5. row[handler[h].tx].state = "settling"
    BY <2>1 DEF OwnsRow, RowOf
  <2> QED
    BY <1>0, <2>1, <2>3, <2>4, <2>5, NullAssumption DEF RowSound
<1>5. CASE Fail(h) /\ ~ UNCHANGED row
  <2>1. /\ OwnsRow(h)
        /\ handler[h].tx \in Txs
        /\ row' = [row EXCEPT ![handler[h].tx] =
                      [@ EXCEPT !.state = "failed", !.lease = NoLease, !.until = 0,
                                !.failedAt = now]]
    BY <1>0, <1>5 DEF Fail, HandlerSound
  <2>2. row[handler[h].tx] \in RowRecord
    BY <1>0, <2>1 DEF TypeOK
  <2>3. /\ row'[handler[h].tx].state = "failed"
        /\ row'[handler[h].tx].binding = row[handler[h].tx].binding
        /\ row'[handler[h].tx].response = row[handler[h].tx].response
    BY <1>0, <2>1, <2>2 DEF TypeOK, RowRecord
  <2>4. \A t \in Txs \ {handler[h].tx} : row'[t] = row[t]
    BY <1>0, <2>1 DEF TypeOK
  <2>5. row[handler[h].tx].state = "settling"
    BY <2>1 DEF OwnsRow, RowOf
  <2> QED
    BY <1>0, <2>1, <2>3, <2>4, <2>5 DEF RowSound
<1> QED
  BY <1>1, <1>2, <1>3, <1>4, <1>5
     DEF HandlerNext, HandlerStep, Receive, GetValid, GetInvalid, BeginUnseen, BeginCached,
         BeginRefused, Verify, Settled, NotSettled, Reply, Drop

\* Initially no row exists and no handler runs.
LEMMA InitPromise == Init => PromiseInv
BY InitType, BindingAssumption DEF Init, PromiseInv, RowSound, HandlerSound, RowOf, Unseen, Idle

\* A handler that moves and has nothing else changed keeps its purchase.
LEMMA AtFields ==
    ASSUME TypeOK, NEW h \in Handlers, NEW x, handler' = [handler EXCEPT ![h].at = x]
    PROVE  /\ \A g \in Handlers \ {h} : handler'[g] = handler[g]
           /\ handler'[h].at = x
           /\ handler'[h].binding = handler[h].binding
           /\ handler'[h].tx = handler[h].tx
           /\ handler'[h].response = handler[h].response
           /\ handler'[h].lease = handler[h].lease
           /\ handler'[h].started = handler[h].started
<1>1. handler[h] \in HandlerRecord /\ handler \in [Handlers -> HandlerRecord]
  BY DEF TypeOK
<1> QED
  BY <1>1 DEF HandlerRecord

\* So does one that also receives a response.
LEMMA ResponseFields ==
    ASSUME TypeOK, NEW h \in Handlers, NEW x \in Points,
           NEW r \in Responses \cup {NoResponse},
           handler' = [handler EXCEPT ![h].at = x, ![h].response = r]
    PROVE  /\ \A g \in Handlers \ {h} : handler'[g] = handler[g]
           /\ handler'[h].at = x
           /\ handler'[h].binding = handler[h].binding
           /\ handler'[h].tx = handler[h].tx
           /\ handler'[h].response = r
           /\ handler'[h].lease = handler[h].lease
           /\ handler'[h].started = handler[h].started
<1>1. handler[h] \in HandlerRecord /\ handler \in [Handlers -> HandlerRecord]
  BY DEF TypeOK
<1> QED
  BY <1>1 DEF HandlerRecord

\* What HandlerSound asks of one handler.
Sound(h) ==
    /\ handler[h].at # "idle" => handler[h].binding \in Bindings /\ handler[h].tx \in Txs
    /\ handler[h].at = "complete" => handler[h].response \in Responses
    /\ handler[h].at = "reply" =>
          /\ RowOf(h).state = "settled"
          /\ RowOf(h).binding = handler[h].binding
          /\ RowOf(h).response = handler[h].response

\* The handler that takes a step is sound after it, and the others do not move.
LEMMA MoverSound ==
    ASSUME PromiseInv, NEW h \in Handlers, HandlerNext(h)
    PROVE  Sound(h)' /\ \A g \in Handlers \ {h} : handler'[g] = handler[g]
<1>0. TypeOK /\ RowSound /\ HandlerSound
  BY DEF PromiseInv
<1>a. /\ handler[h].at # "idle" => handler[h].tx \in Txs /\ handler[h].binding \in Bindings
      /\ handler[h].at = "complete" => handler[h].response \in Responses
  BY <1>0 DEF HandlerSound
<1>b. handler \in [Handlers -> HandlerRecord]
  BY <1>0 DEF TypeOK
<1> DEFINE Goal == Sound(h)' /\ \A g \in Handlers \ {h} : handler'[g] = handler[g]
<1>ret. ASSUME Return(h) PROVE Goal
  <2>1. handler'[h] = Idle /\ \A g \in Handlers \ {h} : handler'[g] = handler[g]
    BY <1>b, <1>ret DEF Return
  <2>2. handler'[h].at = "idle"
    BY <2>1 DEF Idle
  <2> QED
    BY <2>1, <2>2 DEF Sound
<1>go. ASSUME NEW x \in Points \ {"complete", "reply"}, GoTo(h, x), handler[h].at # "idle"
       PROVE  Goal
  BY <1>0, <1>a, <1>go, AtFields DEF GoTo, Sound
<1>lease. ASSUME TakeLease(h), handler[h].at # "idle", RowOf(h).state # "settled"
          PROVE  Goal
  BY <1>a, <1>lease, TakeLeaseRow DEF Sound
<1>1. ASSUME NEW b \in Bindings, NEW tx \in Txs, Receive(h, b, tx) PROVE Goal
  <2>1. handler' = [handler EXCEPT ![h] =
                     [at |-> "challenge", binding |-> b, tx |-> tx, started |-> now,
                      lease |-> NoLease, response |-> NoResponse]]
    BY <1>1 DEF Receive
  <2>2. /\ handler'[h].at = "challenge" /\ handler'[h].binding = b /\ handler'[h].tx = tx
        /\ \A g \in Handlers \ {h} : handler'[g] = handler[g]
    BY <1>b, <2>1
  <2> QED
    BY <2>2 DEF Sound
<1>2. CASE GetValid(h)
  BY <1>2, <1>go DEF GetValid, Points
<1>3. CASE GetInvalid(h)
  BY <1>3, <1>ret DEF GetInvalid
<1>4. CASE BeginUnseen(h)
  BY <1>4, <1>go DEF BeginUnseen, Points
<1>5. CASE Insert(h)
  BY <1>5, <1>go, <1>lease DEF Insert, Points
<1>6. CASE BeginCached(h)
  <2>1. /\ handler'[h].at = "reply"
        /\ handler'[h].tx = handler[h].tx
        /\ handler'[h].binding = handler[h].binding
        /\ handler'[h].response = RowOf(h).response
        /\ \A g \in Handlers \ {h} : handler'[g] = handler[g]
    <3>1. handler' = [handler EXCEPT ![h].at = "reply", ![h].response = RowOf(h).response]
      BY <1>6 DEF BeginCached
    <3>2. RowOf(h).response \in Responses \cup {NoResponse}
      BY <1>0, <1>6, <1>a, RowFields DEF BeginCached, RowOf
    <3> QED
      BY <1>0, <3>1, <3>2, ResponseFields, ZenonT(60) DEF Points
  <2>2. row' = row /\ RowOf(h).state = "settled" /\ RowOf(h).binding = handler[h].binding
    BY <1>6 DEF BeginCached
  <2>3. handler[h].at = "begin"
    BY <1>6 DEF BeginCached
  <2> QED
    BY <1>a, <2>1, <2>2, <2>3 DEF Sound, RowOf
<1>7. CASE BeginAgain(h)
  BY <1>7, <1>lease DEF BeginAgain, LeaseFree
<1>8. CASE BeginRefused(h)
  BY <1>8, <1>ret DEF BeginRefused
<1>9. ASSUME NEW valid \in BOOLEAN, Verify(h, valid) PROVE Goal
  BY <1>9, <1>go DEF Verify, Points
<1>10. ASSUME NEW response \in Responses, Settled(h, response) PROVE Goal
  <2>1. /\ handler'[h].at = "complete"
        /\ handler'[h].tx = handler[h].tx
        /\ handler'[h].binding = handler[h].binding
        /\ handler'[h].response = response
        /\ \A g \in Handlers \ {h} : handler'[g] = handler[g]
    <3>1. handler' = [handler EXCEPT ![h].at = "complete", ![h].response = response]
      BY <1>10 DEF Settled
    <3> QED
      BY <1>0, <3>1, ResponseFields DEF Points
  <2>2. handler[h].at = "settle"
    BY <1>10 DEF Settled
  <2> QED
    BY <1>a, <2>1, <2>2 DEF Sound
<1>11. ASSUME NEW lost \in BOOLEAN, NotSettled(h, lost) PROVE Goal
  BY <1>11, <1>go DEF NotSettled, Points
<1>12. CASE Complete(h)
  <2>1. CASE handler[h].binding.input \notin Oversized /\ OwnsRow(h)
    <3>1. /\ row' = [row EXCEPT ![handler[h].tx] =
                       [@ EXCEPT !.state = "settled", !.lease = NoLease, !.until = 0,
                                 !.response = handler[h].response]]
          /\ handler' = [handler EXCEPT ![h].at = "reply"]
          /\ handler[h].at = "complete"
      BY <1>12, <2>1 DEF Complete, GoTo
    <3>2. handler[h].tx \in Txs /\ row[handler[h].tx] \in RowRecord /\ row \in [Txs -> RowRecord]
      BY <1>0, <1>a, <3>1 DEF TypeOK
    <3>3. /\ row'[handler[h].tx].state = "settled"
          /\ row'[handler[h].tx].binding = row[handler[h].tx].binding
          /\ row'[handler[h].tx].response = handler[h].response
      BY <3>1, <3>2 DEF RowRecord
    <3>4. /\ handler'[h].at = "reply"
          /\ handler'[h].tx = handler[h].tx
          /\ handler'[h].binding = handler[h].binding
          /\ handler'[h].response = handler[h].response
          /\ \A g \in Handlers \ {h} : handler'[g] = handler[g]
      BY <1>0, <3>1, AtFields
    <3> QED
      BY <1>a, <2>1, <3>1, <3>3, <3>4 DEF Sound, RowOf, OwnsRow
  <2>2. CASE ~(handler[h].binding.input \notin Oversized /\ OwnsRow(h))
    BY <1>12, <2>2, <1>ret DEF Complete
  <2> QED
    BY <2>1, <2>2
<1>13. CASE Fail(h)
  BY <1>13, <1>ret DEF Fail
<1>14. CASE Reply(h)
  BY <1>14, <1>ret DEF Reply
<1>15. ASSUME NEW lost \in BOOLEAN, Drop(h, lost) PROVE Goal
  BY <1>15, <1>ret DEF Drop
<1> QED
  BY <1>1, <1>2, <1>3, <1>4, <1>5, <1>6, <1>7, <1>8, <1>9, <1>10, <1>11, <1>12, <1>13,
     <1>14, <1>15 DEF HandlerNext, HandlerStep

\* Every step keeps the inductive invariant.
LEMMA NextPromise == PromiseInv /\ [Next]_vars => PromiseInv'
<1> SUFFICES ASSUME PromiseInv, [Next]_vars PROVE PromiseInv'
  OBVIOUS
<1>0. TypeOK /\ RowSound /\ HandlerSound
  BY DEF PromiseInv
<1>1. ASSUME NEW h \in Handlers, HandlerNext(h) PROVE PromiseInv'
  <2>1. TypeOK' /\ RowSound'
    BY <1>1, HandlerType, RowStep
  <2>2. Sound(h)' /\ \A g \in Handlers \ {h} : handler'[g] = handler[g]
    BY <1>1, MoverSound
  <2>3. ASSUME NEW g \in Handlers PROVE Sound(g)'
    <3>1. CASE g = h
      BY <2>2, <3>1
    <3>2. CASE g # h
      <4>1. handler'[g] = handler[g]
        BY <2>2, <3>2
      <4>2. Sound(g)
        BY <1>0 DEF HandlerSound, Sound
      <4>3. \A t \in Txs : row[t].state = "settled" => row'[t] = row[t]
        BY <1>1, RowStep
      <4> QED
        BY <4>1, <4>2, <4>3 DEF Sound, RowOf
    <3> QED
      BY <3>1, <3>2
  <2>4. HandlerSound'
    BY <2>3 DEF HandlerSound, Sound
  <2> QED
    BY <2>1, <2>4 DEF PromiseInv
<1>2. ASSUME NEW route \in Routes, NEW input \in Inputs, Issue(route, input)
      PROVE  PromiseInv'
  <2>1. TypeOK'
    BY <1>0, <1>2, IssueType
  <2>2. row' = row /\ handler' = handler
    BY <1>2 DEF Issue
  <2> QED
    BY <1>0, <2>1, <2>2 DEF PromiseInv, RowSound, HandlerSound, RowOf
<1>3. CASE Tick
  BY <1>0, <1>3, TimingAssumption DEF Tick, PromiseInv, TypeOK, RowSound, HandlerSound, RowOf
<1>4. CASE UNCHANGED vars
  BY <1>0, <1>4 DEF vars, PromiseInv, TypeOK, RowSound, HandlerSound, RowOf
<1> QED
  BY <1>1, <1>2, <1>3, <1>4 DEF Next

\* Settled rows are bound and have an answer, and every handler that is about to
\* reply holds the answer of its row, in every reachable state.
THEOREM PromiseInvariant == Spec => []PromiseInv
BY InitPromise, NextPromise, PTL DEF Spec

\* Every row and every handler keeps its type, for any number of requests.
THEOREM X402TypeCorrect == Spec => []TypeOK
<1>1. PromiseInv => TypeOK
  BY DEF PromiseInv
<1> QED
  BY <1>1, PromiseInvariant, PTL

-----------------------------------------------------------------------------
(* The promise *)

\* Taking the row of a transaction nobody has presented binds it; taking it
\* again changes neither its purchase nor its answer.
LEMMA TakeLeaseBinds ==
    ASSUME PromiseInv, NEW h \in Handlers, TakeLease(h), handler[h].at # "idle",
           RowOf(h).state # "settled", served' = served,
           RowOf(h).state = "unseen" \/ RowOf(h).binding = handler[h].binding
    PROVE  [Promise!Next]_(Promise!vars)
<1> DEFINE tx == handler[h].tx
           b == handler[h].binding
<1>0. TypeOK /\ RowSound /\ HandlerSound
  BY DEF PromiseInv
<1>1. tx \in Txs /\ b \in Bindings /\ row[tx].state # "settled"
  BY <1>0 DEF HandlerSound, RowOf
<1>2. PICK k \in Tokens :
        row' = [row EXCEPT ![handler[h].tx] =
                  [state |-> "settling", lease |-> k, until |-> now + LeaseSecs,
                   failedAt |-> 0, binding |-> handler[h].binding, response |-> NoResponse]]
  BY DEF TakeLease
<1>3. /\ \A t \in Txs \ {tx} : row'[t] = row[t]
      /\ row'[tx].binding = b
      /\ row'[tx].response = NoResponse
  BY <1>0, <1>1, <1>2 DEF TypeOK
<1>4. row[tx].response = NoResponse
  BY <1>0, <1>1 DEF RowSound
<1>5. [t \in Txs |-> row'[t].response] = [t \in Txs |-> row[t].response]
  BY <1>3, <1>4
<1>6. CASE row[tx].state = "unseen"
  <2>1. row[tx].binding = NoBinding
    BY <1>0, <1>1, <1>6 DEF RowSound
  <2>2. [t \in Txs |-> row'[t].binding] = [[t \in Txs |-> row[t].binding] EXCEPT ![tx] = b]
    BY <1>1, <1>3
  <2>3. Promise!Bind(tx, b)
    BY <1>1, <1>5, <2>1, <2>2 DEF Promise!Bind
  <2> QED
    BY <1>1, <2>3 DEF Promise!Next, Promise!Bind
<1>7. CASE row[tx].state # "unseen"
  <2>1. row[tx].binding = b
    BY <1>7 DEF RowOf
  <2>2. [t \in Txs |-> row'[t].binding] = [t \in Txs |-> row[t].binding]
    BY <1>3, <2>1
  <2> QED
    BY <1>5, <2>2 DEF Promise!vars
<1> QED
  BY <1>6, <1>7

\* Every step of a handler binds, settles or serves a transaction, or changes
\* nothing that the promise is about.
LEMMA HandlerRefines ==
    ASSUME PromiseInv, NEW h \in Handlers, HandlerNext(h)
    PROVE  [Promise!Next]_(Promise!vars)
<1> DEFINE tx == handler[h].tx
<1>0. TypeOK /\ RowSound /\ HandlerSound
  BY DEF PromiseInv
<1>1. CASE row' = row /\ served' = served
  BY <1>1 DEF Promise!vars
<1>2. CASE Insert(h)
  <2>1. CASE RowOf(h).state = "unseen"
    BY <1>2, <2>1, TakeLeaseBinds DEF Insert
  <2>2. CASE RowOf(h).state # "unseen"
    BY <1>2, <2>2, <1>1 DEF Insert
  <2> QED
    BY <2>1, <2>2
<1>3. CASE BeginAgain(h)
  BY <1>3, TakeLeaseBinds DEF BeginAgain, LeaseFree
<1>4. CASE Complete(h) /\ row' # row
  <2>1. /\ OwnsRow(h)
        /\ handler[h].tx \in Txs
        /\ handler[h].response \in Responses
        /\ row' = [row EXCEPT ![handler[h].tx] =
                     [@ EXCEPT !.state = "settled", !.lease = NoLease, !.until = 0,
                               !.response = handler[h].response]]
        /\ served' = served
    BY <1>0, <1>4 DEF Complete, HandlerSound
  <2>2. row[tx] \in RowRecord
    BY <1>0, <2>1 DEF TypeOK
  <2>3. /\ row'[tx].binding = row[tx].binding
        /\ row'[tx].response = handler[h].response
        /\ \A t \in Txs \ {tx} : row'[t] = row[t]
    BY <1>0, <2>1, <2>2 DEF TypeOK, RowRecord
  <2>4. row[tx].binding # NoBinding /\ row[tx].response = NoResponse
    BY <1>0, <2>1 DEF RowSound, OwnsRow, RowOf
  <2>5. [t \in Txs |-> row'[t].binding] = [t \in Txs |-> row[t].binding]
    BY <2>3
  <2>6. [t \in Txs |-> row'[t].response]
          = [[t \in Txs |-> row[t].response] EXCEPT ![tx] = handler[h].response]
    <3> HIDE DEF tx
    <3> QED
      BY <2>3
  <2>7. Promise!Settle(tx, handler[h].response)
    BY <2>1, <2>4, <2>5, <2>6 DEF Promise!Settle
  <2> QED
    BY <2>1, <2>7 DEF Promise!Next, Promise!Settle
<1>5. CASE Fail(h) /\ row' # row
  <2>1. /\ handler[h].tx \in Txs
        /\ row' = [row EXCEPT ![handler[h].tx] =
                      [@ EXCEPT !.state = "failed", !.lease = NoLease, !.until = 0,
                                !.failedAt = now]]
        /\ served' = served
    BY <1>0, <1>5 DEF Fail, HandlerSound
  <2>2. row[tx] \in RowRecord
    BY <1>0, <2>1 DEF TypeOK
  <2>3. /\ row'[tx].binding = row[tx].binding
        /\ row'[tx].response = row[tx].response
        /\ \A t \in Txs \ {tx} : row'[t] = row[t]
    BY <1>0, <2>1, <2>2 DEF TypeOK, RowRecord
  <2>4. /\ [t \in Txs |-> row'[t].binding] = [t \in Txs |-> row[t].binding]
        /\ [t \in Txs |-> row'[t].response] = [t \in Txs |-> row[t].response]
    BY <2>3
  <2> QED
    BY <2>1, <2>4 DEF Promise!vars
<1>6. CASE Reply(h)
  <2>1. /\ handler[h].at = "reply"
        /\ served' = served \cup {[tx |-> handler[h].tx, binding |-> handler[h].binding,
                                   response |-> handler[h].response]}
        /\ row' = row
    BY <1>6 DEF Reply
  <2>2. /\ tx \in Txs
        /\ row[tx].state = "settled"
        /\ row[tx].binding = handler[h].binding
        /\ row[tx].response = handler[h].response
    BY <1>0, <2>1 DEF HandlerSound, RowOf
  <2>3. row[tx].response # NoResponse
    BY <1>0, <2>2 DEF RowSound
  <2>4. Promise!Serve(tx)
    BY <2>1, <2>2, <2>3 DEF Promise!Serve
  <2> QED
    BY <2>2, <2>4 DEF Promise!Next
<1> QED
  BY <1>1, <1>2, <1>3, <1>4, <1>5, <1>6
     DEF HandlerNext, HandlerStep, Receive, GetValid, GetInvalid, BeginUnseen, BeginCached,
         BeginRefused, Verify, Settled, NotSettled, Complete, Fail, Drop

\* The rows, handlers, leases and retries of the gateway implement the promise:
\* one purchase and one recorded answer per transaction, and nobody is served
\* anything else.
THEOREM SettlesOnce == Spec => ImplementsSettleOnce
<1>1. Init => Promise!Init
  BY DEF Init, Promise!Init, Unseen
<1>2. PromiseInv /\ [Next]_vars => [Promise!Next]_(Promise!vars)
  <2> SUFFICES ASSUME PromiseInv, [Next]_vars PROVE [Promise!Next]_(Promise!vars)
    OBVIOUS
  <2>1. ASSUME NEW h \in Handlers, HandlerNext(h) PROVE [Promise!Next]_(Promise!vars)
    BY <2>1, HandlerRefines
  <2>2. CASE row' = row /\ served' = served
    BY <2>2 DEF Promise!vars
  <2> QED
    BY <2>1, <2>2 DEF Next, Issue, Tick, vars
<1> QED
  BY <1>1, <1>2, PromiseInvariant, PTL DEF Spec, ImplementsSettleOnce, Promise!Spec
-----------------------------------------------------------------------------
(***************************************************************************)
(* What the settlement protects: nobody is served without payment and, as  *)
(* long as no request outlives a lease, no two requests have the settle    *)
(* call of one transaction outstanding.                                    *)
(***************************************************************************)

-----------------------------------------------------------------------------
(* Served is paid *)

\* Charges are never undone, and a step that settles a row or lets a handler
\* complete leaves its transaction charged.
LEMMA ChargedStep ==
    ASSUME PaidInv, NEW h \in Handlers, HandlerNext(h)
    PROVE  /\ charged \subseteq charged'
           /\ \A t \in Txs : row'[t].state = "settled" => t \in charged'
           /\ handler'[h].at = "complete" => handler'[h].tx \in charged'
           /\ \A s \in served' : s.tx \in charged'
<1>0. TypeOK /\ RowSound /\ HandlerSound /\ PaidSound
  BY DEF PaidInv, PromiseInv
<1>a. handler[h].at # "idle" => handler[h].tx \in Txs /\ handler[h].binding \in Bindings
  BY <1>0 DEF HandlerSound
<1>b. handler \in [Handlers -> HandlerRecord] /\ row \in [Txs -> RowRecord]
  BY <1>0 DEF TypeOK
<1> DEFINE Goal == /\ charged \subseteq charged'
                   /\ \A t \in Txs : row'[t].state = "settled" => t \in charged'
                   /\ handler'[h].at = "complete" => handler'[h].tx \in charged'
                   /\ \A s \in served' : s.tx \in charged'
<1>idle. ASSUME Return(h) PROVE handler'[h].at = "idle"
  <2>1. handler'[h] = Idle
    BY <1>b, <1>idle DEF Return
  <2> QED
    BY <2>1 DEF Idle
<1>still. ASSUME charged \subseteq charged', row' = row, served' = served,
                 handler'[h].at # "complete"
          PROVE  Goal
  BY <1>0, <1>still DEF PaidSound, ServedIsPaid
<1>go. ASSUME NEW x \in Points, GoTo(h, x) PROVE handler'[h].at = x
  BY <1>0, <1>go, AtFields DEF GoTo
<1>lease. ASSUME TakeLease(h), handler[h].at # "idle", RowOf(h).state # "settled",
                 charged' = charged, served' = served
          PROVE  Goal
  <2>1. handler'[h].at = "verify"
    BY <1>0, <1>lease, TakeLeaseRow DEF PaidInv
  <2>2. PICK k \in Tokens :
          row' = [row EXCEPT ![handler[h].tx] =
                    [state |-> "settling", lease |-> k, until |-> now + LeaseSecs,
                     failedAt |-> 0, binding |-> handler[h].binding, response |-> NoResponse]]
    BY <1>lease DEF TakeLease
  <2>3. \A t \in Txs : row'[t].state = "settled" => row[t].state = "settled"
    BY <1>a, <1>b, <1>lease, <2>2
  <2> QED
    BY <1>0, <1>lease, <2>1, <2>3 DEF PaidSound, ServedIsPaid
<1>1. ASSUME NEW b \in Bindings, NEW tx \in Txs, Receive(h, b, tx) PROVE Goal
  <2>1. handler'[h].at = "challenge"
    BY <1>b, <1>1 DEF Receive
  <2> QED
    BY <1>1, <2>1, <1>still DEF Receive
<1>2. CASE GetValid(h)
  BY <1>2, <1>go, <1>still DEF GetValid, Points
<1>3. CASE GetInvalid(h)
  BY <1>3, <1>idle, <1>still DEF GetInvalid
<1>4. CASE BeginUnseen(h)
  BY <1>4, <1>go, <1>still DEF BeginUnseen, Points
<1>5. CASE Insert(h)
  BY <1>5, <1>go, <1>still, <1>lease DEF Insert, Points
<1>6. CASE BeginCached(h)
  <2>1. handler' = [handler EXCEPT ![h].at = "reply", ![h].response = RowOf(h).response]
    BY <1>6 DEF BeginCached
  <2>2. RowOf(h).response \in Responses \cup {NoResponse}
    BY <1>0, <1>6, <1>a, RowFields DEF BeginCached, RowOf
  <2>3. handler'[h].at = "reply"
    BY <1>0, <2>1, <2>2, ResponseFields DEF Points
  <2> QED
    BY <1>6, <2>3, <1>still DEF BeginCached
<1>7. CASE BeginAgain(h)
  BY <1>7, <1>lease DEF BeginAgain, LeaseFree
<1>8. CASE BeginRefused(h)
  BY <1>8, <1>idle, <1>still DEF BeginRefused
<1>9. ASSUME NEW valid \in BOOLEAN, Verify(h, valid) PROVE Goal
  BY <1>9, <1>go, <1>still DEF Verify, Points
<1>10. ASSUME NEW response \in Responses, Settled(h, response) PROVE Goal
  <2>1. handler' = [handler EXCEPT ![h].at = "complete", ![h].response = response]
    BY <1>10 DEF Settled
  <2>2. handler'[h].tx = handler[h].tx
    BY <1>0, <2>1, ResponseFields DEF Points
  <2>3. charged' = charged \cup {handler[h].tx} /\ row' = row /\ served' = served
    BY <1>10 DEF Settled
  <2> QED
    BY <1>0, <2>2, <2>3 DEF PaidSound, ServedIsPaid
<1>11. ASSUME NEW lost \in BOOLEAN, NotSettled(h, lost) PROVE Goal
  <2>1. charged \subseteq charged' /\ row' = row /\ served' = served
    BY <1>11 DEF NotSettled
  <2>2. handler'[h].at = "fail"
    BY <1>11, <1>go DEF NotSettled, Points
  <2> QED
    BY <2>1, <2>2, <1>still
<1>12. CASE Complete(h)
  <2>0. handler[h].at = "complete" /\ charged' = charged /\ served' = served
    BY <1>12 DEF Complete
  <2>1. handler[h].tx \in charged
    BY <1>0, <2>0 DEF PaidSound
  <2>2. handler'[h].at # "complete"
    BY <1>12, <1>idle, <1>go DEF Complete, Points
  <2>3. \A t \in Txs \ {handler[h].tx} : row'[t] = row[t]
    BY <1>12, <1>b DEF Complete
  <2> QED
    BY <1>0, <2>0, <2>1, <2>2, <2>3 DEF PaidSound, ServedIsPaid
<1>13. CASE Fail(h)
  <2>1. charged' = charged /\ served' = served
    BY <1>13 DEF Fail
  <2>2. handler[h].tx \in Txs
    BY <1>13, <1>a DEF Fail
  <2>3. \A t \in Txs : row'[t].state = "settled" => row[t].state = "settled"
    <3>1. CASE row' = row
      BY <3>1
    <3>2. CASE row' = [row EXCEPT ![handler[h].tx] =
                         [@ EXCEPT !.state = "failed", !.lease = NoLease, !.until = 0,
                                   !.failedAt = now]]
      <4>1. row'[handler[h].tx].state = "failed"
        BY <1>b, <2>2, <3>2 DEF RowRecord
      <4>2. \A t \in Txs \ {handler[h].tx} : row'[t] = row[t]
        BY <1>b, <3>2
      <4> QED
        BY <4>1, <4>2
    <3> QED
      BY <1>13, <3>1, <3>2 DEF Fail
  <2>4. handler'[h].at # "complete"
    BY <1>13, <1>idle DEF Fail
  <2> QED
    BY <1>0, <2>1, <2>3, <2>4 DEF PaidSound, ServedIsPaid
<1>14. CASE Reply(h)
  <2>1. /\ handler[h].at = "reply" /\ row' = row /\ charged' = charged
        /\ served' = served \cup {[tx |-> handler[h].tx, binding |-> handler[h].binding,
                                   response |-> handler[h].response]}
    BY <1>14 DEF Reply
  <2>2. handler[h].tx \in charged
    BY <1>0, <1>a, <2>1 DEF HandlerSound, RowOf, PaidSound
  <2>3. handler'[h].at = "idle"
    BY <1>14, <1>idle DEF Reply
  <2> QED
    BY <1>0, <2>1, <2>2, <2>3 DEF PaidSound, ServedIsPaid
<1>15. ASSUME NEW lost \in BOOLEAN, Drop(h, lost) PROVE Goal
  <2>1. charged \subseteq charged' /\ row' = row /\ served' = served
    BY <1>15 DEF Drop
  <2>2. handler'[h].at = "idle"
    BY <1>15, <1>idle DEF Drop
  <2> QED
    BY <2>1, <2>2, <1>still
<1> QED
  BY <1>1, <1>2, <1>3, <1>4, <1>5, <1>6, <1>7, <1>8, <1>9, <1>10, <1>11, <1>12, <1>13,
     <1>14, <1>15 DEF HandlerNext, HandlerStep

\* Nobody is served for a transaction that the facilitator has not settled.
THEOREM ServedIsPaidCorrect == Spec => []ServedIsPaid
<1>1. Init => PaidInv
  <2> SUFFICES ASSUME Init PROVE PaidInv
    OBVIOUS
  <2>1. PaidSound
    BY DEF Init, PaidSound, ServedIsPaid, Unseen, Idle
  <2> QED
    BY <2>1, InitPromise DEF PaidInv
<1>2. PaidInv /\ [Next]_vars => PaidInv'
  <2> SUFFICES ASSUME PaidInv, [Next]_vars PROVE PaidInv'
    OBVIOUS
  <2>0. PromiseInv'
    BY NextPromise DEF PaidInv
  <2>1. ASSUME NEW h \in Handlers, HandlerNext(h) PROVE PaidSound'
    <3>1. \A g \in Handlers \ {h} : handler'[g] = handler[g]
      BY <2>1, MoverSound DEF PaidInv
    <3>2. \A g \in Handlers : handler'[g].at = "complete" => handler'[g].tx \in charged'
      BY <2>1, <3>1, ChargedStep DEF PaidInv, PaidSound
    <3> QED
      BY <2>1, <3>2, ChargedStep DEF PaidSound, ServedIsPaid
  <2>2. ASSUME UNCHANGED <<row, handler, charged, served>> PROVE PaidSound'
    BY <2>2 DEF PaidInv, PaidSound, ServedIsPaid
  <2>3. PaidSound'
    BY <2>1, <2>2 DEF Next, Issue, Tick, vars
  <2> QED
    BY <2>0, <2>3 DEF PaidInv
<1>3. PaidInv => ServedIsPaid
  BY DEF PaidInv, PaidSound
<1> QED
  BY <1>1, <1>2, <1>3, PTL DEF Spec

-----------------------------------------------------------------------------
(* Exclusive settle calls *)

\* What LeaseSound asks of one handler: it is within its timeout, and until it
\* has called the facilitator it owns its row, for the time of a lease at least.
InTime(h) ==
    handler[h].at # "idle" =>
        /\ handler[h].started <= now
        /\ now <= handler[h].started + RequestTimeout

Owner(h) ==
    handler[h].at \in {"verify", "settle"} =>
        /\ handler[h].lease \in Tokens
        /\ \/ Overdue(h)
           \/ /\ RowOf(h).state = "settling"
              /\ RowOf(h).lease = handler[h].lease
              /\ RowOf(h).until >= handler[h].started + LeaseSecs

\* A lease that a request takes is new, starts after the request did, and is
\* taken from a row that no request still owns within its time.
LEMMA TakeLeaseOwns ==
    ASSUME LeaseInv, NEW h \in Handlers, TakeLease(h), handler[h].at # "idle"
    PROVE  /\ Owner(h)'
           /\ handler'[h].started = handler[h].started
           /\ \A g \in Handlers \ {h} : handler'[g].lease # handler'[h].lease
           /\ \A t \in Txs \ {handler[h].tx} : row'[t] = row[t]
<1>0. TypeOK /\ HandlerSound /\ LeaseSound
  BY DEF LeaseInv, PromiseInv
<1>1. PICK k \in Tokens :
        /\ FreshToken(k)
        /\ row' = [row EXCEPT ![handler[h].tx] =
                     [state |-> "settling", lease |-> k, until |-> now + LeaseSecs,
                      failedAt |-> 0, binding |-> handler[h].binding,
                      response |-> NoResponse]]
        /\ handler' = [handler EXCEPT ![h].at = "verify", ![h].lease = k]
  BY DEF TakeLease
<1>2. /\ handler[h].tx \in Txs
      /\ handler[h] \in HandlerRecord
      /\ handler \in [Handlers -> HandlerRecord]
      /\ row \in [Txs -> RowRecord]
  BY <1>0 DEF TypeOK, HandlerSound
<1>3. /\ handler'[h].at = "verify"
      /\ handler'[h].tx = handler[h].tx
      /\ handler'[h].lease = k
      /\ handler'[h].started = handler[h].started
      /\ \A g \in Handlers \ {h} : handler'[g] = handler[g]
  BY <1>1, <1>2 DEF HandlerRecord
<1>4. /\ row'[handler[h].tx].state = "settling"
      /\ row'[handler[h].tx].lease = k
      /\ row'[handler[h].tx].until = now + LeaseSecs
      /\ \A t \in Txs \ {handler[h].tx} : row'[t] = row[t]
  BY <1>1, <1>2
<1>5. handler[h].started <= now
  BY <1>0 DEF LeaseSound
<1>6. now + LeaseSecs >= handler[h].started + LeaseSecs
  BY <1>0, <1>2, <1>5, TimingAssumption DEF TypeOK, HandlerRecord, Time
<1>7. Owner(h)'
  BY <1>3, <1>4, <1>6 DEF Owner, RowOf
<1> QED
  BY <1>1, <1>3, <1>4, <1>7 DEF FreshToken

\* A row cannot be taken over from a request within the time of a lease.
LEMMA NoTakeover ==
    ASSUME LeaseInv, NEW g \in Handlers, handler[g].at \in {"verify", "settle"}, ~Overdue(g)
    PROVE  ~LeaseFree(RowOf(g)) /\ RowOf(g).state = "settling"
<1>0. TypeOK /\ HandlerSound /\ LeaseSound
  BY DEF LeaseInv, PromiseInv
<1>1. /\ RowOf(g).state = "settling"
      /\ RowOf(g).until >= handler[g].started + LeaseSecs
      /\ handler[g].tx \in Txs
  BY <1>0 DEF LeaseSound, HandlerSound
<1>2. handler[g].started \in Int /\ RowOf(g).until \in Int /\ now \in Int
  BY <1>0, <1>1, HandlerFields, RowFields DEF RowOf, Time, TypeOK
<1>3. ~(RowOf(g).until < now)
  BY <1>1, <1>2, TimingAssumption DEF Overdue
<1> QED
  BY <1>1, <1>3 DEF LeaseFree

\* A handler's step leaves alone the rows that others own within their time.
LEMMA OthersKeepRow ==
    ASSUME LeaseInv, NEW h \in Handlers, HandlerNext(h),
           NEW g \in Handlers \ {h}, handler[g].at \in {"verify", "settle"}, ~Overdue(g)
    PROVE  row'[handler[g].tx] = row[handler[g].tx]
<1>0. TypeOK /\ HandlerSound /\ LeaseSound
  BY DEF LeaseInv, PromiseInv
<1>1. handler[g].tx \in Txs /\ row \in [Txs -> RowRecord]
  BY <1>0 DEF HandlerSound, TypeOK
<1>2. RowOf(g).state = "settling" /\ ~LeaseFree(RowOf(g))
  BY NoTakeover
<1>3. handler[g].lease \in Tokens /\ RowOf(g).lease = handler[g].lease
  BY <1>0 DEF LeaseSound
<1>4. CASE row' = row
  BY <1>4
<1>5. CASE Insert(h)
  <2>1. CASE RowOf(h).state = "unseen"
    <3>1. TakeLease(h) /\ handler[h].at # "idle"
      BY <1>5, <2>1 DEF Insert
    <3>2. \A t \in Txs \ {handler[h].tx} : row'[t] = row[t]
      BY <3>1, TakeLeaseOwns
    <3>3. handler[h].tx # handler[g].tx
      BY <1>2, <2>1 DEF RowOf
    <3> QED
      BY <1>1, <3>2, <3>3
  <2>2. CASE RowOf(h).state # "unseen"
    BY <1>5, <2>2 DEF Insert
  <2> QED
    BY <2>1, <2>2
<1>6. CASE BeginAgain(h)
  <2>1. TakeLease(h) /\ handler[h].at # "idle" /\ LeaseFree(RowOf(h))
    BY <1>6 DEF BeginAgain
  <2>2. \A t \in Txs \ {handler[h].tx} : row'[t] = row[t]
    BY <2>1, TakeLeaseOwns
  <2>3. handler[h].tx # handler[g].tx
    BY <1>2, <2>1 DEF RowOf
  <2> QED
    BY <1>1, <2>2, <2>3
<1>7. ASSUME OwnsRow(h) PROVE handler[h].tx # handler[g].tx
  <2>1. SUFFICES ASSUME handler[h].tx = handler[g].tx PROVE FALSE
    OBVIOUS
  <2>2. handler[h].lease = handler[g].lease /\ handler[h].lease # NoLease
    BY <1>3, <1>7, <2>1, NullAssumption DEF OwnsRow, RowOf
  <2> QED
    BY <1>0, <2>2 DEF LeaseSound
<1>8. CASE Complete(h) /\ row' # row
  <2>1. OwnsRow(h) /\ \A t \in Txs \ {handler[h].tx} : row'[t] = row[t]
    BY <1>1, <1>8 DEF Complete
  <2> QED
    BY <1>1, <1>7, <2>1
<1>9. CASE Fail(h) /\ row' # row
  <2>1. OwnsRow(h) /\ \A t \in Txs \ {handler[h].tx} : row'[t] = row[t]
    BY <1>1, <1>9 DEF Fail
  <2> QED
    BY <1>1, <1>7, <2>1
<1> QED
  BY <1>4, <1>5, <1>6, <1>8, <1>9
     DEF HandlerNext, HandlerStep, Receive, GetValid, GetInvalid, BeginUnseen, BeginCached,
         BeginRefused, Verify, Settled, NotSettled, Reply, Drop

\* The handler that takes a step is in time and owns what it needs after it, and
\* it has kept its lease, lost it or taken one that nobody else has.
LEMMA MoverOwns ==
    ASSUME LeaseInv, NEW h \in Handlers, HandlerNext(h)
    PROVE  /\ InTime(h)'
           /\ Owner(h)'
           /\ \/ handler'[h].lease \in {handler[h].lease, NoLease}
              \/ \A g \in Handlers \ {h} : handler'[g].lease # handler'[h].lease
<1> DEFINE Goal == /\ InTime(h)'
                   /\ Owner(h)'
                   /\ \/ handler'[h].lease \in {handler[h].lease, NoLease}
                      \/ \A g \in Handlers \ {h} : handler'[g].lease # handler'[h].lease
<1>0. TypeOK /\ HandlerSound /\ LeaseSound
  BY DEF LeaseInv, PromiseInv
<1>a. handler[h].at # "idle" =>
        /\ handler[h].tx \in Txs
        /\ handler[h].started <= now
        /\ now <= handler[h].started + RequestTimeout
  BY <1>0 DEF HandlerSound, LeaseSound
<1>b. handler \in [Handlers -> HandlerRecord]
  BY <1>0 DEF TypeOK
<1>now. now' = now
  BY DEF HandlerNext, HandlerStep, Receive, GetValid, GetInvalid, BeginUnseen, Insert,
         BeginCached, BeginAgain, BeginRefused, Verify, Settled, NotSettled, Complete, Fail,
         Reply, Drop
<1>idle. ASSUME Return(h) PROVE Goal
  <2>1. handler'[h] = Idle
    BY <1>b, <1>idle DEF Return
  <2>2. handler'[h].at = "idle" /\ handler'[h].lease = NoLease
    BY <2>1 DEF Idle
  <2> QED
    BY <2>2 DEF InTime, Owner
<1>go. ASSUME NEW x \in Points \ {"verify", "settle"}, GoTo(h, x), handler[h].at # "idle"
       PROVE  Goal
  <2>1. /\ handler'[h].at = x
        /\ handler'[h].lease = handler[h].lease
        /\ handler'[h].started = handler[h].started
    BY <1>0, <1>go, AtFields DEF GoTo
  <2> QED
    BY <1>a, <1>go, <1>now, <2>1 DEF InTime, Owner
<1>lease. ASSUME TakeLease(h), handler[h].at # "idle" PROVE Goal
  <2>1. /\ Owner(h)'
        /\ handler'[h].started = handler[h].started
        /\ \A g \in Handlers \ {h} : handler'[g].lease # handler'[h].lease
    BY <1>lease, TakeLeaseOwns
  <2> QED
    BY <1>a, <1>lease, <1>now, <2>1 DEF InTime
<1>1. ASSUME NEW b \in Bindings, NEW tx \in Txs, Receive(h, b, tx) PROVE Goal
  <2>1. handler'[h].at = "challenge" /\ handler'[h].lease = NoLease /\ handler'[h].started = now
    BY <1>b, <1>1 DEF Receive
  <2>2. now <= now + RequestTimeout /\ now <= now
    BY <1>0, TimingAssumption DEF TypeOK
  <2> QED
    BY <1>now, <2>1, <2>2 DEF InTime, Owner
<1>2. CASE GetValid(h)
  BY <1>2, <1>go DEF GetValid, Points
<1>3. CASE GetInvalid(h)
  BY <1>3, <1>idle DEF GetInvalid
<1>4. CASE BeginUnseen(h)
  BY <1>4, <1>go DEF BeginUnseen, Points
<1>5. CASE Insert(h)
  BY <1>5, <1>go, <1>lease DEF Insert, Points
<1>6. CASE BeginCached(h)
  <2>1. handler' = [handler EXCEPT ![h].at = "reply", ![h].response = RowOf(h).response]
    BY <1>6 DEF BeginCached
  <2>2. RowOf(h).response \in Responses \cup {NoResponse}
    BY <1>0, <1>6, <1>a, RowFields DEF BeginCached, RowOf
  <2>3. /\ handler'[h].at = "reply"
        /\ handler'[h].lease = handler[h].lease
        /\ handler'[h].started = handler[h].started
    BY <1>0, <2>1, <2>2, ResponseFields DEF Points
  <2>4. handler[h].at = "begin"
    BY <1>6 DEF BeginCached
  <2> QED
    BY <1>a, <1>now, <2>3, <2>4 DEF InTime, Owner
<1>7. CASE BeginAgain(h)
  BY <1>7, <1>lease DEF BeginAgain
<1>8. CASE BeginRefused(h)
  BY <1>8, <1>idle DEF BeginRefused
<1>9. ASSUME NEW valid \in BOOLEAN, Verify(h, valid) PROVE Goal
  <2>1. CASE valid
    <3>1. handler' = [handler EXCEPT ![h].at = "settle"] /\ handler[h].at = "verify" /\ row' = row
      BY <1>9, <2>1 DEF Verify, GoTo
    <3>2. /\ handler'[h].at = "settle"
          /\ handler'[h].tx = handler[h].tx
          /\ handler'[h].lease = handler[h].lease
          /\ handler'[h].started = handler[h].started
      BY <1>0, <3>1, AtFields
    <3>3. Owner(h)
      BY <1>0 DEF LeaseSound, Owner
    <3>4. Owner(h)'
      BY <1>now, <3>1, <3>2, <3>3 DEF Owner, RowOf, Overdue
    <3> QED
      BY <1>a, <1>now, <3>1, <3>2, <3>4 DEF InTime
  <2>2. CASE ~valid
    BY <1>9, <2>2, <1>go DEF Verify, Points
  <2> QED
    BY <2>1, <2>2
<1>10. ASSUME NEW response \in Responses, Settled(h, response) PROVE Goal
  <2>1. handler' = [handler EXCEPT ![h].at = "complete", ![h].response = response]
    BY <1>10 DEF Settled
  <2>2. /\ handler'[h].at = "complete"
        /\ handler'[h].lease = handler[h].lease
        /\ handler'[h].started = handler[h].started
    BY <1>0, <2>1, ResponseFields DEF Points
  <2>3. handler[h].at = "settle"
    BY <1>10 DEF Settled
  <2> QED
    BY <1>a, <1>now, <2>2, <2>3 DEF InTime, Owner
<1>11. ASSUME NEW lost \in BOOLEAN, NotSettled(h, lost) PROVE Goal
  BY <1>11, <1>go DEF NotSettled, Points
<1>12. CASE Complete(h)
  BY <1>12, <1>go, <1>idle DEF Complete, Points
<1>13. CASE Fail(h)
  BY <1>13, <1>idle DEF Fail
<1>14. CASE Reply(h)
  BY <1>14, <1>idle DEF Reply
<1>15. ASSUME NEW lost \in BOOLEAN, Drop(h, lost) PROVE Goal
  BY <1>15, <1>idle DEF Drop
<1> QED
  BY <1>1, <1>2, <1>3, <1>4, <1>5, <1>6, <1>7, <1>8, <1>9, <1>10, <1>11, <1>12, <1>13,
     <1>14, <1>15 DEF HandlerNext, HandlerStep

\* Every step keeps leases exclusive.
LEMMA NextLease == LeaseInv /\ [Next]_vars => LeaseInv'
<1> SUFFICES ASSUME LeaseInv, [Next]_vars PROVE LeaseInv'
  OBVIOUS
<1>0. PromiseInv /\ TypeOK /\ HandlerSound /\ LeaseSound
  BY DEF LeaseInv, PromiseInv
<1>1. PromiseInv'
  BY <1>0, NextPromise
<1>2. ASSUME NEW h \in Handlers, HandlerNext(h) PROVE LeaseSound'
  <2>1. \A g \in Handlers \ {h} : handler'[g] = handler[g]
    BY <1>0, <1>2, MoverSound
  <2>2. /\ InTime(h)'
        /\ Owner(h)'
        /\ \/ handler'[h].lease \in {handler[h].lease, NoLease}
           \/ \A g \in Handlers \ {h} : handler'[g].lease # handler'[h].lease
    BY <1>2, MoverOwns
  <2>now. now' = now
    BY <1>2 DEF HandlerNext, HandlerStep, Receive, GetValid, GetInvalid, BeginUnseen, Insert,
           BeginCached, BeginAgain, BeginRefused, Verify, Settled, NotSettled, Complete, Fail,
           Reply, Drop
  <2>3. ASSUME NEW g \in Handlers \ {h} PROVE InTime(g)' /\ Owner(g)'
    <3>1. InTime(g) /\ Owner(g)
      BY <1>0 DEF LeaseSound, InTime, Owner
    <3>2. handler'[g] = handler[g]
      BY <2>1
    <3>3. handler[g].at \in {"verify", "settle"} /\ ~Overdue(g) =>
            row'[handler[g].tx] = row[handler[g].tx]
      BY <1>2, OthersKeepRow
    <3>4. Overdue(g)' <=> Overdue(g)
      BY <2>now, <3>2 DEF Overdue
    <3> QED
      BY <2>now, <3>1, <3>2, <3>3, <3>4 DEF InTime, Owner, RowOf
  <2>4. \A g \in Handlers : InTime(g)' /\ Owner(g)'
    BY <2>2, <2>3
  <2>5. \A g, x \in Handlers :
          handler'[g].lease = handler'[x].lease /\ handler'[g].lease # NoLease => g = x
    BY <1>0, <2>1, <2>2 DEF LeaseSound
  <2> QED
    BY <2>4, <2>5 DEF LeaseSound, InTime, Owner
<1>3. ASSUME Tick PROVE LeaseSound'
  <2>1. ASSUME NEW h \in Handlers, handler[h].at # "idle"
        PROVE  handler[h].started <= now' /\ now' <= handler[h].started + RequestTimeout
    <3>1. handler[h].started \in Int /\ now \in Int
      BY <1>0, HandlerFields DEF TypeOK, Time
    <3>2. handler[h].started <= now /\ now < handler[h].started + RequestTimeout
      BY <1>0, <1>3, <2>1 DEF LeaseSound, Tick
    <3> QED
      BY <1>3, <3>1, <3>2, TimingAssumption DEF Tick
  <2>2. row' = row /\ handler' = handler
    BY <1>3 DEF Tick
  <2>3. ASSUME NEW h \in Handlers, Overdue(h) PROVE Overdue(h)'
    <3>1. handler[h].started \in Int /\ now \in Int
      BY <1>0, HandlerFields DEF TypeOK, Time
    <3> QED
      BY <1>3, <2>2, <2>3, <3>1, TimingAssumption DEF Overdue, Tick
  <2> QED
    BY <1>0, <2>1, <2>2, <2>3 DEF LeaseSound, RowOf
<1>4. ASSUME UNCHANGED <<now, row, handler>> PROVE LeaseSound'
  BY <1>0, <1>4 DEF LeaseSound, RowOf, Overdue
<1>5. LeaseSound'
  BY <1>2, <1>3, <1>4 DEF Next, Issue, vars
<1> QED
  BY <1>1, <1>5 DEF LeaseInv

\* And they are so at the start.
LEMMA LeaseCorrect == Spec => []LeaseInv
<1>1. Init => LeaseInv
  <2> SUFFICES ASSUME Init PROVE LeaseInv
    OBVIOUS
  <2>1. \A h \in Handlers : handler[h].at = "idle" /\ handler[h].lease = NoLease
    BY DEF Init, Idle
  <2> QED
    BY <2>1, InitPromise DEF LeaseInv, LeaseSound
<1> QED
  BY <1>1, NextLease, PTL DEF Spec

\* Two requests have the settle call of one transaction outstanding only when
\* one of them has been running for longer than a lease: a younger request
\* keeps its row.
THEOREM SettleExclusiveCorrect == Spec => []SettleExclusive
<1>1. LeaseInv => SettleExclusive
  BY NullAssumption DEF LeaseInv, LeaseSound, SettleExclusive, RowOf
<1> QED
  BY <1>1, LeaseCorrect, PTL

\* One settle call of a transaction at a time.
OneSettleCall ==
    \A g, h \in Handlers :
        handler[g].at = "settle" /\ handler[h].at = "settle" /\ handler[g].tx = handler[h].tx
            => g = h

\* A configuration whose request timeout is no longer than the lease has at most
\* one settle call of a transaction outstanding.
THEOREM OneSettleCallInTime ==
    ASSUME RequestTimeout <= LeaseSecs
    PROVE  Spec => []OneSettleCall
<1>1. ASSUME LeaseInv, NEW h \in Handlers, handler[h].at = "settle" PROVE ~Overdue(h)
  <2>1. now <= handler[h].started + RequestTimeout
    BY <1>1 DEF LeaseInv, LeaseSound
  <2>2. handler[h].started \in Int /\ now \in Int
    BY <1>1, HandlerFields DEF LeaseInv, PromiseInv, TypeOK, Time
  <2> QED
    BY <2>1, <2>2, TimingAssumption DEF Overdue
<1>2. LeaseInv => SettleExclusive
  BY NullAssumption DEF LeaseInv, LeaseSound, SettleExclusive, RowOf
<1>3. LeaseInv => OneSettleCall
  BY <1>1, <1>2 DEF SettleExclusive, OneSettleCall
<1> QED
  BY <1>3, LeaseCorrect, PTL
==============================================================================
