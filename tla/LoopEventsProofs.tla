--------------------------- MODULE LoopEventsProofs ---------------------------
(***************************************************************************)
(* Proofs about LoopEvents, for any number of posters, any size of the ring *)
(* and any number of posts and runs.                                        *)
(***************************************************************************)
EXTENDS LoopEventsProperties, TLAPS

USE LoopEventsAssumption

\* The wrap of the ring's indices.
LEMMA IndexWraps ==
  ASSUME NEW h \in 0..(queue_size - 1), NEW n \in 0..queue_size
  PROVE  Index(h, n) = IF h + n < queue_size THEN h + n ELSE h + n - queue_size
<1>1. CASE h + n < queue_size
  BY <1>1 DEF Index
<1>2. CASE h + n >= queue_size
  <2>1. h + n = queue_size + (h + n - queue_size)
    OBVIOUS
  <2>2. h + n - queue_size \in 0..(queue_size - 1)
    BY <1>2
  <2> QED
    BY <1>2, <2>1, <2>2 DEF Index
<1> QED
  BY <1>1, <1>2

-----------------------------------------------------------------------------
(* The ring holds the events after the last one taken out, in order.        *)

Ring ==
  \A k \in 0..queue_size :
    k < queue_count => queue[Index(queue_head, k)] = bounce + 1 + k

\* What is needed besides: every event is in the ring or has been taken out,
\* the wake count claims no event that is not there, and the dispatch in
\* progress claims none that was posted after it began.
RingInv ==
  /\ TypeOK
  /\ Ring
  /\ posted = bounce + queue_count
  /\ wake + Claimed <= queue_count
  /\ pc = "handler" => count >= 1 /\ bounce + count - 1 <= due

LEMMA InitRing == Init => RingInv
<1> SUFFICES ASSUME Init PROVE RingInv
  OBVIOUS
<1>1. TypeOK
  <2>1. queue \in [0..(queue_size - 1) -> 0..MaxPosts] /\ queue_head \in 0..(queue_size - 1)
    BY DEF Init
  <2>2. pc \in Pcs /\ ret \in [Posters -> {"none", "ESP_OK", "ESP_FAIL"}]
    BY DEF Init, Pcs
  <2>3. /\ queue_count \in 0..queue_size /\ wake \in 0..UINT64_MAX
        /\ bounce \in 0..MaxPosts /\ count \in 0..queue_size /\ runs \in 0..MaxRuns
        /\ posted \in 0..MaxPosts /\ due \in 0..MaxPosts
    BY DEF Init
  <2>4. should_stop \in BOOLEAN
    BY DEF Init
  <2> QED
    BY <2>1, <2>2, <2>3, <2>4 DEF TypeOK
<1>2. Ring
  BY DEF Init, Ring
<1>3. Claimed = 0 /\ pc # "handler" /\ wake = 0 /\ queue_count = 0 /\ posted = 0 /\ bounce = 0
  BY DEF Init, Claimed
<1> QED
  BY <1>1, <1>2, <1>3 DEF RingInv

\* Taking the head out yields the next event.
LEMMA PopHeadRing ==
  ASSUME TypeOK, Ring, posted = bounce + queue_count, queue_count > 0, PopHead
  PROVE  /\ bounce' = bounce + 1 /\ queue_count' = queue_count - 1 /\ queue' = queue
         /\ bounce' \in 0..MaxPosts
         /\ queue_head' \in 0..(queue_size - 1)
         /\ queue_count' \in 0..queue_size
         /\ Ring'
<1>1. /\ queue_head \in 0..(queue_size - 1) /\ queue_count \in 0..queue_size
      /\ bounce \in 0..MaxPosts /\ posted \in 0..MaxPosts
  BY DEF TypeOK
<1>2. /\ bounce' = queue[queue_head] /\ queue_count' = queue_count - 1 /\ queue' = queue
      /\ queue_head' = Index(queue_head, 1)
  BY DEF PopHead
<1>3. Index(queue_head, 0) = queue_head
  BY <1>1, IndexWraps
<1>4. bounce' = bounce + 1
  BY <1>1, <1>2, <1>3 DEF Ring
<1>5. queue_head' \in 0..(queue_size - 1)
  BY <1>1, <1>2, IndexWraps
<1>6. Ring'
  <2> SUFFICES ASSUME NEW k \in 0..queue_size, k < queue_count'
               PROVE  queue[Index(queue_head', k)] = bounce' + 1 + k
    BY <1>2 DEF Ring, Index
  <2>1. k + 1 \in 0..queue_size /\ k + 1 < queue_count
    BY <1>1, <1>2
  <2>2. Index(queue_head', k) = Index(queue_head, k + 1)
    BY <1>1, <1>2, <1>5, <2>1, IndexWraps
  <2>3. queue[Index(queue_head, k + 1)] = bounce + 1 + (k + 1)
    BY <2>1 DEF Ring
  <2> QED
    BY <1>1, <1>4, <2>1, <2>2, <2>3
<1> QED
  BY <1>1, <1>2, <1>4, <1>5, <1>6

\* Pushing does not disturb the events in the ring.
LEMMA PushTailRing ==
  ASSUME TypeOK, Ring, posted = bounce + queue_count, posted < MaxPosts, ~Full,
         PushTail(posted + 1)
  PROVE  /\ queue' \in [0..(queue_size - 1) -> 0..MaxPosts]
         /\ queue_count' = queue_count + 1 /\ queue_count' \in 0..queue_size
         /\ UNCHANGED <<queue_head, bounce>>
         /\ Ring'
<1>1. /\ queue_head \in 0..(queue_size - 1) /\ queue_count \in 0..queue_size
      /\ bounce \in 0..MaxPosts /\ posted \in 0..MaxPosts
      /\ queue \in [0..(queue_size - 1) -> 0..MaxPosts]
  BY DEF TypeOK
<1>2. /\ queue' = [queue EXCEPT ![Index(queue_head, queue_count)] = posted + 1]
      /\ queue_count' = queue_count + 1 /\ queue_head' = queue_head /\ bounce' = bounce
  BY DEF PushTail
<1>3. queue_count < queue_size
  BY <1>1 DEF Full
<1>4. ASSUME NEW k \in 0..queue_size, k <= queue_count
      PROVE  /\ Index(queue_head, k) \in 0..(queue_size - 1)
             /\ k < queue_count => Index(queue_head, k) # Index(queue_head, queue_count)
  <2>1. Index(queue_head, k) =
          IF queue_head + k < queue_size THEN queue_head + k ELSE queue_head + k - queue_size
    BY <1>1, IndexWraps
  <2>2. Index(queue_head, queue_count) =
          IF queue_head + queue_count < queue_size THEN queue_head + queue_count
          ELSE queue_head + queue_count - queue_size
    BY <1>1, IndexWraps
  <2> QED
    BY <1>1, <1>3, <1>4, <2>1, <2>2
<1>6. Ring'
  <2> SUFFICES ASSUME NEW k \in 0..queue_size, k < queue_count + 1
               PROVE  queue'[Index(queue_head, k)] = bounce + 1 + k
    BY <1>2 DEF Ring, Index
  <2>1. CASE k < queue_count
    <3>1. queue'[Index(queue_head, k)] = queue[Index(queue_head, k)]
      BY <1>1, <1>2, <1>4, <2>1
    <3> QED
      BY <2>1, <3>1 DEF Ring
  <2>2. CASE k = queue_count
    BY <1>1, <1>2, <1>4, <2>2
  <2> QED
    BY <1>1, <2>1, <2>2
<1>7. queue' \in [0..(queue_size - 1) -> 0..MaxPosts]
  <2>1. posted + 1 \in 0..MaxPosts
    BY <1>1
  <2> QED
    BY <1>1, <1>2, <2>1
<1> QED
  BY <1>1, <1>2, <1>3, <1>6, <1>7

LEMMA PostRing == ASSUME RingInv, NEW p \in Posters, Post(p) PROVE RingInv'
<1>0. TypeOK /\ Ring /\ posted = bounce + queue_count
  BY DEF RingInv
<1>1. CASE Full
  <2>1. /\ ret' = [ret EXCEPT ![p] = "ESP_FAIL"]
        /\ UNCHANGED <<queueVars, wake, posted, pc, should_stop, count, runs, due>>
    BY <1>1 DEF Post
  <2> QED
    BY <2>1 DEF RingInv, TypeOK, Ring, Claimed, queueVars, Index
<1>2. CASE ~Full
  <2>1. /\ posted < MaxPosts /\ PushTail(posted + 1) /\ wake' = wake + 1
        /\ posted' = posted + 1
        /\ pc' = IF wake = UINT64_MAX THEN "aborted" ELSE pc
        /\ ret' = [ret EXCEPT ![p] = "ESP_OK"]
        /\ UNCHANGED <<should_stop, count, runs, due>>
    BY <1>2 DEF Post, Woken
  <2>2. wake < UINT64_MAX
    BY <1>2, <1>0 DEF RingInv, TypeOK, Claimed, Full
  <2>3. pc' = pc
    BY <2>1, <2>2
  <2>4. /\ queue' \in [0..(queue_size - 1) -> 0..MaxPosts]
        /\ queue_count' = queue_count + 1 /\ queue_count' \in 0..queue_size
        /\ UNCHANGED <<queue_head, bounce>>
        /\ Ring'
    BY <1>0, <1>2, <2>1, PushTailRing
  <2>5. TypeOK'
    BY <1>0, <2>1, <2>2, <2>3, <2>4 DEF TypeOK
  <2>6. Claimed' = Claimed
    BY <2>1, <2>3 DEF Claimed
  <2>7. posted' = bounce' + queue_count' /\ wake' + Claimed' <= queue_count'
    BY <1>0, <2>1, <2>4, <2>6 DEF RingInv, TypeOK, Claimed
  <2>8. pc' = "handler" => count' >= 1 /\ bounce' + count' - 1 <= due'
    BY <2>1, <2>3, <2>4 DEF RingInv
  <2> QED
    BY <2>4, <2>5, <2>7, <2>8 DEF RingInv
<1> QED
  BY <1>1, <1>2

LEMMA CanReadRing == ASSUME RingInv, CanRead PROVE RingInv'
<1>0. TypeOK /\ Ring /\ posted = bounce + queue_count
  BY DEF RingInv
<1>1. /\ pc = "can_read" /\ count' = queue_count /\ wake' = 0 /\ due' = posted
      /\ UNCHANGED <<should_stop, runs, posted, ret>>
  BY DEF CanRead
<1>2. CASE pc' = "handler" /\ PopHead /\ queue_count > 0
  <2>1. /\ bounce' = bounce + 1 /\ queue_count' = queue_count - 1 /\ queue' = queue
        /\ bounce' \in 0..MaxPosts
        /\ queue_head' \in 0..(queue_size - 1)
        /\ queue_count' \in 0..queue_size
        /\ Ring'
    BY <1>0, <1>2, PopHeadRing
  <2>2. TypeOK'
    <3>1. wake' \in 0..UINT64_MAX /\ count' \in 0..queue_size /\ due' \in 0..MaxPosts
      BY <1>0, <1>1 DEF TypeOK
    <3>2. pc' \in Pcs
      BY <1>2 DEF Pcs, Callbacks
    <3> QED
      BY <1>0, <1>1, <2>1, <3>1, <3>2 DEF TypeOK
  <2>3. posted' = bounce' + queue_count' /\ Claimed' = queue_count'
    BY <1>0, <1>1, <1>2, <2>1 DEF TypeOK, Claimed
  <2>4. count' >= 1 /\ bounce' + count' - 1 <= due'
    BY <1>0, <1>1, <1>2, <2>1 DEF TypeOK
  <2> QED
    BY <1>1, <2>1, <2>2, <2>3, <2>4 DEF RingInv, TypeOK
<1>3. CASE pc' = "aborted" /\ UNCHANGED queueVars
  BY <1>0, <1>1, <1>3 DEF RingInv, TypeOK, Ring, Claimed, Pcs, queueVars, Index
<1> QED
  BY <1>2, <1>3 DEF CanRead

LEMMA HandlerRing == ASSUME RingInv, HandlerReturns PROVE RingInv'
<1>0. TypeOK /\ Ring /\ posted = bounce + queue_count
  BY DEF RingInv
<1>1. /\ pc = "handler" /\ count' = count - 1
      /\ UNCHANGED <<wake, should_stop, runs, posted, due, ret>>
  BY DEF HandlerReturns
<1>2. /\ count >= 1 /\ count \in 0..queue_size /\ bounce + count - 1 <= due
      /\ wake + (count - 1) <= queue_count
      /\ wake \in Nat /\ queue_count \in Nat /\ due \in Nat /\ bounce \in Nat
  BY <1>0, <1>1 DEF RingInv, TypeOK, Claimed
<1>3. CASE pc' = "handler" /\ PopHead /\ ~DispatchOver /\ queue_count > 0
  <2>1. /\ bounce' = bounce + 1 /\ queue_count' = queue_count - 1 /\ queue' = queue
        /\ bounce' \in 0..MaxPosts
        /\ queue_head' \in 0..(queue_size - 1)
        /\ queue_count' \in 0..queue_size
        /\ Ring'
    BY <1>0, <1>3, PopHeadRing
  <2>2. count > 1
    BY <1>2, <1>3 DEF DispatchOver
  <2>3. TypeOK'
    BY <1>0, <1>1, <1>2, <1>3, <2>1 DEF TypeOK, Pcs
  <2>4. posted' = bounce' + queue_count' /\ wake' + Claimed' <= queue_count'
    BY <1>0, <1>1, <1>2, <1>3, <2>1, <2>2 DEF Claimed, TypeOK
  <2>5. count' >= 1 /\ bounce' + count' - 1 <= due'
    BY <1>1, <1>2, <2>1, <2>2
  <2> QED
    BY <2>1, <2>3, <2>4, <2>5 DEF RingInv
<1>4. CASE pc' \in {"iterate", "aborted"} /\ UNCHANGED queueVars
  <2>1. TypeOK'
    BY <1>0, <1>1, <1>2, <1>4 DEF TypeOK, Pcs, queueVars
  <2>2. wake' + Claimed' <= queue_count'
    BY <1>1, <1>2, <1>4 DEF Claimed, queueVars
  <2> QED
    BY <1>0, <1>1, <1>4, <2>1, <2>2 DEF RingInv, Ring, queueVars, Index
<1> QED
  BY <1>3, <1>4 DEF HandlerReturns

\* Run, Stop and the steps of the loop between two dispatches.
LEMMA OtherRing ==
  ASSUME RingInv, Run \/ Stop \/ CallbackReturns \/ Iterate \/ Select
  PROVE  RingInv'
<1>1. UNCHANGED <<queueVars, wake, count, posted, due, ret>>
  BY DEF Run, Stop, CallbackReturns, Iterate, Select, SelectReady, SelectFails
<1>2. /\ should_stop' \in BOOLEAN /\ runs' \in 0..MaxRuns /\ pc' \in Pcs
      /\ pc' = "handler" => pc = "handler"
      /\ pc = "handler" => pc' = "handler"
  <2>1. should_stop \in BOOLEAN /\ runs \in 0..MaxRuns /\ pc \in Pcs /\ MaxRuns \in Nat
    BY DEF RingInv, TypeOK
  <2>2. CASE Run
    <3>1. runs' \in 0..MaxRuns
      BY <2>1, <2>2 DEF Run
    <3> QED
      BY <2>2, <3>1 DEF Run, Pcs, Callbacks
  <2>3. CASE Stop
    BY <2>1, <2>3 DEF Stop
  <2>4. CASE CallbackReturns
    BY <2>1, <2>4 DEF CallbackReturns, Pcs
  <2>5. CASE Iterate
    BY <2>1, <2>5 DEF Iterate, Pcs, Callbacks
  <2>6. CASE Select
    BY <2>1, <2>6 DEF Select, SelectReady, SelectFails, Pcs, Callbacks
  <2> QED
    BY <2>2, <2>3, <2>4, <2>5, <2>6
<1>3. TypeOK'
  BY <1>1, <1>2 DEF RingInv, TypeOK, queueVars
<1>4. Claimed' = Claimed
  BY <1>1, <1>2 DEF Claimed
<1> QED
  BY <1>1, <1>2, <1>3, <1>4 DEF RingInv, Ring, queueVars, Index

LEMMA NextRing == ASSUME RingInv, [Next]_vars PROVE RingInv'
<1>1. CASE UNCHANGED vars
  BY <1>1 DEF RingInv, TypeOK, Ring, Claimed, Index, vars, queueVars
<1> QED
  BY <1>1, PostRing, CanReadRing, HandlerRing, OtherRing DEF Next, LoopStep

\* The ring, its counters and the wake count stay within their bounds.
THEOREM LoopTypeCorrect == Spec => []TypeOK
<1>1. RingInv => TypeOK
  BY DEF RingInv
<1> QED
  BY <1>1, InitRing, NextRing, PTL DEF Spec

\* The handler never gets an event posted after the dispatch began, however
\* often the loop is stopped and run again.
THEOREM NoStarvationAlways == Spec => []NoStarvation
<1>1. RingInv => NoStarvation
  BY DEF RingInv, NoStarvation, TypeOK
<1> QED
  BY <1>1, InitRing, NextRing, PTL DEF Spec

-----------------------------------------------------------------------------
(* The wake count in the first run of the loop.  A dispatch takes all of    *)
(* the count, and leaves events behind only when the loop is stopped, after *)
(* which this run does not come back to select().                           *)

FirstRun ==
  runs <= 1 =>
    /\ pc # "aborted"
    /\ pc \in {"select", "can_read"} => ~should_stop
    /\ pc = "can_read" => wake > 0
    /\ runs = 0 => pc = "stopped" /\ ~should_stop
    /\ ~should_stop => queue_count = wake + Claimed

FirstRunInv == RingInv /\ FirstRun

LEMMA InitFirstRun == Init => FirstRunInv
<1>1. Init => FirstRun
  BY DEF Init, FirstRun, Claimed
<1> QED
  BY <1>1, InitRing DEF FirstRunInv

LEMMA PostFirstRun == ASSUME FirstRunInv, NEW p \in Posters, Post(p) PROVE FirstRun'
<1>0. RingInv /\ TypeOK /\ FirstRun
  BY DEF FirstRunInv, RingInv
<1>1. CASE Full
  <2>1. UNCHANGED <<queueVars, wake, posted, pc, should_stop, count, runs, due>>
    BY <1>1 DEF Post
  <2> QED
    BY <1>0, <2>1 DEF FirstRun, Claimed, queueVars
<1>2. CASE ~Full
  <2>1. /\ wake' = wake + 1 /\ queue_count' = queue_count + 1
        /\ pc' = IF wake = UINT64_MAX THEN "aborted" ELSE pc
        /\ UNCHANGED <<should_stop, count, runs>>
    BY <1>2 DEF Post, Woken, PushTail
  <2>2. wake < UINT64_MAX /\ wake \in Nat /\ queue_count \in Nat /\ count \in Nat
    BY <1>0, <1>2 DEF RingInv, TypeOK, Claimed, Full
  <2>3. pc' = pc /\ Claimed' = Claimed /\ Claimed + 0 = Claimed
    BY <2>1, <2>2 DEF Claimed
  <2>4. wake' > 0
    BY <2>1, <2>2
  <2>5. queue_count = wake + Claimed => queue_count' = wake' + Claimed'
    BY <2>1, <2>2, <2>3 DEF Claimed
  <2> QED
    BY <1>0, <2>1, <2>3, <2>4, <2>5 DEF FirstRun
<1> QED
  BY <1>1, <1>2

LEMMA CanReadFirstRun == ASSUME FirstRunInv, CanRead PROVE FirstRun'
<1>0. RingInv /\ TypeOK /\ FirstRun
  BY DEF FirstRunInv, RingInv
<1> SUFFICES ASSUME runs' <= 1 PROVE FirstRun'
  BY DEF FirstRun
<1>1. /\ pc = "can_read" /\ count' = queue_count /\ wake' = 0
      /\ UNCHANGED <<should_stop, runs>>
  BY DEF CanRead
<1>2. /\ ~should_stop /\ wake > 0 /\ queue_count = wake /\ runs # 0
      /\ queue_count \in Nat
  BY <1>0, <1>1 DEF FirstRun, Claimed, TypeOK
<1>3. pc' = "handler" /\ queue_count' = queue_count - 1
  BY <1>2 DEF CanRead, PopHead
<1>4. Claimed' = queue_count - 1
  BY <1>1, <1>3 DEF Claimed
<1> QED
  BY <1>1, <1>2, <1>3, <1>4 DEF FirstRun

LEMMA HandlerFirstRun == ASSUME FirstRunInv, HandlerReturns PROVE FirstRun'
<1>0. RingInv /\ TypeOK /\ FirstRun
  BY DEF FirstRunInv, RingInv
<1> SUFFICES ASSUME runs' <= 1 PROVE FirstRun'
  BY DEF FirstRun
<1>1. /\ pc = "handler" /\ count' = count - 1 /\ UNCHANGED <<wake, should_stop, runs>>
  BY DEF HandlerReturns
<1>2. /\ runs # 0
      /\ ~should_stop => queue_count = wake + (count - 1)
      /\ count >= 1
      /\ wake \in Nat /\ count \in Nat /\ queue_count \in Nat
  BY <1>0, <1>1 DEF FirstRun, Claimed, TypeOK, RingInv
<1>3. CASE DispatchOver
  <2>1. pc' = "iterate" /\ queue_count' = queue_count
    BY <1>3 DEF HandlerReturns, queueVars
  <2>2. ~should_stop => queue_count = wake
    BY <1>2, <1>3 DEF DispatchOver
  <2>3. Claimed' = 0
    BY <2>1 DEF Claimed
  <2> QED
    BY <1>1, <1>2, <2>1, <2>2, <2>3 DEF FirstRun
<1>4. CASE ~DispatchOver
  <2>1. ~should_stop /\ count > 1 /\ queue_count > 0
    BY <1>2, <1>4 DEF DispatchOver
  <2>2. pc' = "handler" /\ queue_count' = queue_count - 1
    BY <1>4, <2>1 DEF HandlerReturns, PopHead
  <2>3. Claimed' = count - 2
    BY <1>1, <1>2, <2>2 DEF Claimed
  <2> QED
    BY <1>1, <1>2, <2>1, <2>2, <2>3 DEF FirstRun
<1> QED
  BY <1>3, <1>4

LEMMA OtherFirstRun ==
  ASSUME FirstRunInv, Run \/ Stop \/ CallbackReturns \/ Iterate \/ Select
  PROVE  FirstRun'
<1>0. TypeOK /\ FirstRun
  BY DEF FirstRunInv, RingInv
<1> SUFFICES ASSUME runs' <= 1 PROVE FirstRun'
  BY DEF FirstRun
<1>1. /\ UNCHANGED <<queue_count, wake, count>>
      /\ runs \in Nat /\ wake \in Nat /\ should_stop \in BOOLEAN /\ runs <= runs'
  BY <1>0 DEF TypeOK, Run, Stop, CallbackReturns, Iterate, Select, SelectReady, SelectFails,
                  queueVars
<1>2. CASE Run
  <2>1. runs = 0 /\ pc = "stopped" /\ pc' = "start" /\ runs' = 1 /\ ~should_stop
    BY <1>0, <1>1, <1>2 DEF Run, FirstRun
  <2>2. queue_count = wake + Claimed /\ Claimed' = Claimed
    BY <1>0, <1>1, <2>1 DEF FirstRun, Claimed
  <2> QED
    BY <1>1, <2>1, <2>2 DEF FirstRun
<1>3. CASE Stop
  <2>1. pc' = pc /\ should_stop' /\ pc \in Callbacks /\ runs' = runs
    BY <1>3 DEF Stop
  <2> QED
    BY <1>0, <1>1, <2>1 DEF FirstRun, Callbacks
<1>4. CASE CallbackReturns \/ Iterate \/ Select
  <2>1. /\ pc \in {"start", "idle", "stop", "iterate", "select"}
        /\ pc' \in {"stopped", "iterate", "stop", "select", "can_read", "idle"}
        /\ pc' = "select" => ~should_stop
        /\ pc' = "can_read" => wake > 0 /\ pc = "select"
        /\ UNCHANGED <<should_stop, runs>>
    BY <1>4 DEF CallbackReturns, Iterate, Select, SelectReady, SelectFails
  <2>2. Claimed = 0 /\ Claimed' = 0
    BY <2>1 DEF Claimed
  <2> QED
    BY <1>0, <1>1, <2>1, <2>2 DEF FirstRun
<1> QED
  BY <1>2, <1>3, <1>4

LEMMA NextFirstRun == ASSUME FirstRunInv, [Next]_vars PROVE FirstRunInv'
<1>1. RingInv'
  BY NextRing DEF FirstRunInv
<1>2. ASSUME UNCHANGED vars PROVE FirstRun'
  BY <1>2 DEF FirstRunInv, FirstRun, Claimed, vars, queueVars
<1>3. FirstRun'
  BY <1>2, PostFirstRun, CanReadFirstRun, HandlerFirstRun, OtherFirstRun DEF Next, LoopStep
<1> QED
  BY <1>1, <1>3 DEF FirstRunInv

\* The wake eventfd counts the events no dispatch has claimed, so that the loop
\* sleeps exactly when there is nothing to dispatch, until the loop is stopped.
THEOREM WakeCountsEventsAlways == Spec => []WakeCountsEvents
<1>1. FirstRunInv => WakeCountsEvents
  BY DEF FirstRunInv, FirstRun, WakeCountsEvents
<1> QED
  BY <1>1, InitFirstRun, NextFirstRun, PTL DEF Spec

\* No assertion of the component fails when the loop is run once.  (Run again,
\* it may: the configuration MCLoopEvents_rerun shows how.)
THEOREM AssertionsHoldOnce == ASSUME MaxRuns <= 1 PROVE Spec => []AssertionsHold
<1>1. FirstRunInv => AssertionsHold
  BY DEF FirstRunInv, FirstRun, AssertionsHold, RingInv, TypeOK
<1> QED
  BY <1>1, InitFirstRun, NextFirstRun, PTL DEF Spec

-----------------------------------------------------------------------------
(* Refinement of Mailbox                                                    *)

LEMMA StepMail == ASSUME RingInv, [Next]_vars PROVE [Mail!Next]_(Mail!vars)
<1>0. /\ TypeOK /\ Ring /\ posted = bounce + queue_count
      /\ posted \in Nat /\ bounce \in Nat /\ queue_count \in Nat /\ queue_count <= queue_size
  BY DEF RingInv, TypeOK
<1>1. ASSUME NEW p \in Posters, Post(p) PROVE Mail!Accept(p) \/ Mail!Refuse(p)
  <2>1. CASE Full
    BY <1>0, <1>1, <2>1 DEF Post, Full, Mail!Refuse, queueVars
  <2>2. CASE ~Full
    <3>1. posted' = posted + 1 /\ ret' = [ret EXCEPT ![p] = "ESP_OK"] /\ bounce' = bounce
      BY <1>1, <2>2 DEF Post, PushTail
    <3>2. posted - bounce < queue_size
      BY <1>0, <2>2 DEF Full
    <3> QED
      BY <3>1, <3>2 DEF Mail!Accept
  <2> QED
    BY <2>1, <2>2
<1>2. CASE CanRead \/ HandlerReturns
  <2>1. UNCHANGED <<posted, ret>>
    BY <1>2 DEF CanRead, HandlerReturns
  <2>2. (PopHead /\ queue_count > 0) \/ UNCHANGED queueVars
    BY <1>2 DEF CanRead, HandlerReturns
  <2>3. CASE PopHead /\ queue_count > 0
    <3>1. bounce' = bounce + 1 /\ bounce < posted
      BY <1>0, <2>3, PopHeadRing
    <3> QED
      BY <2>1, <3>1 DEF Mail!Next, Mail!Deliver
  <2>4. CASE UNCHANGED queueVars
    BY <2>1, <2>4 DEF Mail!vars, queueVars
  <2> QED
    BY <2>2, <2>3, <2>4
<1>3. CASE Run \/ Stop \/ CallbackReturns \/ Iterate \/ Select \/ UNCHANGED vars
  BY <1>3 DEF Run, Stop, CallbackReturns, Iterate, Select, SelectReady, SelectFails, vars, queueVars, Mail!vars
<1> QED
  BY <1>1, <1>2, <1>3 DEF Next, LoopStep, Mail!Next

\* Events are handed to the handler one by one, each once, in the order they
\* were posted, and a post fails only when queue_size events are waiting:
\* for every size of the ring and however often the loop runs.
THEOREM ImplementsMailboxAlways == Spec => ImplementsMailbox
<1>1. Init => Mail!Init
  BY DEF Init, Mail!Init
<1> QED
  BY <1>1, StepMail, InitRing, NextRing, PTL DEF Spec, ImplementsMailbox, Mail!Spec
=============================================================================
