---------------------------- MODULE WsHandlerProofs ----------------------------
(***************************************************************************)
(* Proofs about Loop and WsHandler, for any watchers, any number of runs,    *)
(* frames and messages, and whatever the application does in its callbacks. *)
(***************************************************************************)
EXTENDS WsHandlerProperties, SequenceTheorems, TLAPS

-----------------------------------------------------------------------------
(* The types of the loop                                                    *)

\* The conjuncts of TypeOK about the loop: a watcher's callback, and the test for
\* one, is about the first watcher still to visit.
LoopTypes ==
  /\ watchers \in Seq(Watchers) /\ cursor \in Seq(Watchers)
  /\ should_stop \in BOOLEAN /\ lpc \in Stages /\ runs \in 0..MaxRuns
  /\ fds \subseteq Nat \X Directions /\ asked \subseteq Watchers \X Directions
  /\ lpc \in FdCallbacks \cup {"test_read", "crashed"} => cursor # <<>>

LEMMA InitLoopTypes == Init => LoopTypes
<1> SUFFICES ASSUME Init PROVE LoopTypes
  OBVIOUS
<1>1. Early \in Seq(Watchers)
  <2>1. Early \in Seq(Watchers \ {Ws})
    BY HandlerAssumption DEF HandlerAssumption
  <2> QED
    BY <2>1
<1>2. watchers = Early /\ cursor = <<>>
  BY DEF Init, InitLoop
<1>3. watchers \in Seq(Watchers) /\ cursor \in Seq(Watchers)
  BY <1>1, <1>2, EmptySeq
<1>4. MaxRuns \in Nat
  BY LoopAssumption DEF LoopAssumption
<1>5. should_stop = FALSE /\ lpc = "out" /\ runs = 0 /\ fds = {} /\ asked = {}
  BY DEF Init, InitLoop
<1>6. runs \in 0..MaxRuns /\ lpc \in Stages /\ lpc \notin FdCallbacks \cup {"test_read", "crashed"}
  BY <1>4, <1>5 DEF Stages, FdCallbacks
<1> QED
  BY <1>3, <1>5, <1>6 DEF LoopTypes

\* What is watched for a watcher, and the walk over the rest.
LEMMA WatchTypes ==
  ASSUME LoopTypes, cursor # <<>>, NEW dirs \in SUBSET Directions, Watch(dirs)
  PROVE  /\ Current \in Watchers /\ cursor' \in Seq(Watchers)
         /\ fds' \subseteq Nat \X Directions /\ asked' \subseteq Watchers \X Directions
<1>1. Head(cursor) \in Watchers /\ Tail(cursor) \in Seq(Watchers)
  BY HeadTailProperties DEF LoopTypes
<1>2. /\ {<<Current, d>> : d \in dirs} \subseteq Watchers \X Directions
      /\ {<<FdOf[Current], d>> : d \in dirs} \subseteq Nat \X Directions
  BY <1>1, LoopAssumption DEF Current, LoopAssumption
<1> QED
  BY <1>1, <1>2 DEF Watch, Current, LoopTypes

LEMMA CurrentWatcher ==
  ASSUME LoopTypes, cursor # <<>>
  PROVE  Current \in Watchers /\ Tail(cursor) \in Seq(Watchers)
BY HeadTailProperties DEF LoopTypes, Current

\* Adding a watcher and removing one keep the list a list of watchers.
LEMMA WatcherListTypes ==
  ASSUME watchers \in Seq(Watchers), NEW w \in Watchers, AddWatcher(w) \/ RemoveWatcher(w)
  PROVE  watchers' \in Seq(Watchers)
<1>1. CASE AddWatcher(w)
  <2>1. <<w>> \in Seq(Watchers)
    OBVIOUS
  <2> QED
    BY <1>1, <2>1, ConcatProperties DEF AddWatcher
<1>2. CASE RemoveWatcher(w)
  <2>1. PICK i \in DOMAIN watchers : watchers' = RemoveAt(watchers, i)
    BY <1>2 DEF RemoveWatcher
  <2>2. /\ Len(watchers) \in Nat /\ DOMAIN watchers = 1..Len(watchers) /\ i \in 1..Len(watchers)
        /\ \A j \in 1..Len(watchers) : watchers[j] \in Watchers
    BY LenProperties, ElementOfSeq
  <2>3. SubSeq(watchers, 1, i - 1) \in Seq(Watchers)
    <3>1. \A j \in 1..(i - 1) : watchers[j] \in Watchers
      BY <2>2
    <3> QED
      BY <2>2, <3>1, SubSeqProperties
  <2>4. SubSeq(watchers, i + 1, Len(watchers)) \in Seq(Watchers)
    <3>1. \A j \in (i + 1)..Len(watchers) : watchers[j] \in Watchers
      BY <2>2
    <3> QED
      BY <2>2, <3>1, SubSeqProperties
  <2> QED
    BY <2>1, <2>3, <2>4, ConcatProperties DEF RemoveAt
<1> QED
  BY <1>1, <1>2

LEMMA LoopStepTypes == LoopTypes /\ LoopStep => LoopTypes'
<1> SUFFICES ASSUME LoopTypes, LoopStep PROVE LoopTypes'
  OBVIOUS
<1> USE DEF Stages, Callbacks, FdCallbacks
<1>1. CASE Iterate
  BY <1>1 DEF Iterate, Unless_should_stop, FdsZero, LoopTypes
<1>2. CASE Notify
  <2>1. CASE UNCHANGED <<cursor, fds, asked>>
    BY <1>2, <2>1 DEF Notify, LoopTypes
  <2>2. CASE cursor # <<>> /\ Watch(WatchFor[Current]) /\ UNCHANGED lpc
    <3>1. WatchFor[Current] \in SUBSET Directions
      BY <2>2, CurrentWatcher, LoopAssumption DEF LoopAssumption
    <3>2. /\ cursor' \in Seq(Watchers)
          /\ fds' \subseteq Nat \X Directions /\ asked' \subseteq Watchers \X Directions
      BY <2>2, <3>1, WatchTypes
    <3> QED
      BY <1>2, <2>2, <3>2 DEF Notify, LoopTypes
  <2> QED
    BY <1>2, <2>1, <2>2 DEF Notify
<1>3. CASE Select
  BY <1>3 DEF Select, LoopTypes
<1>4. CASE Dispatch
  <2>1. cursor' = cursor \/ (cursor # <<>> /\ cursor' = Tail(cursor) /\ lpc' = "test_write")
    BY <1>4 DEF Dispatch, LoopTypes
  <2>2. cursor' \in Seq(Watchers)
    BY <2>1, CurrentWatcher DEF LoopTypes
  <2>3. lpc' \in {"iterate", "can_write", "test_read", "can_read", "test_write", "crashed"}
    BY <1>4 DEF Dispatch, Called
  <2>4. lpc' \in {"can_write", "test_read", "can_read", "crashed"} => cursor' # <<>>
    BY <1>4 DEF Dispatch, LoopTypes
  <2> QED
    BY <1>4, <2>2, <2>3, <2>4 DEF Dispatch, LoopTypes
<1> QED
  BY <1>1, <1>2, <1>3, <1>4 DEF LoopStep

LEMMA FdCallbackTypes ==
  ASSUME LoopTypes,
         FdCallbackReturns \/ \E dirs \in SUBSET Directions : WillSelectReturns(dirs)
  PROVE  LoopTypes'
<1> USE DEF Stages, Callbacks, FdCallbacks
<1>1. CASE FdCallbackReturns
  <2>1. cursor # <<>> /\ (cursor' = cursor \/ (cursor' = Tail(cursor) /\ lpc' # "test_read"))
    BY <1>1 DEF FdCallbackReturns, Unless_should_stop, LoopTypes
  <2>2. cursor' \in Seq(Watchers)
    BY <2>1, CurrentWatcher DEF LoopTypes
  <2>3. lpc' \in {"stop", "test_read", "test_write"}
    BY <1>1 DEF FdCallbackReturns, Unless_should_stop
  <2> QED
    BY <1>1, <2>1, <2>2, <2>3 DEF FdCallbackReturns, LoopTypes
<1>2. ASSUME NEW dirs \in SUBSET Directions, WillSelectReturns(dirs)
      PROVE  LoopTypes'
  <2>1. cursor # <<>> /\ Watch(dirs)
    BY <1>2 DEF WillSelectReturns, LoopTypes
  <2>2. /\ cursor' \in Seq(Watchers)
        /\ fds' \subseteq Nat \X Directions /\ asked' \subseteq Watchers \X Directions
    BY <2>1, WatchTypes
  <2> QED
    BY <1>2, <2>2 DEF WillSelectReturns, Unless_should_stop, LoopTypes
<1> QED
  BY <1>1, <1>2

LEMMA NextLoopTypes == LoopTypes /\ [Next]_vars => LoopTypes'
<1> SUFFICES ASSUME LoopTypes, [Next]_vars PROVE LoopTypes'
  OBVIOUS
<1>1. CASE UNCHANGED loopVars
  BY <1>1 DEF LoopTypes, loopVars
<1>2. ASSUME NEW w \in Watchers, AddWatcher(w) \/ RemoveWatcher(w) PROVE LoopTypes'
  <2>1. watchers' \in Seq(Watchers)
    BY <1>2, WatcherListTypes DEF LoopTypes
  <2> QED
    BY <1>2, <2>1 DEF AddWatcher, RemoveWatcher, LoopTypes
<1>3. CASE LoopStep
  BY <1>3, LoopStepTypes
<1>4. CASE FdCallbackReturns \/ \E dirs \in SUBSET Directions : WillSelectReturns(dirs)
  BY <1>4, FdCallbackTypes
<1>5. Ws \in Watchers
  BY HandlerAssumption, LoopAssumption DEF HandlerAssumption, LoopAssumption
<1>6. CASE SendMessage \/ CloseHandler \/ Ping \/ DoRead \/ DoWrite \/ WriteLoop \/ Check
           \/ EventReturns \/ UNCHANGED vars
  BY <1>1, <1>6 DEF SendMessage, CloseHandler, Ping, DoRead, DoWrite, WriteLoop, Check,
                    EventReturns, vars
<1>7. CASE InitHandler \/ Cleanup
  BY <1>2, <1>5, <1>7 DEF InitHandler, Cleanup
<1>8. CASE Application
  <2>1. CASE Run
    <3>1. runs' \in 0..MaxRuns
      BY <2>1, LoopAssumption DEF Run, LoopTypes, LoopAssumption
    <3>2. lpc' \in Stages /\ lpc' \notin FdCallbacks \cup {"test_read", "crashed"}
      BY <2>1 DEF Run, Stages, Callbacks, FdCallbacks
    <3> QED
      BY <2>1, <3>1, <3>2 DEF Run, LoopTypes
  <2>2. CASE StopLoop
    BY <2>2 DEF StopLoop, LoopTypes
  <2> QED
    BY <1>2, <1>8, <2>1, <2>2 DEF Application
<1>9. CASE LoopSteps
  BY <1>3, <1>9 DEF LoopSteps
<1>10. CASE WillSelect
  BY <1>1, <1>4, <1>10 DEF WillSelect, Directions
<1>11. CASE HandlerReturns
  BY <1>4, <1>11 DEF HandlerReturns
<1>12. CASE ApplicationReturns
  <2>1. CASE LoopCallbackReturns
    BY <2>1, EmptySeq DEF LoopCallbackReturns, LoopTypes, Stages, Callbacks, FdCallbacks
  <2>2. ASSUME NEW dirs \in SUBSET WatchFor[Current], WillSelectReturns(dirs)
        PROVE  LoopTypes'
    <3>1. Current \in Watchers
      BY <2>2, CurrentWatcher DEF WillSelectReturns, LoopTypes, FdCallbacks
    <3>2. dirs \in SUBSET Directions
      BY <3>1, LoopAssumption DEF LoopAssumption
    <3> QED
      BY <1>4, <2>2, <3>2
  <2> QED
    BY <1>4, <1>12, <2>1, <2>2 DEF ApplicationReturns
<1> QED
  BY <1>6, <1>7, <1>8, <1>9, <1>10, <1>11, <1>12 DEF Next, HandlerStep, Returns

-----------------------------------------------------------------------------
(* The loop                                                                 *)

\* The steps of the loop and of those who use it, whatever else they do.
LoopMoves ==
  \/ Run \/ LoopCallbackReturns \/ LoopStep \/ FdCallbackReturns \/ StopLoop
  \/ \E dirs \in SUBSET WatchFor[Current] : WillSelectReturns(dirs)
  \/ \E w : AddWatcher(w) \/ RemoveWatcher(w)

LEMMA NextMovesLoop == [Next]_vars => LoopMoves \/ UNCHANGED loopVars
<1> SUFFICES ASSUME [Next]_vars PROVE LoopMoves \/ UNCHANGED loopVars
  OBVIOUS
<1>1. CASE SendMessage \/ CloseHandler \/ Ping
  BY <1>1 DEF SendMessage, CloseHandler, Ping
<1>2. CASE InitHandler \/ Cleanup
  BY <1>2 DEF InitHandler, Cleanup, LoopMoves
<1>3. CASE Application
  BY <1>3 DEF Application, LoopMoves
<1>4. CASE LoopSteps
  BY <1>4 DEF LoopSteps, LoopMoves
<1>5. CASE DoRead \/ DoWrite \/ WriteLoop \/ Check \/ EventReturns
  BY <1>5 DEF DoRead, DoWrite, WriteLoop, Check, EventReturns
<1>6. CASE WillSelect
  <2>1. CASE UNCHANGED loopVars
    BY <2>1
  <2>2. CASE WillSelectReturns({}) \/ WillSelectReturns({"read"}) \/ WillSelectReturns(Directions)
    <3>1. WatchFor[Current] = Directions
      BY <1>6, HandlerAssumption DEF WillSelect, InHandler, HandlerAssumption
    <3>2. {} \in SUBSET WatchFor[Current] /\ {"read"} \in SUBSET WatchFor[Current]
          /\ Directions \in SUBSET WatchFor[Current]
      BY <3>1 DEF Directions
    <3> QED
      BY <2>2, <3>2 DEF LoopMoves
  <2> QED
    BY <1>6, <2>1, <2>2 DEF WillSelect
<1>7. CASE HandlerReturns
  BY <1>7 DEF HandlerReturns, LoopMoves
<1>8. CASE ApplicationReturns
  BY <1>8 DEF ApplicationReturns, LoopMoves
<1>9. CASE UNCHANGED vars
  BY <1>9 DEF vars
<1> QED
  BY <1>1, <1>2, <1>3, <1>4, <1>5, <1>6, <1>7, <1>8, <1>9 DEF Next, HandlerStep, Returns

\* Told to stop, the loop is in a callback or about to look at should_stop; what
\* is watched on a descriptor one of its watchers asked for, and each asks only
\* for what it has a handler for.
StopSeen == should_stop => lpc \in Callbacks \cup {"out", "iterate"}
FdsAsked == \A f, d : <<f, d>> \in fds => \E w \in Watchers : FdOf[w] = f /\ <<w, d>> \in asked
AskedHandled == \A w, d : <<w, d>> \in asked => d \in WatchFor[w]
AskedFor == FdsAsked /\ AskedHandled /\ CallbackWanted
LoopInv == StopSeen /\ AskedFor

LEMMA InitLoopInv == Init => LoopInv
BY DEF Init, InitLoop, LoopInv, StopSeen, AskedFor, FdsAsked, AskedHandled, CallbackWanted

\* Asking for what a watcher has handlers for.
LEMMA WatchAsked ==
  ASSUME LoopTypes, FdsAsked, AskedHandled, cursor # <<>>, NEW dirs \in SUBSET WatchFor[Current],
         Watch(dirs)
  PROVE  FdsAsked' /\ AskedHandled'
<1>1. Current \in Watchers
  BY CurrentWatcher
<1>2. /\ fds' = fds \cup {<<FdOf[Current], d>> : d \in dirs}
      /\ asked' = asked \cup {<<Current, d>> : d \in dirs}
  BY DEF Watch
<1>3. ASSUME NEW f, NEW d, <<f, d>> \in fds'
      PROVE  \E w \in Watchers : FdOf[w] = f /\ <<w, d>> \in asked'
  <2>1. CASE <<f, d>> \in fds
    BY <1>2, <2>1 DEF FdsAsked
  <2>2. CASE <<f, d>> \notin fds
    <3>1. f = FdOf[Current] /\ d \in dirs
      BY <1>2, <1>3, <2>2
    <3> QED
      BY <1>1, <1>2, <3>1
  <2> QED
    BY <2>1, <2>2
<1>4. ASSUME NEW w, NEW d, <<w, d>> \in asked' PROVE d \in WatchFor[w]
  BY <1>2, <1>4 DEF AskedHandled
<1> QED
  BY <1>3, <1>4 DEF FdsAsked, AskedHandled

\* A handler is called for a bit that is set, or stops the program if there is none.
LEMMA DispatchWanted == ASSUME LoopTypes, AskedFor, Dispatch PROVE CallbackWanted'
<1>0. UNCHANGED <<fds, asked>> /\ FdsAsked /\ AskedHandled
  BY DEF Dispatch, AskedFor
<1>1. ASSUME NEW d, IsSet(d) PROVE AskedOnFd(d)
  BY <1>0, <1>1 DEF IsSet, FdsAsked, AskedOnFd
<1>2. ASSUME NEW d, AskedOnFd(d), cursor' = cursor PROVE AskedOnFd(d)'
  BY <1>0, <1>2 DEF AskedOnFd, Current
<1>3. ASSUME NEW d, AskedOnFd(d), d \notin WatchFor[Current], cursor' = cursor
      PROVE  ~AloneOnFd(Current)'
  <2>1. PICK w \in Watchers : FdOf[w] = FdOf[Current] /\ <<w, d>> \in asked
    BY <1>3 DEF AskedOnFd
  <2>2. w # Current
    BY <1>0, <1>3, <2>1 DEF AskedHandled
  <2> QED
    BY <1>3, <2>1, <2>2 DEF AloneOnFd, Current
<1>4. CASE lpc' \in {"iterate", "test_read", "test_write"}
  BY <1>4 DEF CallbackWanted
<1>5. CASE IsSet("write") /\ lpc' = Called("write", "can_write") /\ cursor' = cursor
  <2>1. CASE "write" \in WatchFor[Current]
    BY <1>1, <1>2, <1>5, <2>1 DEF Called, CallbackWanted
  <2>2. CASE "write" \notin WatchFor[Current]
    BY <1>1, <1>3, <1>5, <2>2 DEF Called, CallbackWanted
  <2> QED
    BY <2>1, <2>2
<1>6. CASE IsSet("read") /\ lpc' = Called("read", "can_read") /\ cursor' = cursor
  <2>1. CASE "read" \in WatchFor[Current]
    BY <1>1, <1>2, <1>6, <2>1 DEF Called, CallbackWanted
  <2>2. CASE "read" \notin WatchFor[Current]
    BY <1>1, <1>3, <1>6, <2>2 DEF Called, CallbackWanted
  <2> QED
    BY <2>1, <2>2
<1> QED
  BY <1>4, <1>5, <1>6 DEF Dispatch

LEMMA MovesLoopInv == LoopTypes /\ LoopInv /\ (LoopMoves \/ UNCHANGED loopVars) => LoopInv'
<1> SUFFICES ASSUME LoopTypes, LoopInv, LoopMoves \/ UNCHANGED loopVars PROVE LoopInv'
  OBVIOUS
<1> USE DEF LoopInv
<1>0. ASSUME UNCHANGED <<should_stop, lpc>> PROVE StopSeen'
  BY <1>0 DEF StopSeen
<1>1. ASSUME UNCHANGED <<lpc, cursor, fds, asked>> PROVE AskedFor'
  BY <1>1 DEF AskedFor, FdsAsked, AskedHandled, CallbackWanted, AskedOnFd, AloneOnFd, Current
<1>2. ASSUME UNCHANGED <<fds, asked>> \/ (fds' = {} /\ asked' \in {{}, asked}),
             lpc' \notin {"can_write", "can_read", "crashed"}
      PROVE  AskedFor'
  <2>1. FdsAsked' /\ AskedHandled'
    BY <1>2 DEF AskedFor, FdsAsked, AskedHandled
  <2> QED
    BY <1>2, <2>1 DEF AskedFor, CallbackWanted
<1>3. CASE Run
  <2>1. StopSeen'
    BY <1>3 DEF Run, StopSeen
  <2> QED
    BY <1>2, <1>3, <2>1 DEF Run
<1>4. CASE LoopCallbackReturns
  <2>1. StopSeen'
    BY <1>4 DEF LoopCallbackReturns, StopSeen
  <2> QED
    BY <1>2, <1>4, <2>1 DEF LoopCallbackReturns
<1>5. CASE Iterate
  <2>1. StopSeen'
    BY <1>5 DEF Iterate, Unless_should_stop, StopSeen, Callbacks
  <2> QED
    BY <1>2, <1>5, <2>1 DEF Iterate, Unless_should_stop, FdsZero
<1>6. CASE Notify
  <2>1. StopSeen'
    BY <1>6 DEF Notify, StopSeen, Callbacks, FdCallbacks
  <2>2. lpc' \notin {"can_write", "can_read", "crashed"}
    BY <1>6 DEF Notify
  <2>3. CASE UNCHANGED <<fds, asked>>
    BY <1>2, <2>1, <2>2, <2>3
  <2>4. CASE cursor # <<>> /\ Watch(WatchFor[Current])
    <3>1. WatchFor[Current] \in SUBSET WatchFor[Current] /\ FdsAsked /\ AskedHandled
      BY DEF AskedFor
    <3>2. FdsAsked' /\ AskedHandled'
      BY <2>4, <3>1, WatchAsked
    <3> QED
      BY <2>1, <2>2, <3>2 DEF AskedFor, CallbackWanted
  <2> QED
    BY <1>6, <2>3, <2>4 DEF Notify
<1>7. CASE \E dirs \in SUBSET WatchFor[Current] : WillSelectReturns(dirs)
  <2>1. PICK dirs \in SUBSET WatchFor[Current] : WillSelectReturns(dirs)
    BY <1>7
  <2>2. cursor # <<>> /\ Watch(dirs) /\ lpc' \in {"stop", "notify"}
    BY <2>1 DEF WillSelectReturns, Unless_should_stop, LoopTypes, FdCallbacks
  <2>3. StopSeen'
    BY <2>1 DEF WillSelectReturns, Unless_should_stop, StopSeen, Callbacks
  <2>4. FdsAsked' /\ AskedHandled'
    BY <2>2, WatchAsked DEF AskedFor
  <2> QED
    BY <2>2, <2>3, <2>4 DEF AskedFor, CallbackWanted
<1>8. CASE Select
  <2>1. StopSeen'
    BY <1>8 DEF Select, StopSeen, Callbacks, FdCallbacks
  <2>2. lpc' \in {"test_write", "idle"} /\ fds' \subseteq fds /\ (asked' = asked \/ (fds' = {} /\ asked' = {}))
    BY <1>8 DEF Select
  <2>3. FdsAsked' /\ AskedHandled'
    BY <2>2 DEF AskedFor, FdsAsked, AskedHandled
  <2> QED
    BY <2>1, <2>2, <2>3 DEF AskedFor, CallbackWanted
<1>9. CASE Dispatch
  <2>1. StopSeen'
    BY <1>9 DEF Dispatch, StopSeen, Callbacks, FdCallbacks
  <2>2. FdsAsked' /\ AskedHandled'
    BY <1>9 DEF Dispatch, AskedFor, FdsAsked, AskedHandled
  <2> QED
    BY <1>9, <2>1, <2>2, DispatchWanted DEF AskedFor
<1>10. CASE FdCallbackReturns
  <2>1. StopSeen'
    BY <1>10 DEF FdCallbackReturns, Unless_should_stop, StopSeen, Callbacks
  <2>2. UNCHANGED <<fds, asked>> /\ lpc' \notin {"can_write", "can_read", "crashed"}
    BY <1>10 DEF FdCallbackReturns, Unless_should_stop
  <2> QED
    BY <1>2, <2>1, <2>2
<1>11. CASE StopLoop
  BY <1>1, <1>11 DEF StopLoop, StopSeen
<1>12. ASSUME NEW w, AddWatcher(w) \/ RemoveWatcher(w) PROVE LoopInv'
  BY <1>0, <1>1, <1>12 DEF AddWatcher, RemoveWatcher
<1>13. CASE UNCHANGED loopVars
  BY <1>0, <1>1, <1>13 DEF loopVars
<1> QED
  BY <1>3, <1>4, <1>5, <1>6, <1>7, <1>8, <1>9, <1>10, <1>11, <1>12, <1>13 DEF LoopMoves, LoopStep

\* A callback runs only in an iteration in which a watcher on its descriptor, the
\* watcher itself if it is alone there, asked for it, and a handler that does not
\* exist is only called for a descriptor that is shared.
THEOREM CallbackWantedAlways == Spec => []CallbackWanted
<1>1. LoopInv => CallbackWanted
  BY DEF LoopInv, AskedFor
<1> QED
  BY <1>1, InitLoopTypes, NextLoopTypes, InitLoopInv, NextMovesLoop, MovesLoopInv, PTL DEF Spec

\* What a watcher alone on its descriptor is called for it asked for itself.
LEMMA AloneAsks ==
  ASSUME NEW w, AloneOnFd(w), NEW d, NEW v \in Watchers, FdOf[v] = FdOf[w], <<v, d>> \in asked
  PROVE  <<w, d>> \in asked
BY DEF AloneOnFd

\* A loop that was told to stop begins no callback but on_loop_stop().
THEOREM StopsPromptlyAlways == Spec => StopsPromptly
<1> DEFINE Prompt == should_stop /\ should_stop' /\ lpc' # lpc => lpc' \notin Callbacks \ {"stop"}
<1>1. LoopInv /\ [Next]_vars => [Prompt]_vars
  <2> SUFFICES ASSUME LoopInv, [Next]_vars, should_stop, should_stop', lpc' # lpc
               PROVE  lpc' \notin Callbacks \ {"stop"}
    OBVIOUS
  <2>1. lpc \in Callbacks \cup {"out", "iterate"}
    BY DEF LoopInv, StopSeen
  <2>2. LoopMoves
    BY NextMovesLoop DEF loopVars
  <2>3. CASE Run \/ StopLoop \/ \E w : AddWatcher(w) \/ RemoveWatcher(w)
    BY <2>3 DEF Run, StopLoop, AddWatcher, RemoveWatcher
  <2>4. CASE LoopCallbackReturns
    BY <2>4 DEF LoopCallbackReturns, Callbacks, FdCallbacks
  <2>5. CASE LoopStep
    BY <2>1, <2>5 DEF LoopStep, Iterate, Notify, Select, Dispatch, Called, Unless_should_stop,
                      Callbacks, FdCallbacks
  <2>6. CASE FdCallbackReturns \/ \E dirs \in SUBSET WatchFor[Current] : WillSelectReturns(dirs)
    BY <2>6 DEF FdCallbackReturns, WillSelectReturns, Unless_should_stop
  <2> QED
    BY <2>2, <2>3, <2>4, <2>5, <2>6 DEF LoopMoves
<1> QED
  BY <1>1, InitLoopTypes, NextLoopTypes, InitLoopInv, NextMovesLoop, MovesLoopInv, PTL
     DEF Spec, StopsPromptly

-----------------------------------------------------------------------------
(* Where the handler is, and its types                                      *)

\* The handler's callback is in its middle only while the loop is in a callback of
\* its watcher.
Where ==
  /\ hpc \in HandlerPcs
  /\ hpc # "top" => lpc \in FdCallbacks /\ Current = Ws

LEMMA InitWhere == Init => Where
BY DEF Init, Where, HandlerPcs

LEMMA NextWhere == Where /\ [Next]_vars => Where'
<1> SUFFICES ASSUME Where, [Next]_vars PROVE Where'
  OBVIOUS
<1>1. ASSUME hpc' = "top" PROVE Where'
  BY <1>1 DEF Where, HandlerPcs
<1>2. ASSUME hpc' \in HandlerPcs, UNCHANGED <<lpc, cursor>>, lpc \in FdCallbacks, Current = Ws
      PROVE  Where'
  BY <1>2 DEF Where, Current
<1>3. ASSUME UNCHANGED <<hpc, lpc, cursor>> PROVE Where'
  BY <1>3 DEF Where, Current
<1>4. Resume \in HandlerPcs /\ "top" \in HandlerPcs /\ Events \subseteq HandlerPcs
      /\ "check" \in HandlerPcs /\ "done" \in HandlerPcs
  BY DEF Resume, HandlerPcs
<1>5. CASE SendMessage \/ CloseHandler \/ Ping
  BY <1>3, <1>5 DEF SendMessage, CloseHandler, Ping, loopVars
<1>6. CASE InitHandler \/ Cleanup
  BY <1>3, <1>6 DEF InitHandler, Cleanup, AddWatcher, RemoveWatcher
<1>7. CASE Application
  <2>1. hpc' = hpc
    BY <1>7 DEF Application, handlerVars
  <2>2. CASE Run
    <3>1. hpc = "top"
      BY <2>2 DEF Run, is_running, Where, FdCallbacks
    <3> QED
      BY <1>1, <2>1, <3>1
  <2>3. CASE ~Run
    BY <1>3, <1>7, <2>1, <2>3 DEF Application, StopLoop, AddWatcher, RemoveWatcher
  <2> QED
    BY <2>2, <2>3
<1>8. CASE LoopSteps
  <2>1. hpc' = hpc /\ lpc \notin FdCallbacks
    BY <1>8 DEF LoopSteps, LoopStep, Iterate, Notify, Select, Dispatch, FdCallbacks
  <2> QED
    BY <1>1, <2>1 DEF Where
<1>9. CASE DoRead
  <2>1. /\ UNCHANGED <<lpc, cursor>> /\ lpc \in FdCallbacks /\ Current = Ws
    BY <1>9 DEF DoRead, InHandler, FdCallbacks, loopVars
  <2>2. hpc' \in HandlerPcs
    BY <1>4, <1>9 DEF DoRead, ReadFails, ReadFrame, MaybeSendCloseEvent, Events
  <2> QED
    BY <1>2, <2>1, <2>2
<1>10. CASE WillSelect
  <2>1. hpc = "top" /\ lpc \in FdCallbacks /\ Current = Ws
    BY <1>10 DEF WillSelect, InHandler, FdCallbacks
  <2>2. CASE hpc' = hpc
    BY <1>1, <2>1, <2>2
  <2>3. CASE hpc' # hpc
    <3>1. MaybeSendCloseEvent /\ UNCHANGED <<lpc, cursor>>
      BY <1>10, <2>3 DEF WillSelect, loopVars
    <3> QED
      BY <1>2, <1>4, <2>1, <3>1 DEF MaybeSendCloseEvent, Events
  <2> QED
    BY <2>2, <2>3
<1>11. CASE DoWrite
  BY <1>2, <1>4, <1>11 DEF DoWrite, InHandler, FdCallbacks, Events, loopVars
<1>12. CASE WriteLoop
  BY <1>2, <1>4, <1>12 DEF WriteLoop, InHandler, FdCallbacks, loopVars
<1>13. CASE Check
  <2>1. UNCHANGED <<lpc, cursor>> /\ lpc \in FdCallbacks /\ Current = Ws
    BY <1>13 DEF Check, Where, loopVars
  <2>2. hpc' \in HandlerPcs
    BY <1>4, <1>13 DEF Check, MaybeSendCloseEvent, Events
  <2> QED
    BY <1>2, <2>1, <2>2
<1>14. CASE HandlerReturns
  BY <1>1, <1>14 DEF HandlerReturns
<1>15. CASE EventReturns
  <2>1. UNCHANGED <<lpc, cursor>> /\ lpc \in FdCallbacks /\ Current = Ws
    BY <1>15 DEF EventReturns, Where, loopVars, Events
  <2> QED
    BY <1>2, <1>4, <1>15, <2>1 DEF EventReturns
<1>16. CASE ApplicationReturns
  <2>1. hpc' = hpc /\ (lpc \notin FdCallbacks \/ Current # Ws)
    BY <1>16 DEF ApplicationReturns, LoopCallbackReturns, FdCallbacks, handlerVars
  <2> QED
    BY <1>1, <2>1 DEF Where
<1>17. CASE UNCHANGED vars
  BY <1>3, <1>17 DEF vars, loopVars, handlerVars
<1> QED
  BY <1>5, <1>6, <1>7, <1>8, <1>9, <1>10, <1>11, <1>12, <1>13, <1>14, <1>15, <1>16, <1>17
  DEF Next, HandlerStep, Returns

\* The closed event comes once in the life of a handler, for a connection that is
\* over or in a loop that has been told to stop.
THEOREM ClosedOnceAlways == Spec => ClosedOnce
<1> DEFINE Once == hpc # "closed" /\ hpc' = "closed" => ~close_event_sent /\ (Over' \/ should_stop)
<1>1. Where /\ [Next]_vars => [Once]_vars
  <2> SUFFICES ASSUME Where, [Next]_vars, hpc # "closed", hpc' = "closed"
               PROVE  ~close_event_sent /\ (Over' \/ should_stop)
    OBVIOUS
  <2>1. Resume # "closed"
    BY DEF Resume
  <2>2. CASE DoRead
    <3>1. ReadFails
      BY <2>2 DEF DoRead, ReadFrame
    <3>2. client_state' # "OK"
      BY <3>1 DEF ReadFails
    <3> QED
      BY <2>1, <3>1, <3>2 DEF ReadFails, MaybeSendCloseEvent, Over
  <2>3. CASE WillSelect \/ Check
    <3>1. Should_stop /\ ~close_event_sent /\ UNCHANGED <<client_state, close_sent>>
      BY <2>1, <2>3 DEF WillSelect, Check, MaybeSendCloseEvent, clientVars
    <3>2. is_running
      BY <2>3 DEF WillSelect, Check, InHandler, Where, is_running, FdCallbacks
    <3> QED
      BY <3>1, <3>2 DEF Should_stop, Over
  <2>4. CASE DoWrite \/ WriteLoop \/ HandlerReturns \/ EventReturns
    BY <2>1, <2>4 DEF DoWrite, WriteLoop, HandlerReturns, EventReturns
  <2>5. CASE SendMessage \/ CloseHandler \/ Ping \/ InitHandler \/ Cleanup \/ Application
             \/ LoopSteps \/ ApplicationReturns \/ UNCHANGED vars
    BY <2>5 DEF SendMessage, CloseHandler, Ping, InitHandler, Cleanup, Application,
                LoopSteps, ApplicationReturns, handlerVars, vars
  <2> QED
    BY <2>2, <2>3, <2>4, <2>5 DEF Next, HandlerStep, Returns
<1> QED
  BY <1>1, InitWhere, NextWhere, PTL DEF Spec, ClosedOnce

-----------------------------------------------------------------------------
(* Over is over                                                             *)

\* In an iteration that began when the connection was over it still is, nothing
\* was asked for on its descriptor, and the handler is at most telling.
Quiet ==
  AloneOnFd(Ws) /\ ending /\ lpc # "iterate" =>
    /\ Over
    /\ hpc \notin {"frame", "sent", "check"}
    /\ \A d \in Directions : <<Ws, d>> \notin asked

LEMMA InitQuiet == Init => Quiet
BY DEF Init, Quiet

\* Nothing opens the connection again.
LEMMA StaysOver == Over /\ [Next]_vars => Over'
<1> SUFFICES ASSUME Over, [Next]_vars PROVE Over'
  OBVIOUS
<1> USE DEF Over
<1>1. CASE UNCHANGED <<client_state, close_sent>>
  BY <1>1
<1>2. CASE CloseHandler \/ Ping
  BY <1>2 DEF CloseHandler, Ping, Write, WritePing, WriteFails, closeVars
<1>3. CASE DoRead
  BY <1>3 DEF DoRead, ReadFails, ReadFrame
<1>4. CASE DoWrite \/ WriteLoop
  BY <1>4 DEF DoWrite, Should_stop, WriteLoop, closeVars
<1>5. CASE SendMessage \/ InitHandler \/ Cleanup \/ Application \/ LoopSteps \/ WillSelect
           \/ Check \/ HandlerReturns \/ Returns \/ UNCHANGED vars
  BY <1>1, <1>5 DEF SendMessage, InitHandler, Cleanup, Application, LoopSteps, WillSelect, Check,
                    HandlerReturns, Returns, EventReturns, ApplicationReturns, handlerVars, vars,
                    clientVars, closeVars
<1> QED
  BY <1>2, <1>3, <1>4, <1>5 DEF Next, HandlerStep

LEMMA NextQuiet == Where /\ LoopInv /\ Quiet /\ [Next]_vars => Quiet'
<1> SUFFICES ASSUME Where, LoopInv, Quiet, [Next]_vars, AloneOnFd(Ws) PROVE Quiet'
  BY DEF Quiet, AloneOnFd
<1>0. Over => Over'
  BY StaysOver
<1> DEFINE NotAsked == \A d \in Directions : <<Ws, d>> \notin asked
           Telling == hpc \notin {"frame", "sent", "check"}
<1> HIDE DEF NotAsked, Telling
<1>1. (ending /\ lpc # "iterate" => Over /\ Telling /\ NotAsked)'  => Quiet'
  BY DEF Quiet, Telling, NotAsked
<1>2. ending /\ lpc # "iterate" => Over /\ Telling /\ NotAsked
  BY DEF Quiet, Telling, NotAsked
<1>3. ASSUME asked' = asked, lpc' # "iterate" => lpc # "iterate", ending' = ending, Telling => Telling'
      PROVE  Quiet'
  <2>1. NotAsked => NotAsked'
    BY <1>3 DEF NotAsked
  <2> QED
    BY <1>0, <1>1, <1>2, <1>3, <2>1
<1>4. ASSUME asked' = asked, lpc' # "iterate" => lpc # "iterate", ending' = ending, ~ending \/ hpc' = "top"
      PROVE  Quiet'
  BY <1>1, <1>3, <1>4 DEF Telling
<1>15. ASSUME NotAsked => NotAsked', lpc # "iterate", ending' = ending, hpc' = hpc
       PROVE  Quiet'
  BY <1>0, <1>1, <1>2, <1>15 DEF Telling
<1>18. ASSUME NEW w, w # Ws, NEW dirs, asked' = asked \cup {<<w, d>> : d \in dirs}
       PROVE  NotAsked => NotAsked'
  BY <1>18 DEF NotAsked
<1>19. ASSUME asked' = {} PROVE NotAsked'
  BY <1>19 DEF NotAsked
<1>5. CASE SendMessage \/ CloseHandler \/ Ping
  <2>1. UNCHANGED <<asked, lpc, ending, hpc>>
    BY <1>5 DEF SendMessage, CloseHandler, Ping, loopVars
  <2> QED
    BY <1>3, <2>1 DEF Telling
<1>6. CASE InitHandler \/ Cleanup
  <2>1. UNCHANGED <<asked, lpc, ending, hpc>>
    BY <1>6 DEF InitHandler, Cleanup, AddWatcher, RemoveWatcher
  <2> QED
    BY <1>3, <2>1 DEF Telling
<1>7. CASE Application
  <2>1. /\ UNCHANGED <<asked, ending, hpc>> /\ (lpc' # "iterate" => lpc # "iterate")
    BY <1>7 DEF Application, Run, is_running, StopLoop, AddWatcher, RemoveWatcher, handlerVars
  <2> QED
    BY <1>3, <2>1 DEF Telling
<1>8. CASE LoopSteps
  <2>1. hpc' = hpc /\ ending' = IF lpc = "iterate" THEN Over ELSE ending
    BY <1>8 DEF LoopSteps
  <2>2. CASE Iterate
    <3>1. asked' = {} /\ ending' = Over /\ hpc' = "top"
      BY <2>1, <2>2 DEF Iterate, Where, FdCallbacks
    <3> QED
      BY <1>0, <1>1, <1>19, <3>1 DEF Telling
  <2>3. CASE Notify
    <3>1. CASE asked' = asked
      BY <1>15, <2>1, <2>3, <3>1 DEF Notify, NotAsked
    <3>2. CASE Current \notin WillSelects /\ Watch(WatchFor[Current])
      <4>1. Current # Ws
        BY <3>2, HandlerAssumption DEF HandlerAssumption
      <4>2. asked' = asked \cup {<<Current, d>> : d \in WatchFor[Current]}
        BY <3>2 DEF Watch
      <4>3. NotAsked => NotAsked'
        BY <1>18, <4>1, <4>2
      <4> QED
        BY <1>15, <2>1, <2>3, <4>3 DEF Notify
    <3> QED
      BY <2>3, <3>1, <3>2 DEF Notify
  <2>4. CASE Select
    <3>1. asked' = {} \/ asked' = asked
      BY <2>4 DEF Select
    <3>2. NotAsked => NotAsked'
      BY <1>19, <3>1 DEF NotAsked
    <3> QED
      BY <1>15, <2>1, <2>4, <3>2 DEF Select
  <2>5. CASE Dispatch
    <3>1. asked' = asked /\ lpc # "iterate"
      BY <2>5 DEF Dispatch
    <3> QED
      BY <1>15, <2>1, <3>1 DEF NotAsked
  <2> QED
    BY <1>8, <2>2, <2>3, <2>4, <2>5 DEF LoopSteps, LoopStep
<1>9. CASE DoRead
  <2>1. /\ UNCHANGED <<asked, lpc, ending>> /\ lpc \in FdCallbacks /\ Current = Ws
        /\ lpc = "can_read" \/ ~Should_stop
    BY <1>9 DEF DoRead, InHandler, FdCallbacks, loopVars
  <2>2. ~ending
    <3>1. lpc # "iterate"
      BY <2>1 DEF FdCallbacks
    <3>2. CASE lpc = "can_read"
      <4>1. AskedOnFd("read")
        BY <3>2 DEF LoopInv, AskedFor, CallbackWanted
      <4>2. <<Ws, "read">> \in asked
        BY <2>1, <4>1, AloneAsks DEF AskedOnFd
      <4> QED
        BY <1>2, <3>1, <4>2 DEF NotAsked, Directions
    <3>3. CASE ~Should_stop
      BY <1>2, <3>1, <3>3 DEF Should_stop
    <3> QED
      BY <2>1, <3>2, <3>3
  <2> QED
    BY <1>4, <2>1, <2>2
<1>10. CASE WillSelect
  <2>1. lpc = "will_select" /\ ending' = ending
    BY <1>10 DEF WillSelect, InHandler
  <2>2. CASE Should_stop /\ ~close_event_sent
    <3>1. asked' = asked /\ lpc' = lpc /\ (Telling => Telling')
      BY <1>10, <2>2 DEF WillSelect, MaybeSendCloseEvent, Resume, Telling, loopVars
    <3> QED
      BY <1>3, <2>1, <3>1
  <2>3. CASE Should_stop /\ close_event_sent
    <3>1. WillSelectReturns({}) /\ hpc' = hpc
      BY <1>10, <2>3 DEF WillSelect
    <3>2. asked' = asked
      BY <3>1 DEF WillSelectReturns, Watch
    <3> QED
      BY <1>15, <2>1, <3>1, <3>2 DEF NotAsked
  <2>4. CASE ~Should_stop
    <3>1. ~ending
      BY <1>2, <2>1, <2>4 DEF Should_stop
    <3> QED
      BY <1>1, <2>1, <3>1
  <2> QED
    BY <2>2, <2>3, <2>4
<1>11. CASE DoWrite
  <2>1. /\ UNCHANGED <<asked, lpc, ending>> /\ lpc # "iterate" /\ ~Should_stop
    BY <1>11 DEF DoWrite, InHandler, loopVars
  <2>2. ~ending
    BY <1>2, <2>1 DEF Should_stop
  <2> QED
    BY <1>4, <2>1, <2>2
<1>12. CASE WriteLoop \/ EventReturns \/ Check
  <2>1. UNCHANGED <<asked, lpc, ending>> /\ (Telling => Telling')
    BY <1>12 DEF WriteLoop, EventReturns, Check, MaybeSendCloseEvent, Resume, Telling, Events, loopVars
  <2> QED
    BY <1>3, <2>1
<1>14. CASE HandlerReturns
  <2>1. /\ UNCHANGED <<asked, ending>> /\ hpc' = "top" /\ lpc # "iterate"
    BY <1>14 DEF HandlerReturns, FdCallbackReturns
  <2> QED
    BY <1>4, <2>1
<1>16. CASE ApplicationReturns
  <2>1. ending' = ending /\ hpc' = hpc
    BY <1>16 DEF ApplicationReturns, handlerVars
  <2>2. CASE LoopCallbackReturns
    <3>1. asked' = {} /\ lpc # "iterate"
      BY <2>2 DEF LoopCallbackReturns
    <3> QED
      BY <1>15, <1>19, <2>1, <3>1
  <2>3. CASE FdCallbackReturns
    <3>1. asked' = asked /\ lpc # "iterate"
      BY <2>3 DEF FdCallbackReturns
    <3> QED
      BY <1>15, <2>1, <3>1 DEF NotAsked
  <2>4. ASSUME NEW dirs, WillSelectReturns(dirs), Current # Ws PROVE Quiet'
    <3>1. asked' = asked \cup {<<Current, d>> : d \in dirs} /\ lpc # "iterate"
      BY <2>4 DEF WillSelectReturns, Watch
    <3>2. NotAsked => NotAsked'
      BY <1>18, <2>4, <3>1
    <3> QED
      BY <1>15, <2>1, <3>1, <3>2
  <2> QED
    BY <1>16, <2>2, <2>3, <2>4 DEF ApplicationReturns
<1>17. CASE UNCHANGED vars
  <2>1. UNCHANGED <<asked, lpc, ending, hpc>>
    BY <1>17 DEF vars, loopVars, handlerVars
  <2> QED
    BY <1>3, <2>1 DEF Telling
<1> QED
  BY <1>5, <1>6, <1>7, <1>8, <1>9, <1>10, <1>11, <1>12, <1>14, <1>16, <1>17
  DEF Next, HandlerStep, Returns

\* Once the connection is over, an iteration brings the application the closed
\* event at most, and select() does not get the descriptor.
THEOREM ClosedIsQuietAlways == Spec => []ClosedIsQuiet
<1>1. LoopInv /\ Quiet => ClosedIsQuiet
  <2> SUFFICES ASSUME LoopInv, Quiet, AloneOnFd(Ws), ending, lpc # "iterate"
               PROVE  /\ hpc \notin {"frame", "sent"}
                      /\ \A d \in Directions : <<FdOf[Ws], d>> \notin fds
    BY DEF ClosedIsQuiet
  <2>1. hpc \notin {"frame", "sent"} /\ \A d \in Directions : <<Ws, d>> \notin asked
    BY DEF Quiet
  <2>2. ASSUME NEW d \in Directions, <<FdOf[Ws], d>> \in fds PROVE FALSE
    <3>1. \E v \in Watchers : FdOf[v] = FdOf[Ws] /\ <<v, d>> \in asked
      BY <2>2 DEF LoopInv, AskedFor, FdsAsked
    <3> QED
      BY <2>1, <3>1, AloneAsks
  <2> QED
    BY <2>1, <2>2
<1> QED
  BY <1>1, InitLoopTypes, NextLoopTypes, InitLoopInv, NextMovesLoop, MovesLoopInv, InitWhere, NextWhere, InitQuiet, NextQuiet, PTL
     DEF Spec

-----------------------------------------------------------------------------
(* What is sent                                                             *)

AnyFrame ==
  [kind : {"close"}, status : Nat] \cup [kind : {"data"}, msg : Nat, start : BOOLEAN, fin : BOOLEAN]

SendTypes ==
  /\ sending_message \in BOOLEAN /\ close_sent \in BOOLEAN
  /\ accepted \in Nat /\ size \in Nat /\ written \in Nat
  /\ IF sending_message THEN written < size ELSE written = 0
  /\ wire \in Seq(AnyFrame) /\ reports \in Seq(Nat \X BOOLEAN)

\* The steps that change what is sent; all others at most lose the connection.
PeerCloses ==
  /\ ~close_sent /\ close_sent' = TRUE
  /\ \E c \in Closes : close_status' = StatusOfReply(c) /\ Write(CloseFrame(ReplyTo(c)))
  /\ UNCHANGED sendVars

Fades ==
  /\ CanWrite' => CanWrite
  /\ UNCHANGED <<close_sent, close_status, sendVars, wire>>

LEMMA NextChanges == [Next]_vars => SendMessage \/ CloseHandler \/ PeerCloses \/ DoWrite \/ Fades
<1> SUFFICES ASSUME [Next]_vars, ~SendMessage, ~CloseHandler, ~DoWrite PROVE PeerCloses \/ Fades
  OBVIOUS
<1>1. CASE DoRead
  <2>1. UNCHANGED sendVars
    BY <1>1 DEF DoRead
  <2>2. CASE ReadFails
    BY <2>1, <2>2 DEF ReadFails, Fades, CanWrite
  <2>3. CASE ReadFrame
    <3>1. CASE UNCHANGED <<client_state, wire, close_sent, close_status>>
      BY <2>1, <3>1 DEF Fades, CanWrite
    <3>2. CASE WritePing /\ UNCHANGED <<close_sent, close_status>>
      BY <2>1, <3>2 DEF WritePing, WriteFails, Fades, CanWrite
    <3>3. CASE /\ ~close_sent /\ close_sent' = TRUE
               /\ \E c \in Closes : close_status' = StatusOfReply(c) /\ Write(CloseFrame(ReplyTo(c)))
      BY <2>1, <3>3 DEF PeerCloses
    <3> QED
      BY <2>3, <3>1, <3>2, <3>3 DEF ReadFrame
  <2> QED
    BY <1>1, <2>2, <2>3 DEF DoRead
<1>2. CASE Ping
  BY <1>2 DEF Ping, WritePing, WriteFails, Fades, CanWrite, closeVars
<1>3. CASE WriteLoop
  BY <1>3 DEF WriteLoop, Fades, CanWrite, closeVars
<1>4. CASE InitHandler \/ Cleanup \/ Application \/ LoopSteps \/ WillSelect
           \/ Check \/ HandlerReturns \/ Returns \/ UNCHANGED vars
  <2>1. UNCHANGED <<client_state, close_sent, close_status, sendVars, wire>>
    BY <1>4 DEF InitHandler, Cleanup, Application, LoopSteps, WillSelect, Check,
                HandlerReturns, Returns, EventReturns, ApplicationReturns, handlerVars, vars,
                clientVars, closeVars
  <2> QED
    BY <2>1 DEF Fades, CanWrite
<1> QED
  BY <1>1, <1>2, <1>3, <1>4 DEF Next, HandlerStep

LEMMA WriteEffect ==
  ASSUME NEW frame, Write(frame)
  PROVE  \/ CanWrite /\ wire' = Append(wire, frame) /\ client_state' = client_state
         \/ ~CanWrite' /\ wire' = wire
BY DEF Write, WriteFails, CanWrite

\* do_write(): a frame that is not the last, the last one, or the end of trying.
LEMMA DoWriteEffect ==
  ASSUME SendTypes, DoWrite
  PROVE  /\ sending_message /\ ~close_sent /\ CanWrite
         /\ UNCHANGED <<accepted, close_sent, close_status>>
         /\ \/ /\ ~Fin /\ wire' = Append(wire, DataFrame(accepted, First, FALSE))
               /\ written' = written + 1
               /\ UNCHANGED <<client_state, sending_message, size, reports>>
            \/ /\ Fin /\ wire' = Append(wire, DataFrame(accepted, First, TRUE))
               /\ sending_message' = FALSE /\ size' = 0 /\ written' = 0
               /\ reports' = Append(reports, <<accepted, TRUE>>)
               /\ UNCHANGED client_state
            \/ /\ wire' = wire /\ ~CanWrite'
               /\ sending_message' = FALSE /\ size' = 0 /\ written' = 0
               /\ reports' = Append(reports, <<accepted, FALSE>>)
<1>1. /\ sending_message /\ ~close_sent /\ CanWrite
      /\ UNCHANGED <<accepted, close_sent, close_status>>
  BY DEF DoWrite, Should_stop, Over, CanWrite, closeVars
<1>2. /\ First \in BOOLEAN /\ Fin \in BOOLEAN /\ wire \in Seq(AnyFrame)
      /\ DataFrame(accepted, First, Fin) \in AnyFrame
  BY DEF First, Fin, SendTypes, DataFrame, AnyFrame
<1>3. CASE wire' = Append(wire, DataFrame(accepted, First, Fin)) /\ client_state' = client_state
  <2>1. wire' # wire
    BY <1>2, <1>3, AppendProperties
  <2>2. CASE Fin = TRUE
    BY <1>1, <1>3, <2>1, <2>2 DEF DoWrite, Wrote, Success
  <2>3. CASE Fin = FALSE
    BY <1>1, <1>3, <2>1, <2>3 DEF DoWrite, Wrote, Success
  <2> QED
    BY <1>2, <2>2, <2>3
<1>4. CASE ~CanWrite' /\ wire' = wire
  BY <1>1, <1>4 DEF DoWrite, Wrote, Success
<1> QED
  BY <1>3, <1>4, WriteEffect DEF DoWrite

LEMMA InitSendTypes == Init => SendTypes
<1> SUFFICES ASSUME Init PROVE SendTypes
  OBVIOUS
<1>1. /\ sending_message = FALSE /\ close_sent = FALSE /\ accepted = 0 /\ size = 0 /\ written = 0
      /\ wire = <<>> /\ reports = <<>>
  BY DEF Init
<1>2. wire \in Seq(AnyFrame) /\ reports \in Seq(Nat \X BOOLEAN)
  BY <1>1, EmptySeq
<1>3. IF sending_message THEN written < size ELSE written = 0
  BY <1>1
<1> QED
  BY <1>1, <1>2, <1>3 DEF SendTypes

LEMMA NextSendTypes == SendTypes /\ [Next]_vars => SendTypes'
<1> SUFFICES ASSUME SendTypes, [Next]_vars PROVE SendTypes'
  OBVIOUS
<1>1. CASE SendMessage
  <2>1. /\ sending_message' = TRUE /\ accepted' = accepted + 1 /\ size' \in 1..MaxFrames
        /\ written' = 0 /\ UNCHANGED <<wire, reports, close_sent>>
    BY <1>1 DEF SendMessage, closeVars
  <2> QED
    BY <2>1, HandlerAssumption DEF SendTypes, HandlerAssumption
<1>2. ASSUME NEW frame \in AnyFrame, Write(frame), close_sent' = TRUE, UNCHANGED sendVars
      PROVE  SendTypes'
  <2>1. wire' \in Seq(AnyFrame)
    <3>1. wire \in Seq(AnyFrame)
      BY DEF SendTypes
    <3>2. wire' = Append(wire, frame) \/ wire' = wire
      BY <1>2, WriteEffect
    <3> QED
      BY <1>2, <3>1, <3>2, AppendProperties
  <2> QED
    BY <1>2, <2>1 DEF SendTypes, sendVars
<1>3. CASE CloseHandler
  <2>1. CloseFrame(1000) \in AnyFrame
    BY DEF CloseFrame, AnyFrame
  <2> QED
    BY <1>2, <1>3, <2>1 DEF CloseHandler
<1>4. CASE PeerCloses
  <2>1. PICK c \in Closes : Write(CloseFrame(ReplyTo(c)))
    BY <1>4 DEF PeerCloses
  <2>2. ReplyTo(c) \in Nat
    BY DEF ReplyTo, StatusOfReply
  <2>3. CloseFrame(ReplyTo(c)) \in AnyFrame
    BY <2>2 DEF CloseFrame, AnyFrame
  <2> QED
    BY <1>2, <1>4, <2>1, <2>3 DEF PeerCloses
<1>5. CASE DoWrite
  <2>0. /\ accepted \in Nat /\ size \in Nat /\ written \in Nat /\ written < size
        /\ wire \in Seq(AnyFrame) /\ reports \in Seq(Nat \X BOOLEAN) /\ close_sent \in BOOLEAN
        /\ sending_message = TRUE /\ First \in BOOLEAN
    BY <1>5, DoWriteEffect DEF SendTypes, First
  <2>1. UNCHANGED <<accepted, close_sent>>
    BY <1>5, DoWriteEffect
  <2>2. ASSUME NEW fin \in BOOLEAN PROVE Append(wire, DataFrame(accepted, First, fin)) \in Seq(AnyFrame)
    <3>1. DataFrame(accepted, First, fin) \in AnyFrame
      BY <2>0 DEF DataFrame, AnyFrame
    <3> QED
      BY <2>0, <3>1, AppendProperties
  <2>3. ASSUME NEW success \in BOOLEAN
        PROVE  Append(reports, <<accepted, success>>) \in Seq(Nat \X BOOLEAN)
    BY <2>0, AppendProperties
  <2>4. CASE /\ ~Fin /\ wire' = Append(wire, DataFrame(accepted, First, FALSE))
             /\ written' = written + 1
             /\ UNCHANGED <<client_state, sending_message, size, reports>>
    <3>1. written' < size'
      BY <2>0, <2>4 DEF Fin
    <3>2. wire' \in Seq(AnyFrame) /\ reports' \in Seq(Nat \X BOOLEAN)
      BY <2>0, <2>2, <2>4
    <3>3. /\ sending_message' = TRUE /\ close_sent' \in BOOLEAN
          /\ accepted' \in Nat /\ size' \in Nat /\ written' \in Nat
      BY <2>0, <2>1, <2>4
    <3> QED
      BY <3>1, <3>2, <3>3 DEF SendTypes
  <2>5. CASE /\ wire' \in Seq(AnyFrame) /\ reports' \in Seq(Nat \X BOOLEAN)
             /\ sending_message' = FALSE /\ size' = 0 /\ written' = 0
    BY <2>0, <2>1, <2>5 DEF SendTypes
  <2> QED
    BY <1>5, <2>0, <2>2, <2>3, <2>4, <2>5, DoWriteEffect
<1>6. CASE Fades
  BY <1>6 DEF Fades, SendTypes, sendVars
<1> QED
  BY <1>1, <1>3, <1>4, <1>5, <1>6, NextChanges

-----------------------------------------------------------------------------
(* Order                                                                    *)

\* The place of a frame among those before it; the last frame of the wire, as long
\* as more may be written, ends a message or is of the one being sent.
InOrder(w, i) ==
  w[i].kind = "data" =>
    IF i = 1 THEN w[i].start
    ELSE /\ w[i - 1].kind = "data"
         /\ w[i].start <=> w[i - 1].fin
         /\ IF w[i].start THEN w[i].msg > w[i - 1].msg ELSE w[i].msg = w[i - 1].msg

CloseIsLast(w) == \A i \in DOMAIN w : w[i].kind = "close" => i = Len(w)
StatusTold(w, status) ==
  \A i \in DOMAIN w :
    w[i].kind = "close" /\ status # 0 => w[i].status = IF status = 1005 THEN 0 ELSE status

Unfinished ==
  CanWrite /\ ~close_sent =>
    IF wire = <<>> THEN written = 0
    ELSE LET f == wire[Len(wire)]
         IN  /\ f.kind = "data"
             /\ IF written > 0 THEN f.msg = accepted /\ ~f.fin
                ELSE f.fin /\ (sending_message => f.msg < accepted)

OrderInv ==
  /\ \A i \in DOMAIN wire : InOrder(wire, i)
  /\ \A i \in DOMAIN wire : wire[i].kind = "data" => wire[i].msg <= accepted
  /\ \A i \in DOMAIN wire : wire[i].kind = "close" => close_sent
  /\ CloseIsLast(wire) /\ StatusTold(wire, close_status)
  /\ close_status # 0 => close_sent
  /\ Unfinished

LEMMA InitOrder == Init => OrderInv
<1> SUFFICES ASSUME Init PROVE OrderInv
  OBVIOUS
<1>1. wire = <<>> /\ written = 0 /\ close_status = 0 /\ DOMAIN wire = {}
  BY DEF Init
<1> QED
  BY <1>1 DEF OrderInv, CloseIsLast, StatusTold, Unfinished

LEMMA AppendFrame ==
  ASSUME wire \in Seq(AnyFrame), NEW frame \in AnyFrame, wire' = Append(wire, frame)
  PROVE  /\ Len(wire) \in Nat /\ DOMAIN wire = 1..Len(wire)
         /\ wire' # <<>> /\ Len(wire') = Len(wire) + 1 /\ DOMAIN wire' = 1..(Len(wire) + 1)
         /\ \A i \in 1..Len(wire) : wire'[i] = wire[i]
         /\ wire'[Len(wire) + 1] = frame
<1>1. wire' \in Seq(AnyFrame)
  BY AppendProperties
<1> QED
  BY <1>1, AppendProperties, LenProperties

LEMMA OrderedWrites ==
  ASSUME SendTypes, OrderInv, DoWrite, NEW fin \in BOOLEAN,
         wire' = Append(wire, DataFrame(accepted, First, fin))
  PROVE  /\ \A i \in DOMAIN wire' : InOrder(wire', i)
         /\ \A i \in DOMAIN wire' : wire'[i].kind = "data" => wire'[i].msg <= accepted
         /\ \A i \in DOMAIN wire' : wire'[i].kind # "close"
         /\ wire' # <<>> /\ wire'[Len(wire')] = DataFrame(accepted, First, fin)
<1> DEFINE f == DataFrame(accepted, First, fin)
           n == Len(wire)
<1>1. /\ wire \in Seq(AnyFrame) /\ accepted \in Nat /\ written \in Nat
      /\ sending_message /\ ~close_sent /\ CanWrite
  BY DoWriteEffect DEF SendTypes
<1>2. f \in AnyFrame /\ f.kind = "data" /\ f.msg = accepted /\ f.start = (written = 0) /\ f.fin = fin
  BY <1>1 DEF DataFrame, AnyFrame, First
<1> HIDE DEF f
<1>3. /\ n \in Nat /\ DOMAIN wire = 1..n
      /\ wire' # <<>> /\ Len(wire') = n + 1 /\ DOMAIN wire' = 1..(n + 1)
      /\ \A i \in 1..n : wire'[i] = wire[i]
      /\ wire'[n + 1] = f
  BY <1>1, <1>2, AppendFrame DEF f
<1> HIDE DEF n
<1>4. InOrder(wire', n + 1)
  <2>1. CASE n = 0
    <3>1. written = 0
      <4>1. wire = <<>>
        BY <1>1, <2>1, EmptySeq DEF n
      <4> QED
        BY <1>1, <4>1 DEF OrderInv, Unfinished
    <3>2. n + 1 = 1 /\ wire'[1] = f
      BY <1>3, <2>1
    <3>3. f.start = (written = 0)
      BY <1>2
    <3>4. f.start = TRUE
      BY <3>1, <3>3, Zenon
    <3> QED
      BY <3>2, <3>4 DEF InOrder
  <2>2. CASE n > 0
    <3> DEFINE last == wire[n]
    <3>1. /\ last.kind = "data"
          /\ IF written > 0 THEN last.msg = accepted /\ ~last.fin
             ELSE last.fin /\ last.msg < accepted
      <4>1. wire # <<>>
        BY <1>3, <2>2 DEF n
      <4> QED
        BY <1>1, <4>1 DEF OrderInv, Unfinished, n
    <3>2. wire'[(n + 1) - 1] = last
      BY <1>3, <2>2
    <3>3. last \in AnyFrame
      BY <1>1, <1>3, <2>2, ElementOfSeq DEF n
    <3>4. last.msg \in Nat /\ last.fin \in BOOLEAN
      BY <3>1, <3>3 DEF AnyFrame
    <3> HIDE DEF last
    <3>5. CASE written > 0
      <4>1. f.start = FALSE /\ last.fin = FALSE /\ last.msg = accepted
        BY <1>1, <1>2, <3>1, <3>4, <3>5
      <4> QED
        BY <1>2, <1>3, <2>2, <3>1, <3>2, <4>1 DEF InOrder
    <3>6. CASE written = 0
      <4>1. f.start = TRUE /\ last.fin = TRUE /\ last.msg < accepted
        BY <1>1, <1>2, <3>1, <3>4, <3>6
      <4> QED
        BY <1>1, <1>2, <1>3, <2>2, <3>1, <3>2, <3>4, <4>1 DEF InOrder
    <3> QED
      BY <1>1, <3>5, <3>6
  <2> QED
    BY <1>3, <2>1, <2>2
<1>5. ASSUME NEW i \in 1..n PROVE InOrder(wire', i)
  <2>1. InOrder(wire, i) /\ wire'[i] = wire[i] /\ (i # 1 => wire'[i - 1] = wire[i - 1])
    BY <1>3, <1>5 DEF OrderInv
  <2> QED
    BY <2>1 DEF InOrder
<1>6. \A i \in 1..n : wire[i].kind # "close" /\ (wire[i].kind = "data" => wire[i].msg <= accepted)
  BY <1>1, <1>3 DEF OrderInv
<1>7. \A i \in 1..(n + 1) : i \in 1..n \/ i = n + 1
  BY <1>3
<1>8. \A i \in DOMAIN wire' : InOrder(wire', i)
  BY <1>3, <1>4, <1>5, <1>7
<1>9. \A i \in DOMAIN wire' : wire'[i].kind # "close" /\ (wire'[i].kind = "data" => wire'[i].msg <= accepted)
  BY <1>1, <1>2, <1>3, <1>6, <1>7
<1> QED
  BY <1>2, <1>3, <1>8, <1>9 DEF f

LEMMA OrderedCloses ==
  ASSUME SendTypes, OrderInv, ~close_sent, close_sent', NEW status \in Nat,
         Write(CloseFrame(status)), UNCHANGED sendVars,
         close_status' # 0 => status = IF close_status' = 1005 THEN 0 ELSE close_status'
  PROVE  OrderInv'
<1>1. accepted' = accepted
  BY DEF sendVars
<1>2. Unfinished' /\ (close_status' # 0 => close_sent')
  BY DEF Unfinished
<1>3. CASE wire' = wire
  <2>1. \A i \in DOMAIN wire : wire[i].kind # "close"
    BY DEF OrderInv
  <2> QED
    BY <1>1, <1>2, <1>3, <2>1 DEF OrderInv, CloseIsLast, StatusTold
<1>4. CASE wire' = Append(wire, CloseFrame(status))
  <2> DEFINE f == CloseFrame(status)
             n == Len(wire)
  <2>1. f \in AnyFrame /\ f.kind = "close" /\ f.status = status /\ wire \in Seq(AnyFrame)
    BY DEF CloseFrame, AnyFrame, SendTypes
  <2>2. /\ n \in Nat /\ DOMAIN wire = 1..n /\ Len(wire') = n + 1 /\ DOMAIN wire' = 1..(n + 1)
        /\ \A i \in 1..n : wire'[i] = wire[i]
        /\ wire'[n + 1] = f
    BY <1>4, <2>1, AppendFrame
  <2> HIDE DEF f, n
  <2>3. \A i \in 1..n : wire[i].kind # "close"
    BY <2>2 DEF OrderInv
  <2>4. \A i \in 1..(n + 1) : i \in 1..n \/ i = n + 1
    BY <2>2
  <2>5. ASSUME NEW i \in 1..(n + 1) PROVE InOrder(wire', i)
    <3>1. CASE i = n + 1
      BY <2>1, <2>2, <3>1 DEF InOrder
    <3>2. CASE i \in 1..n
      <4>1. InOrder(wire, i) /\ wire'[i] = wire[i] /\ (i # 1 => wire'[i - 1] = wire[i - 1])
        BY <2>2, <3>2 DEF OrderInv
      <4> QED
        BY <4>1 DEF InOrder
    <3> QED
      BY <2>4, <3>1, <3>2
  <2>6. \A i \in DOMAIN wire' : wire'[i].kind = "data" => wire'[i].msg <= accepted'
    BY <1>1, <2>1, <2>2, <2>4 DEF OrderInv
  <2>7. CloseIsLast(wire')
    BY <2>2, <2>3, <2>4 DEF CloseIsLast
  <2>8. StatusTold(wire', close_status')
    BY <2>1, <2>2, <2>3, <2>4 DEF StatusTold
  <2> QED
    BY <1>2, <2>2, <2>5, <2>6, <2>7, <2>8 DEF OrderInv
<1> QED
  BY <1>3, <1>4, WriteEffect

LEMMA NextOrder == SendTypes /\ OrderInv /\ [Next]_vars => OrderInv'
<1> SUFFICES ASSUME SendTypes, OrderInv, [Next]_vars PROVE OrderInv'
  OBVIOUS
<1>1. CASE SendMessage
  <2>1. /\ accepted' = accepted + 1 /\ ~sending_message /\ written' = 0
        /\ UNCHANGED <<wire, close_sent, close_status, client_state>>
    BY <1>1 DEF SendMessage, clientVars, closeVars
  <2>2. accepted \in Nat /\ written = 0 /\ wire \in Seq(AnyFrame)
    BY <2>1 DEF SendTypes
  <2>3. \A i \in DOMAIN wire : wire[i].kind = "data" => wire[i].msg \in Nat
    <3> SUFFICES ASSUME NEW i \in DOMAIN wire, wire[i].kind = "data" PROVE wire[i].msg \in Nat
      OBVIOUS
    <3>1. wire[i] \in AnyFrame
      BY <2>2, LenProperties, ElementOfSeq
    <3> QED
      BY <3>1 DEF AnyFrame
  <2>4. \A i \in DOMAIN wire : wire[i].kind = "data" => wire[i].msg <= accepted'
    BY <2>1, <2>2, <2>3 DEF OrderInv
  <2>5. Unfinished'
    <3> SUFFICES ASSUME CanWrite, ~close_sent, wire # <<>>
                 PROVE  LET f == wire[Len(wire)]
                        IN  f.kind = "data" /\ f.fin /\ f.msg < accepted'
      BY <2>1 DEF Unfinished, CanWrite
    <3>1. Len(wire) \in DOMAIN wire
      BY <2>2, EmptySeq, LenProperties
    <3>2. wire[Len(wire)].kind = "data" /\ wire[Len(wire)].fin
      BY <2>2 DEF OrderInv, Unfinished
    <3> QED
      BY <2>1, <2>2, <2>3, <3>1, <3>2 DEF OrderInv
  <2> QED
    BY <2>1, <2>4, <2>5 DEF OrderInv
<1>2. CASE CloseHandler
  <2>1. close_status = 0 /\ close_status' = 0 /\ ~close_sent /\ close_sent'
    BY <1>2 DEF CloseHandler, OrderInv
  <2> QED
    BY <1>2, <2>1, OrderedCloses DEF CloseHandler
<1>3. CASE PeerCloses
  <2>1. PICK c \in Closes : close_status' = StatusOfReply(c) /\ Write(CloseFrame(ReplyTo(c)))
    BY <1>3 DEF PeerCloses
  <2>2. /\ ReplyTo(c) \in Nat
        /\ ReplyTo(c) = IF close_status' = 1005 THEN 0 ELSE close_status'
    BY <2>1 DEF ReplyTo, StatusOfReply, Closes
  <2> QED
    BY <1>3, <2>1, <2>2, OrderedCloses DEF PeerCloses
<1>4. CASE DoWrite
  <2>1. /\ sending_message /\ ~close_sent /\ CanWrite
        /\ UNCHANGED <<accepted, close_sent, close_status>>
    BY <1>4, DoWriteEffect
  <2>2. ASSUME NEW fin \in BOOLEAN, wire' = Append(wire, DataFrame(accepted, First, fin)),
               IF fin THEN written' = 0 /\ ~sending_message' ELSE written' > 0
        PROVE  OrderInv'
    <3>1. /\ \A i \in DOMAIN wire' : InOrder(wire', i)
          /\ \A i \in DOMAIN wire' : wire'[i].kind = "data" => wire'[i].msg <= accepted
          /\ \A i \in DOMAIN wire' : wire'[i].kind # "close"
          /\ wire' # <<>> /\ wire'[Len(wire')] = DataFrame(accepted, First, fin)
      BY <1>4, <2>2, OrderedWrites
    <3>2. /\ DataFrame(accepted, First, fin).kind = "data" /\ DataFrame(accepted, First, fin).msg = accepted
          /\ DataFrame(accepted, First, fin).fin = fin
      BY DEF DataFrame
    <3>3. Unfinished'
      BY <2>1, <2>2, <3>1, <3>2 DEF Unfinished
    <3>4. CloseIsLast(wire') /\ StatusTold(wire', close_status')
      BY <3>1 DEF CloseIsLast, StatusTold
    <3>5. close_status' # 0 => close_sent'
      BY <2>1 DEF OrderInv
    <3> QED
      BY <2>1, <3>1, <3>3, <3>4, <3>5 DEF OrderInv
  <2>3. ASSUME wire' = wire, ~CanWrite' PROVE OrderInv'
    BY <2>1, <2>3 DEF OrderInv, Unfinished
  <2>4. written \in Nat
    BY DEF SendTypes
  <2>5. CASE wire' = Append(wire, DataFrame(accepted, First, FALSE)) /\ written' = written + 1
    <3>1. written' > 0
      BY <2>4, <2>5
    <3> QED
      BY <2>2, <2>5, <3>1
  <2>6. CASE /\ wire' = Append(wire, DataFrame(accepted, First, TRUE))
             /\ sending_message' = FALSE /\ written' = 0
    BY <2>2, <2>6
  <2> QED
    BY <1>4, <2>3, <2>5, <2>6, DoWriteEffect
<1>5. CASE Fades
  BY <1>5 DEF Fades, OrderInv, Unfinished, sendVars
<1> QED
  BY <1>1, <1>2, <1>3, <1>4, <1>5, NextChanges

\* One close frame at most is written, whoever began, nothing after it, and its
\* status is the one the application is told.
THEOREM ClosesOnceAlways == Spec => []ClosesOnce
<1>1. OrderInv => ClosesOnce
  BY DEF OrderInv, CloseIsLast, StatusTold, ClosesOnce
<1> QED
  BY <1>1, InitSendTypes, NextSendTypes, InitOrder, NextOrder, PTL DEF Spec

\* The data frames on the wire are whole messages in the order of their acceptance.
THEOREM MessagesInOrderAlways == Spec => []MessagesInOrder
<1>1. OrderInv => MessagesInOrder
  BY DEF OrderInv, InOrder, MessagesInOrder
<1> QED
  BY <1>1, InitSendTypes, NextSendTypes, InitOrder, NextOrder, PTL DEF Spec

-----------------------------------------------------------------------------
(* Message-sent events                                                      *)

Succeeded(rs) == {r[1] : r \in {r \in Range(rs) : r[2]}}
Completed(w) == {f.msg : f \in {f \in Range(w) : f.kind = "data" /\ f.fin}}

LEMMA RangeOfAppend ==
  ASSUME NEW S, NEW s \in Seq(S), NEW e \in S
  PROVE  Range(Append(s, e)) = Range(s) \cup {e}
<1> DEFINE t == Append(s, e)
           n == Len(s)
<1>1. /\ n \in Nat /\ DOMAIN s = 1..n /\ DOMAIN t = 1..(n + 1)
      /\ \A i \in 1..n : t[i] = s[i]
      /\ t[n + 1] = e
  BY AppendProperties, LenProperties
<1> HIDE DEF t, n
<1>2. \A i \in 1..(n + 1) : i \in 1..n \/ i = n + 1
  BY <1>1
<1>3. n + 1 \in 1..(n + 1) /\ \A i \in 1..n : i \in 1..(n + 1)
  BY <1>1
<1>4. Range(t) \subseteq Range(s) \cup {e}
  BY <1>1, <1>2 DEF Range
<1>5. Range(s) \cup {e} \subseteq Range(t)
  BY <1>1, <1>3 DEF Range
<1> QED
  BY <1>4, <1>5 DEF t

LEMMA MoreSucceeded ==
  ASSUME NEW rs \in Seq(Nat \X BOOLEAN), NEW m \in Nat, NEW success \in BOOLEAN
  PROVE  Succeeded(Append(rs, <<m, success>>)) = Succeeded(rs) \cup (IF success THEN {m} ELSE {})
<1>1. Range(Append(rs, <<m, success>>)) = Range(rs) \cup {<<m, success>>}
  BY RangeOfAppend
<1> DEFINE e == <<m, success>>
<1>2. e[1] = m /\ e[2] = success
  OBVIOUS
<1> HIDE DEF e
<1>3. CASE success
  BY <1>1, <1>2, <1>3, Zenon DEF Succeeded, e
<1>4. CASE ~success
  BY <1>1, <1>2, <1>4, Zenon DEF Succeeded, e
<1> QED
  BY <1>3, <1>4

LEMMA MoreCompleted ==
  ASSUME NEW w \in Seq(AnyFrame), NEW f \in AnyFrame
  PROVE  Completed(Append(w, f))
           = Completed(w) \cup (IF f.kind = "data" /\ f.fin THEN {f.msg} ELSE {})
<1>1. Range(Append(w, f)) = Range(w) \cup {f}
  BY RangeOfAppend
<1> QED
  BY <1>1, Zenon DEF Completed

\* SentReported by its parts.
Numbered(rs) == \A i \in DOMAIN rs : rs[i][1] = i
Pending == IF sending_message THEN 1 ELSE 0

LEMMA SentReportedParts ==
  SentReported <=> /\ Len(reports) = accepted - Pending /\ Numbered(reports)
                   /\ Succeeded(reports) = Completed(wire)
BY DEF SentReported, Numbered, Pending, Succeeded, Completed

LEMMA InitReports == Init => SentReported
<1> SUFFICES ASSUME Init PROVE SentReported
  OBVIOUS
<1>1. reports = <<>> /\ wire = <<>> /\ DOMAIN reports = {} /\ Range(reports) = {} /\ Range(wire) = {}
  BY DEF Init, Range
<1>2. Len(reports) = 0 /\ accepted = 0 /\ Pending = 0
  BY <1>1 DEF Init, Pending
<1>3. Succeeded(reports) = {} /\ Completed(wire) = {}
  BY <1>1 DEF Succeeded, Completed
<1>4. Numbered(reports)
  BY <1>1 DEF Numbered
<1>5. Len(reports) = accepted - Pending
  BY <1>2
<1> QED
  BY <1>3, <1>4, <1>5, SentReportedParts

\* The event for the message being sent is the next one.
LEMMA MoreReports ==
  ASSUME SendTypes, SentReported, sending_message, NEW success \in BOOLEAN,
         reports' = Append(reports, <<accepted, success>>)
  PROVE  Numbered(reports') /\ Len(reports') = accepted
<1> DEFINE n == Len(reports)
           e == <<accepted, success>>
<1>1. /\ reports \in Seq(Nat \X BOOLEAN) /\ accepted \in Nat
      /\ n = accepted - 1 /\ Numbered(reports)
  BY SentReportedParts DEF SendTypes, Pending
<1>2. e \in Nat \X BOOLEAN /\ e[1] = accepted
  BY <1>1
<1>3. /\ n \in Nat /\ DOMAIN reports = 1..n /\ DOMAIN reports' = 1..(n + 1)
      /\ Len(reports') = n + 1
      /\ \A i \in 1..n : reports'[i] = reports[i]
      /\ reports'[n + 1] = e
  BY <1>1, <1>2, AppendProperties, LenProperties
<1> HIDE DEF n, e
<1>4. \A i \in 1..n : reports'[i][1] = i
  BY <1>1, <1>3 DEF Numbered
<1>5. reports'[n + 1][1] = n + 1
  BY <1>1, <1>2, <1>3
<1>6. \A i \in 1..(n + 1) : i \in 1..n \/ i = n + 1
  BY <1>3
<1>7. Numbered(reports')
  BY <1>3, <1>4, <1>5, <1>6 DEF Numbered
<1> QED
  BY <1>1, <1>3, <1>7

LEMMA NextReports == SendTypes /\ SentReported /\ [Next]_vars => SentReported'
<1> SUFFICES ASSUME SendTypes, SentReported, [Next]_vars PROVE SentReported'
  OBVIOUS
<1>1. /\ Len(reports) = accepted - Pending /\ Numbered(reports)
      /\ Succeeded(reports) = Completed(wire) /\ wire \in Seq(AnyFrame)
      /\ reports \in Seq(Nat \X BOOLEAN) /\ accepted \in Nat
  BY SentReportedParts DEF SendTypes
<1>2. SentReported' <=>
        /\ Len(reports') = accepted' - Pending' /\ Numbered(reports')
        /\ Succeeded(reports') = Completed(wire')
  BY SentReportedParts DEF SentReported, Numbered, Pending, Succeeded, Completed
<1>3. CASE SendMessage
  <2>1. /\ accepted' = accepted + 1 /\ ~sending_message /\ sending_message' = TRUE
        /\ UNCHANGED <<reports, wire>>
    BY <1>3 DEF SendMessage
  <2>2. Pending = 0 /\ Pending' = 1
    BY <2>1 DEF Pending
  <2>3. Len(reports') = accepted' - Pending'
    BY <1>1, <2>1, <2>2
  <2> QED
    BY <1>1, <1>2, <2>1, <2>3
<1>4. ASSUME NEW status \in Nat, Write(CloseFrame(status)), UNCHANGED sendVars PROVE SentReported'
  <2>1. CloseFrame(status) \in AnyFrame /\ CloseFrame(status).kind # "data"
    BY DEF CloseFrame, AnyFrame
  <2>2. Completed(wire') = Completed(wire)
    <3>1. CASE wire' = wire
      BY <3>1
    <3>2. CASE wire' = Append(wire, CloseFrame(status))
      BY <1>1, <2>1, <3>2, MoreCompleted
    <3> QED
      BY <1>4, <3>1, <3>2, WriteEffect
  <2> QED
    BY <1>1, <1>2, <1>4, <2>2 DEF sendVars, Pending
<1>5. CASE CloseHandler
  BY <1>4, <1>5 DEF CloseHandler
<1>6. CASE PeerCloses
  <2>1. PICK c \in Closes : Write(CloseFrame(ReplyTo(c)))
    BY <1>6 DEF PeerCloses
  <2>2. ReplyTo(c) \in Nat
    BY DEF ReplyTo, StatusOfReply
  <2> QED
    BY <1>4, <1>6, <2>1, <2>2 DEF PeerCloses
<1>7. CASE DoWrite
  <2>1. sending_message /\ accepted' = accepted
    BY <1>7, DoWriteEffect
  <2>6. ASSUME sending_message' = FALSE, NEW success \in BOOLEAN,
               reports' = Append(reports, <<accepted, success>>)
        PROVE  Len(reports') = accepted' - Pending' /\ Numbered(reports')
    <3>1. Pending' = 0
      BY <2>6 DEF Pending
    <3>2. Numbered(reports') /\ Len(reports') = accepted
      BY <2>1, <2>6, MoreReports
    <3> QED
      BY <1>1, <2>1, <3>1, <3>2
  <2>2. ASSUME NEW fin \in BOOLEAN
        PROVE  LET f == DataFrame(accepted, First, fin)
               IN  f \in AnyFrame /\ f.kind = "data" /\ f.fin = fin /\ f.msg = accepted
    BY <1>1 DEF DataFrame, AnyFrame, First
  <2>3. CASE /\ wire' = Append(wire, DataFrame(accepted, First, FALSE))
             /\ UNCHANGED <<sending_message, reports>>
    <3>1. Completed(wire') = Completed(wire)
      BY <1>1, <2>2, <2>3, MoreCompleted
    <3> QED
      BY <1>1, <1>2, <2>1, <2>3, <3>1 DEF Pending
  <2>4. CASE /\ wire' = Append(wire, DataFrame(accepted, First, TRUE))
             /\ sending_message' = FALSE /\ reports' = Append(reports, <<accepted, TRUE>>)
    <3>1. Completed(wire') = Completed(wire) \cup {accepted}
      BY <1>1, <2>2, <2>4, MoreCompleted
    <3>2. Succeeded(reports') = Succeeded(reports) \cup {accepted}
      BY <1>1, <2>4, MoreSucceeded
    <3> QED
      BY <1>1, <1>2, <2>4, <2>6, <3>1, <3>2
  <2>5. CASE /\ wire' = wire
             /\ sending_message' = FALSE /\ reports' = Append(reports, <<accepted, FALSE>>)
    <3>1. Succeeded(reports') = Succeeded(reports) \cup {}
      BY <1>1, <2>5, MoreSucceeded, Zenon
    <3>2. Succeeded(reports') = Succeeded(reports)
      BY <3>1
    <3> QED
      BY <1>1, <1>2, <2>5, <2>6, <3>2
  <2> QED
    BY <1>7, <2>3, <2>4, <2>5, DoWriteEffect
<1>8. CASE Fades
  BY <1>8 DEF Fades, sendVars, SentReported
<1> QED
  BY <1>3, <1>5, <1>6, <1>7, <1>8, NextChanges

\* Every message accepted gets one message-sent event, in order, but for the one
\* that still counts as being sent, and the event reports success exactly for what
\* is on the wire to the last frame.
THEOREM SentReportedAlways == Spec => []SentReported
BY InitSendTypes, NextSendTypes, InitReports, NextReports, PTL DEF Spec

-----------------------------------------------------------------------------
(* The types of the handler                                                 *)

ClientTypes ==
  /\ client_state \in {"OK", "FAILED", "FAILED_NO_CLOSE"}
  /\ incoming \in 0..MaxReads

LEMMA InitClient == Init => ClientTypes
BY HandlerAssumption DEF Init, ClientTypes, HandlerAssumption

\* No step gives the client another state, or takes a frame that is not there.
LEMMA NextClient == ASSUME ClientTypes, [Next]_vars PROVE ClientTypes'
<1>0. MaxReads \in Nat
  BY HandlerAssumption DEF HandlerAssumption
<1>1. CASE SendMessage \/ CloseHandler \/ Ping \/ DoWrite \/ WriteLoop
  BY <1>1 DEF SendMessage, CloseHandler, Ping, DoWrite, WriteLoop, Write, WritePing, WriteFails,
              ClientTypes, clientVars
<1>2. CASE DoRead
  <2>1. CASE ReadFails
    BY <2>1 DEF ReadFails, ClientTypes
  <2>2. CASE ReadFrame
    <3>1. incoming' \in 0..MaxReads
      BY <1>0, <2>2 DEF ReadFrame, ClientTypes
    <3>2. client_state' \in {client_state, "FAILED_NO_CLOSE"}
      BY <2>2 DEF ReadFrame, Write, WritePing, WriteFails
    <3> QED
      BY <3>1, <3>2 DEF ClientTypes
  <2> QED
    BY <1>2, <2>1, <2>2 DEF DoRead
<1>3. CASE InitHandler \/ Cleanup \/ Application \/ LoopSteps \/ WillSelect
           \/ Check \/ HandlerReturns \/ Returns \/ UNCHANGED vars
  BY <1>3 DEF InitHandler, Cleanup, Application, LoopSteps, WillSelect, Check, HandlerReturns,
              Returns, EventReturns, ApplicationReturns, handlerVars, vars, clientVars, ClientTypes
<1> QED
  BY <1>1, <1>2, <1>3 DEF Next, HandlerStep

\* The conjuncts of TypeOK about the handler that are more than SendTypes and
\* ClientTypes: the bounds, and what only a frame of this handler looks like.
HandlerTypes ==
  /\ buffered \in 0..MaxReads
  /\ handler \in {"none", "live", "gone"} /\ close_event_sent \in BOOLEAN
  /\ close_status \in {0, 1000, 1002, 1005, 1007}
  /\ size \in 0..MaxFrames /\ accepted \in 0..MaxMessages
  /\ sending_message => accepted > 0
  /\ wire \in Seq(Frames) /\ reports \in Seq((1..MaxMessages) \X BOOLEAN)
  /\ ending \in BOOLEAN

LEMMA InitHandlerTypes == Init => HandlerTypes
<1> SUFFICES ASSUME Init PROVE HandlerTypes
  OBVIOUS
<1>1. wire \in Seq(Frames) /\ reports \in Seq((1..MaxMessages) \X BOOLEAN)
  <2>1. wire = <<>> /\ reports = <<>>
    BY DEF Init
  <2> QED
    BY <2>1, EmptySeq
<1>2. /\ MaxReads \in Nat /\ MaxBuffered \in 0..MaxReads /\ MaxMessages \in Nat
      /\ MaxFrames \in Nat \ {0}
  BY HandlerAssumption DEF HandlerAssumption
<1>3. buffered \in 0..MaxReads
  BY <1>2 DEF Init
<1>4. /\ size \in 0..MaxFrames /\ accepted \in 0..MaxMessages
      /\ close_status \in {0, 1000, 1002, 1005, 1007}
  BY <1>2 DEF Init
<1>5. /\ handler \in {"none", "live", "gone"} /\ close_event_sent \in BOOLEAN /\ ending \in BOOLEAN
      /\ ~sending_message
  BY DEF Init
<1> QED
  BY <1>1, <1>3, <1>4, <1>5 DEF HandlerTypes

\* A flag that is set or stays.
LEMMA SetOrStays ==
  ASSUME NEW old \in BOOLEAN, NEW now, NEW set \in BOOLEAN, now = set \/ now = old
  PROVE  now \in BOOLEAN
OBVIOUS

LEMMA FlagStays ==
  ASSUME HandlerTypes, close_event_sent' = TRUE \/ close_event_sent' = close_event_sent
  PROVE  close_event_sent' \in BOOLEAN
<1>1. close_event_sent \in BOOLEAN
  BY DEF HandlerTypes
<1>2. CASE close_event_sent' = TRUE
  BY <1>2
<1>3. CASE close_event_sent' = close_event_sent
  BY <1>1, <1>3
<1> QED
  BY <1>2, <1>3

\* The part of the handler's types that is not about what is sent.
LEMMA NextHandlerFlags ==
  ASSUME HandlerTypes, ClientTypes, SendTypes, [Next]_vars
  PROVE  /\ buffered' \in 0..MaxReads
         /\ handler' \in {"none", "live", "gone"} /\ close_event_sent' \in BOOLEAN
         /\ ending' \in BOOLEAN
<1>0. MaxReads \in Nat
  BY HandlerAssumption DEF HandlerAssumption
<1>1. CASE UNCHANGED <<buffered, handler, close_event_sent, ending>>
  BY <1>1 DEF HandlerTypes
<1>2. CASE SendMessage \/ CloseHandler \/ Ping \/ InitHandler \/ Cleanup
  BY <1>2 DEF HandlerTypes, SendMessage, CloseHandler, Ping, InitHandler, Cleanup, clientVars, closeVars
<1>3. CASE LoopSteps
  <2>1. Over \in BOOLEAN
    BY DEF Over
  <2>2. ending' = Over \/ ending' = ending
    BY <1>3 DEF LoopSteps
  <2>3. ending \in BOOLEAN
    BY DEF HandlerTypes
  <2>4. ending' \in BOOLEAN
    BY <2>1, <2>2, <2>3, SetOrStays
  <2> QED
    BY <1>3, <2>4 DEF HandlerTypes, LoopSteps, clientVars, closeVars
<1>4. CASE DoRead
  <2>1. handler' \in {"none", "live", "gone"} /\ ending' \in BOOLEAN
    BY <1>4 DEF DoRead, HandlerTypes
  <2>2. buffered' \in 0..MaxReads
    <3>1. buffered' = buffered \/ buffered' = IF buffered > 0 THEN buffered - 1 ELSE 0
      BY <1>0, <1>4 DEF DoRead, ReadFails, ReadFrame
    <3> QED
      BY <1>0, <3>1 DEF HandlerTypes
  <2>3. close_event_sent' = TRUE \/ close_event_sent' = close_event_sent
    BY <1>4 DEF DoRead, ReadFails, ReadFrame, MaybeSendCloseEvent
  <2>4. close_event_sent' \in BOOLEAN
    BY <2>3, FlagStays
  <2> QED
    BY <2>1, <2>2, <2>4
<1>5. CASE WillSelect \/ Check
  <2>1. /\ buffered' \in 0..MaxReads /\ handler' \in {"none", "live", "gone"}
        /\ ending' \in BOOLEAN
    BY <1>5 DEF WillSelect, Check, clientVars, HandlerTypes
  <2>2. close_event_sent' = TRUE \/ close_event_sent' = close_event_sent
    BY <1>5 DEF WillSelect, Check, MaybeSendCloseEvent
  <2>3. close_event_sent' \in BOOLEAN
    BY <2>2, FlagStays
  <2> QED
    BY <2>1, <2>3
<1>6. CASE DoWrite \/ WriteLoop \/ HandlerReturns \/ EventReturns
  BY <1>6 DEF HandlerTypes, DoWrite, WriteLoop, HandlerReturns, EventReturns, clientVars, closeVars
<1>7. CASE Application \/ ApplicationReturns \/ UNCHANGED vars
  BY <1>1, <1>7 DEF Application, ApplicationReturns, vars, handlerVars, clientVars, closeVars
<1> QED
  BY <1>2, <1>3, <1>4, <1>5, <1>6, <1>7 DEF Next, HandlerStep, Returns

\* What is written are frames of the handler.
LEMMA WrittenFrames ==
  ASSUME wire \in Seq(Frames), NEW frame \in Frames, wire' = Append(wire, frame) \/ wire' = wire
  PROVE  wire' \in Seq(Frames)
BY AppendProperties

LEMMA NextHandlerTypes ==
  ASSUME HandlerTypes, ClientTypes, SendTypes, [Next]_vars
  PROVE  HandlerTypes'
<1> DEFINE Messages == 1..MaxMessages
<1>0. /\ MaxMessages \in Nat /\ MaxFrames \in Nat
      /\ close_status \in {0, 1000, 1002, 1005, 1007}
      /\ size \in 0..MaxFrames /\ accepted \in 0..MaxMessages
      /\ sending_message => accepted \in Messages
      /\ wire \in Seq(Frames) /\ reports \in Seq(Messages \X BOOLEAN)
  BY HandlerAssumption DEF HandlerAssumption, HandlerTypes
<1> DEFINE Sound ==
      /\ close_status \in {0, 1000, 1002, 1005, 1007}
      /\ size \in 0..MaxFrames /\ accepted \in 0..MaxMessages
      /\ sending_message => accepted > 0
      /\ wire \in Seq(Frames) /\ reports \in Seq(Messages \X BOOLEAN)
<1>1. Sound' => HandlerTypes'
  BY NextHandlerFlags DEF HandlerTypes
<1>2. Sound
  BY DEF HandlerTypes
<1> HIDE DEF Messages, Sound
<1>3. CASE SendMessage
  <2>1. /\ accepted' = accepted + 1 /\ accepted < MaxMessages /\ size' \in 1..MaxFrames
        /\ UNCHANGED <<close_status, wire, reports>>
    BY <1>3 DEF SendMessage, closeVars
  <2>2. accepted' \in 0..MaxMessages /\ accepted' > 0 /\ size' \in 0..MaxFrames
    BY <1>0, <2>1
  <2> QED
    BY <1>1, <1>2, <2>1, <2>2 DEF Sound
<1>4. CASE CloseHandler
  <2>1. CloseFrame(1000) \in Frames
    BY DEF CloseFrame, Frames
  <2>2. wire' \in Seq(Frames)
    BY <1>0, <1>4, <2>1, WriteEffect, WrittenFrames DEF CloseHandler
  <2>3. UNCHANGED <<close_status, size, accepted, sending_message, reports>>
    BY <1>4 DEF CloseHandler, sendVars
  <2> QED
    BY <1>1, <1>2, <2>2, <2>3 DEF Sound
<1>5. CASE PeerCloses
  <2>1. PICK c \in Closes : close_status' = StatusOfReply(c) /\ Write(CloseFrame(ReplyTo(c)))
    BY <1>5 DEF PeerCloses
  <2>2. close_status' \in {0, 1000, 1002, 1005, 1007}
    BY <2>1 DEF StatusOfReply
  <2>3. ReplyTo(c) \in {0, 1000, 1002, 1007}
    BY DEF ReplyTo, StatusOfReply, Closes
  <2>4. CloseFrame(ReplyTo(c)) \in Frames
    BY <2>3 DEF Frames
  <2>5. wire' \in Seq(Frames)
    BY <1>0, <2>1, <2>4, WriteEffect, WrittenFrames
  <2>6. UNCHANGED <<size, accepted, sending_message, reports>>
    BY <1>5 DEF PeerCloses, sendVars
  <2> QED
    BY <1>1, <1>2, <2>2, <2>5, <2>6 DEF Sound
<1>6. CASE DoWrite
  <2>1. sending_message /\ UNCHANGED <<accepted, close_status>>
    BY <1>6, DoWriteEffect
  <2>2. accepted \in Messages
    BY <1>0, <2>1
  <2>3. ASSUME NEW fin \in BOOLEAN PROVE DataFrame(accepted, First, fin) \in Frames
    BY <2>2 DEF DataFrame, Frames, First, Messages
  <2>4. wire' \in Seq(Frames)
    <3>1. \E fin \in BOOLEAN : wire' = Append(wire, DataFrame(accepted, First, fin)) \/ wire' = wire
      BY <1>6, DoWriteEffect
    <3>2. PICK fin \in BOOLEAN : wire' = Append(wire, DataFrame(accepted, First, fin)) \/ wire' = wire
      BY <3>1
    <3>3. DataFrame(accepted, First, fin) \in Frames
      BY <2>3
    <3> QED
      BY <1>0, <3>2, <3>3, WrittenFrames
  <2>5. reports' \in Seq(Messages \X BOOLEAN)
    <3>1. \/ reports' = reports
          \/ reports' = Append(reports, <<accepted, TRUE>>)
          \/ reports' = Append(reports, <<accepted, FALSE>>)
      BY <1>6, DoWriteEffect
    <3>2. ASSUME NEW success \in BOOLEAN
          PROVE  Append(reports, <<accepted, success>>) \in Seq(Messages \X BOOLEAN)
      <4>1. <<accepted, success>> \in Messages \X BOOLEAN
        BY <2>2
      <4>2. reports \in Seq(Messages \X BOOLEAN)
        BY <1>0
      <4> QED
        BY <4>1, <4>2, AppendProperties
    <3>3. CASE reports' = reports
      BY <1>0, <3>3
    <3>4. CASE reports' # reports
      <4>1. \E success \in BOOLEAN : reports' = Append(reports, <<accepted, success>>)
        BY <3>1, <3>4
      <4> QED
        BY <3>2, <4>1
    <3> QED
      BY <3>3, <3>4
  <2>6. size' = size \/ size' = 0
    BY <1>6, DoWriteEffect
  <2>7. size' \in 0..MaxFrames /\ (sending_message' => accepted' > 0)
    BY <1>0, <2>1, <2>2, <2>6 DEF Messages
  <2> QED
    BY <1>1, <1>2, <2>1, <2>4, <2>5, <2>7 DEF Sound
<1>7. CASE Fades
  BY <1>1, <1>2, <1>7 DEF Fades, sendVars, Sound
<1> QED
  BY <1>3, <1>4, <1>5, <1>6, <1>7, NextChanges

\* The loop's list and the walk over it stay within the watchers, the handler's
\* callback is where its code has a place, a message being sent has frames left,
\* and what is written and reported is of messages that were accepted.
THEOREM HandlerTypeCorrect == Spec => []TypeOK
<1> DEFINE Types == LoopTypes /\ Where /\ SendTypes /\ ClientTypes /\ HandlerTypes
<1>1. Types => TypeOK
  <2> SUFFICES ASSUME Types PROVE TypeOK
    OBVIOUS
  <2>1. MaxFrames \in Nat
    BY HandlerAssumption DEF HandlerAssumption
  <2>2. written \in 0..MaxFrames /\ (sending_message => written < size)
    BY <2>1 DEF SendTypes, HandlerTypes
  <2> QED
    BY <2>2 DEF TypeOK, LoopTypes, Where, SendTypes, ClientTypes, HandlerTypes
<1>2. Types /\ [Next]_vars => Types'
  <2> SUFFICES ASSUME Types, [Next]_vars PROVE Types'
    OBVIOUS
  <2> QED
    BY NextLoopTypes, NextWhere, NextSendTypes, NextClient, NextHandlerTypes
<1>3. Init => Types
  BY InitLoopTypes, InitWhere, InitSendTypes, InitClient, InitHandlerTypes
<1> QED
  BY <1>1, <1>2, <1>3, PTL DEF Spec
=============================================================================
