---------------------------- MODULE WsClientProofs ----------------------------
(***************************************************************************)
(* Proofs about WsClient, for every set of headers the peer may send, every *)
(* number of over-read bytes, buffers and points where the transport may be *)
(* lost, and any number of connections and frames.  Those about the stream   *)
(* of bytes are for a client that is not opened again once it has read over *)
(* (Careful): for others they do not hold.                                  *)
(***************************************************************************)
EXTENDS WsClientProperties, SequenceTheorems, TLAPS

-----------------------------------------------------------------------------
(* The handshake and the connection                                         *)

\* Until an error is noted the context tells exactly which headers came.
ContextTells ==
  /\ seen \in [Keys -> Nat] /\ ctx \in [Keys \cup {"error"} -> BOOLEAN]
  /\ spoilt \in BOOLEAN
  /\ ~ctx["error"] =>
       /\ ~spoilt
       /\ \A k \in Keys : seen[k] = IF ctx[k] THEN 1 ELSE 0
       /\ ctx["protocol"] => request_subprotocols

\* While the client opens it is closed; a sound one has a transport, and no frame
\* that may be followed by another was written in part.
LifeCycle ==
  /\ opening => state = "CLOSED" /\ ~transport
  /\ state = "OK" => transport
  /\ WholeFramesWritten

ConnectionInv == ContextTells /\ LifeCycle

LEMMA FreshContext ==
  ASSUME ForgetHandshake PROVE ContextTells'
<1>1. /\ ctx' = [k \in Keys \cup {"error"} |-> FALSE]
      /\ seen' = [k \in Keys |-> 0]
      /\ spoilt' = FALSE
  BY DEF ForgetHandshake, NoContext
<1>2. /\ \A k \in Keys : seen'[k] = 0 /\ ctx'[k] = FALSE
      /\ ctx'["protocol"] = FALSE
  BY <1>1 DEF Keys
<1> QED
  BY <1>1, <1>2 DEF ContextTells

LEMMA InitConnection == Init => ConnectionInv
<1> SUFFICES ASSUME Init PROVE ConnectionInv
  OBVIOUS
<1>1. /\ ctx = [k \in Keys \cup {"error"} |-> FALSE]
      /\ seen = [k \in Keys |-> 0]
      /\ spoilt = FALSE
  BY DEF Init, NoContext
<1>2. /\ \A k \in Keys : seen[k] = 0 /\ ctx[k] = FALSE
      /\ ctx["protocol"] = FALSE
  BY <1>1 DEF Keys
<1>3. ContextTells
  BY <1>1, <1>2 DEF ContextTells
<1>4. LifeCycle
  BY DEF Init, LifeCycle, WholeFramesWritten
<1> QED
  BY <1>3, <1>4 DEF ConnectionInv

LEMMA HeaderContext ==
  ASSUME ContextTells, NEW key \in Keys, NEW good \in BOOLEAN, HttpHeader(key, good)
  PROVE  ContextTells'
<1> DEFINE noted == IF Unwelcome(key, good) THEN "error" ELSE key
<1>1. /\ ctx' = IF ctx["error"] THEN ctx ELSE [ctx EXCEPT ![noted] = TRUE]
      /\ seen' = [seen EXCEPT ![key] = @ + 1]
      /\ spoilt' = (spoilt \/ ~good)
      /\ request_subprotocols' = request_subprotocols
  BY DEF HttpHeader
<1>2. /\ seen \in [Keys -> Nat] /\ ctx \in [Keys \cup {"error"} -> BOOLEAN]
      /\ spoilt \in BOOLEAN
  BY DEF ContextTells
<1>3. noted \in Keys \cup {"error"} /\ "error" \notin Keys
  BY DEF Keys
<1>4. seen' \in [Keys -> Nat] /\ ctx' \in [Keys \cup {"error"} -> BOOLEAN] /\ spoilt' \in BOOLEAN
  <2> HIDE DEF noted
  <2> QED
    BY <1>1, <1>2, <1>3
<1>5. ASSUME ~ctx'["error"]
      PROVE  /\ ~spoilt'
             /\ \A k \in Keys : seen'[k] = IF ctx'[k] THEN 1 ELSE 0
             /\ ctx'["protocol"] => request_subprotocols'
  <2>1. ~ctx["error"] /\ ctx' = [ctx EXCEPT ![noted] = TRUE]
    BY <1>1, <1>5
  <2>2. noted # "error"
    <3> HIDE DEF noted
    <3> QED
      BY <1>2, <1>3, <1>5, <2>1
  <2>3. noted = key /\ ~Unwelcome(key, good)
    BY <2>2
  <2>4. ~ctx[key] /\ good /\ (key = "protocol" => request_subprotocols)
    BY <2>3 DEF Unwelcome
  <2>5. /\ ~spoilt
        /\ \A k \in Keys : seen[k] = IF ctx[k] THEN 1 ELSE 0
        /\ ctx["protocol"] => request_subprotocols
    BY <2>1 DEF ContextTells
  <2>6. ctx' = [ctx EXCEPT ![key] = TRUE]
    BY <2>1, <2>3
  <2> HIDE DEF noted
  <2>0. seen' = [seen EXCEPT ![key] = @ + 1]
    BY <1>1
  <2>7. ASSUME NEW k \in Keys PROVE seen'[k] = IF ctx'[k] THEN 1 ELSE 0
    <3>1. seen'[key] = seen[key] + 1 /\ ctx'[key] = TRUE
      BY <1>2, <2>6, <2>0
    <3>2. seen[key] = 0
      BY <2>4, <2>5
    <3>3. k # key => seen'[k] = seen[k] /\ ctx'[k] = ctx[k]
      BY <1>2, <2>6, <2>0
    <3> QED
      BY <2>5, <3>1, <3>2, <3>3
  <2>8. ctx'["protocol"] => request_subprotocols'
    BY <1>1, <1>2, <2>4, <2>5, <2>6 DEF Keys
  <2>9. ~spoilt'
    BY <1>1, <2>4, <2>5
  <2> QED
    BY <2>7, <2>8, <2>9
<1> QED
  BY <1>4, <1>5 DEF ContextTells

LEMMA NextConnection == ConnectionInv /\ [Next]_vars => ConnectionInv'
<1> SUFFICES ASSUME ConnectionInv, [Next]_vars PROVE ConnectionInv'
  OBVIOUS
<1> USE DEF ConnectionInv
<1>0. ASSUME UNCHANGED <<handshakeVars, request_subprotocols>> PROVE ContextTells'
  BY <1>0 DEF ContextTells, handshakeVars
<1>1. CASE OpenStarts
  <2>1. ContextTells'
    BY <1>1, FreshContext DEF OpenStarts
  <2>2. LifeCycle'
    BY <1>1 DEF OpenStarts, LifeCycle, WholeFramesWritten, can_write
  <2> QED
    BY <2>1, <2>2
<1>2. ASSUME NEW key \in Keys, NEW good \in BOOLEAN, HttpHeader(key, good) PROVE ConnectionInv'
  <2>1. ContextTells'
    BY <1>2, HeaderContext
  <2>2. LifeCycle'
    BY <1>2 DEF HttpHeader, LifeCycle, WholeFramesWritten, can_write
  <2> QED
    BY <2>1, <2>2
<1>3. CASE HttpDisconnected
  <2>1. ContextTells'
    BY <1>3 DEF HttpDisconnected, ContextTells
  <2>2. LifeCycle'
    BY <1>3 DEF HttpDisconnected, LifeCycle, WholeFramesWritten, can_write
  <2> QED
    BY <2>1, <2>2
<1>4. CASE OpenFails
  <2>1. ContextTells'
    BY <1>4, FreshContext DEF OpenFails
  <2>2. LifeCycle'
    BY <1>4 DEF OpenFails, LifeCycle, WholeFramesWritten, can_write
  <2> QED
    BY <2>1, <2>2
<1>5. ASSUME NEW n \in Overreads, NEW extracted \in BOOLEAN, OpenEnds(n, extracted)
      PROVE  ConnectionInv'
  <2>1. ContextTells'
    BY <1>5, FreshContext DEF OpenEnds
  <2>2. LifeCycle'
    BY <1>5 DEF OpenEnds, LifeCycle, WholeFramesWritten, can_write
  <2> QED
    BY <2>1, <2>2
<1>6. CASE Read
  <2>1. /\ UNCHANGED <<handshakeVars, request_subprotocols, transport, torn>>
        /\ ~opening /\ transport /\ state = "OK"
        /\ state' \in {"OK", "FAILED", "FAILED_NO_CLOSE"}
    BY <1>6 DEF Read, ReadFrame, Idle, can_read
  <2>2. LifeCycle'
    BY <2>1 DEF LifeCycle, WholeFramesWritten, can_write, handshakeVars
  <2> QED
    BY <1>0, <2>1, <2>2
<1>7. CASE Write
  <2>1. /\ UNCHANGED <<handshakeVars, request_subprotocols, transport>>
        /\ ~opening /\ transport
        /\ (state' = state /\ torn' = torn) \/ state' = "FAILED_NO_CLOSE"
    BY <1>7 DEF Write, WriteFrame, WriteCloseFrame, Answer, FailsForGood, Idle
  <2>2. LifeCycle'
    BY <2>1 DEF LifeCycle, WholeFramesWritten, can_write, handshakeVars
  <2> QED
    BY <1>0, <2>1, <2>2
<1>8. CASE PollWriteFails
  BY <1>0, <1>8 DEF PollWriteFails, Idle, LifeCycle, WholeFramesWritten, can_write, handshakeVars
<1>9. CASE Close
  BY <1>0, <1>9 DEF Close, ForgetConnection, Idle, LifeCycle, WholeFramesWritten, can_write,
                    handshakeVars
<1>10. CASE Cleanup
  BY <1>0, <1>10 DEF Cleanup, ForgetConnection, Idle, LifeCycle, WholeFramesWritten, can_write,
                     handshakeVars
<1>11. CASE UNCHANGED vars
  BY <1>0, <1>11 DEF vars, LifeCycle, WholeFramesWritten, can_write, handshakeVars
<1> QED
  BY <1>1, <1>2, <1>3, <1>4, <1>5, <1>6, <1>7, <1>8, <1>9, <1>10, <1>11 DEF Next

\* The connection carries whole frames: after a write that failed half way nothing
\* more is written on it.
THEOREM WholeFramesWrittenAlways == Spec => []WholeFramesWritten
<1>1. ConnectionInv => WholeFramesWritten
  BY DEF ConnectionInv, LifeCycle
<1> QED
  BY <1>1, InitConnection, NextConnection, PTL DEF Spec

\* The client opens on a proper handshake only, however many headers came and in
\* whatever order.
THEOREM OnlyProperHandshakeAlways == Spec => OnlyProperHandshake
<1> DEFINE Proper ==
      /\ \A k \in {"upgrade", "connection", "accept"} : seen[k] = 1
      /\ ~spoilt
      /\ seen["protocol"] <= 1 /\ (seen["protocol"] = 1 => request_subprotocols)
      /\ response_subprotocols' <=> seen["protocol"] = 1
<1>1. ConnectionInv /\ [Next]_vars => [state # "OK" /\ state' = "OK" => Proper]_vars
  <2> SUFFICES ASSUME ConnectionInv, Next, state # "OK", state' = "OK" PROVE Proper
    BY DEF vars
  <2>1. PICK n \in Overreads, extracted \in BOOLEAN : OpenEnds(n, extracted)
    <3>1. ~Read /\ ~PollWriteFails /\ ~Close /\ ~Cleanup
      BY DEF Read, can_read, PollWriteFails, Close, Cleanup
    <3>2. ~Write
      BY DEF Write, WriteFrame, WriteCloseFrame, Answer, FailsForGood
    <3>3. ~OpenStarts /\ ~OpenFails /\ ~HttpDisconnected
      BY DEF OpenStarts, OpenFails, HttpDisconnected
    <3>4. \A key \in Keys, good \in BOOLEAN : ~HttpHeader(key, good)
      BY DEF HttpHeader
    <3> QED
      BY <3>1, <3>2, <3>3, <3>4 DEF Next
  <2>2. Handshaken /\ response_subprotocols' = ctx["protocol"]
    BY <2>1 DEF OpenEnds
  <2>3. /\ ~spoilt
        /\ \A k \in Keys : seen[k] = IF ctx[k] THEN 1 ELSE 0
        /\ ctx["protocol"] => request_subprotocols
        /\ ctx["protocol"] \in BOOLEAN
    BY <2>2 DEF ConnectionInv, ContextTells, Handshaken, Keys
  <2>4. seen["upgrade"] = 1 /\ seen["connection"] = 1 /\ seen["accept"] = 1
    BY <2>2, <2>3 DEF Handshaken, Keys
  <2>5. seen["protocol"] = IF ctx["protocol"] THEN 1 ELSE 0
    BY <2>3 DEF Keys
  <2>6. \A k \in {"upgrade", "connection", "accept"} : seen[k] = 1
    BY <2>4
  <2>7. seen["protocol"] <= 1 /\ (seen["protocol"] = 1 => request_subprotocols)
    BY <2>3, <2>5
  <2>8. response_subprotocols' <=> seen["protocol"] = 1
    BY <2>2, <2>3, <2>5
  <2> QED
    BY <2>3, <2>6, <2>7, <2>8
<1> QED
  BY <1>1, InitConnection, NextConnection, PTL DEF Spec, OnlyProperHandshake

-----------------------------------------------------------------------------
(* The abstract connection                                                  *)

LEMMA StepConnection ==
  ConnectionInv /\ [Next]_vars
  => [Connection!Next]_<<IF state = "FREED" THEN "CLOSED" ELSE state, received, sent>>
<1> SUFFICES ASSUME ConnectionInv, [Next]_vars
             PROVE  [Connection!Next]_<<IF state = "FREED" THEN "CLOSED" ELSE state, received, sent>>
  OBVIOUS
<1> USE DEF Connection!Next
<1>1. ASSUME UNCHANGED <<state, received, sent>>
      PROVE  UNCHANGED <<IF state = "FREED" THEN "CLOSED" ELSE state, received, sent>>
  BY <1>1
<1>2. CASE OpenStarts \/ HttpDisconnected \/ OpenFails
           \/ (\E key \in Keys, good \in BOOLEAN : HttpHeader(key, good)) \/ UNCHANGED vars
  BY <1>1, <1>2 DEF OpenStarts, HttpDisconnected, OpenFails, HttpHeader, vars
<1>3. ASSUME NEW n \in Overreads, NEW extracted \in BOOLEAN, OpenEnds(n, extracted)
      PROVE  Connection!Open \/ UNCHANGED <<state, received, sent>>
  BY <1>3 DEF OpenEnds, ConnectionInv, LifeCycle, Connection!Open
<1>4. CASE Read
  <2>1. state = "OK" /\ sent' = sent
    BY <1>4 DEF Read, ReadFrame, can_read
  <2>2. \/ state' = "OK" /\ received' = received + 1
        \/ state' \in {"FAILED", "FAILED_NO_CLOSE"} /\ received' = received
    BY <1>4 DEF Read, ReadFrame, can_read
  <2> QED
    BY <2>1, <2>2 DEF Connection!Receive, Connection!Fail, Connection!MaySend
<1>5. CASE Write
  <2>1. state \in {"OK", "FAILED"} /\ received' = received
    BY <1>5 DEF Write, WriteFrame, WriteCloseFrame, Answer, can_write
  <2>2. (sent' = sent + 1 /\ state' = state) \/ (state' = "FAILED_NO_CLOSE" /\ sent' = sent)
    BY <1>5 DEF Write, WriteFrame, WriteCloseFrame, Answer, FailsForGood
  <2> QED
    BY <2>1, <2>2 DEF Connection!Send, Connection!Fail, Connection!MaySend
<1>6. CASE PollWriteFails
  BY <1>6 DEF PollWriteFails, can_write, Connection!Fail, Connection!MaySend
<1>7. CASE Close \/ Cleanup
  BY <1>7 DEF Close, Cleanup, Connection!Close
<1> QED
  BY <1>1, <1>2, <1>3, <1>4, <1>5, <1>6, <1>7 DEF Next

\* The client is a connection that fails for good: nothing is received after a
\* failure, and nothing sent after one of the transport, before it is opened
\* anew.
THEOREM ImplementsConnectionAlways == Spec => ImplementsConnection
<1>1. Init => Connection!Init
  BY DEF Init, Connection!Init
<1> QED
  BY <1>1, InitConnection, NextConnection, StepConnection, PTL
     DEF Spec, ImplementsConnection, Connection!Spec

-----------------------------------------------------------------------------
(* The stream                                                               *)

\* A reader that is in place reads on at the byte after those it has read: in
\* what was read over until that is consumed, in the transport from then on.
InPlace(r) ==
  /\ r.consumed \in Nat /\ r.data \in BOOLEAN /\ r.taken \in Nat
  /\ IF r.data THEN r.consumed < overread_size /\ r.taken = overread_size
     ELSE r.consumed = overread_size /\ r.taken >= overread_size
Place(r) == IF r.data THEN r.consumed ELSE r.taken

\* A sound connection is in place after the last frame; without bytes read over
\* there is nothing to consume.
InPlaceIfSound ==
  state = "OK" =>
    /\ given = overread_size
    /\ InPlace(Reader(0)) /\ Place(Reader(0)) = frames_end

StreamInv ==
  /\ overread_size \in Nat /\ overread_data \in BOOLEAN
  /\ overread_size = 0 => overread_consumed = 0 /\ ~overread_data
  /\ opening => overread_size = 0
  /\ InPlaceIfSound

\* The bytes of a header are numbers, and so are its sizes.
LEMMA HeaderBytes ==
  ASSUME NEW h, NEW n \in Nat, Len(h) = n, \A i \in 1..Len(h) : h[i] \in Nat
  PROVE  \A i \in 1..n : h[i] \in Nat
OBVIOUS

LEMMA HeaderSizes ==
  ASSUME NEW h, \A i \in 1..Len(h) : h[i] \in Nat,
         Len(h) >= 2, Len(h) = 2 + Extended(h), Len(h) \in Nat
  PROVE  Extended(h) \in Nat /\ Size(h) \in Nat
<1>1. h[1] \in Nat /\ h[2] \in Nat
  OBVIOUS
<1>2. Extended(h) \in {0, 2, 8}
  BY DEF Extended
<1>3. CASE h[2] = 126
  <2>1. Len(h) = 4
    BY <1>3 DEF Extended
  <2>2. h[3] \in Nat /\ h[4] \in Nat
    <3> \A i \in 1..4 : h[i] \in Nat
      BY <2>1, HeaderBytes
    <3> QED
      OBVIOUS
  <2>3. h[3] * 256 + h[4] \in Nat
    BY <2>2
  <2>4. Size(h) = h[3] * 256 + h[4]
    BY <1>3 DEF Size
  <2> QED
    BY <1>2, <2>3, <2>4
<1>4. CASE h[2] = 127
  <2>1. Len(h) = 10
    BY <1>4 DEF Extended
  <2>2. h[7] \in Nat /\ h[8] \in Nat /\ h[9] \in Nat /\ h[10] \in Nat
    <3> \A i \in 1..10 : h[i] \in Nat
      BY <2>1, HeaderBytes
    <3> QED
      OBVIOUS
  <2> DEFINE Shifted(a, b) == a * 256 + b
  <2>3. \A a, b \in Nat : Shifted(a, b) \in Nat
    OBVIOUS
  <2> HIDE DEF Shifted
  <2>4. Size(h) = Shifted(Shifted(Shifted(h[7], h[8]), h[9]), h[10])
    BY <1>4 DEF Size, Shifted
  <2>5. Shifted(h[7], h[8]) \in Nat
    BY <2>2, <2>3
  <2>6. Shifted(Shifted(h[7], h[8]), h[9]) \in Nat
    BY <2>2, <2>3, <2>5
  <2>7. Size(h) \in Nat
    BY <2>2, <2>3, <2>4, <2>6
  <2> QED
    BY <1>2, <2>7
<1>5. CASE h[2] # 126 /\ h[2] # 127
  BY <1>1, <1>2, <1>5 DEF Size
<1> QED
  BY <1>3, <1>4, <1>5

\* read_data() that gets all it asks for leaves the reader in place, wherever the
\* bytes read over end.
LEMMA ReadsOn ==
  ASSUME NEW r, NEW n \in Nat, overread_size \in Nat, InPlace(r), read_data(r, n).ok
  PROVE  InPlace(read_data(r, n)) /\ Place(read_data(r, n)) = Place(r) + n
<1> DEFINE over == FromOverread(r, n)
           q == read_data(r, n)
<1>1. /\ q.consumed = r.consumed + over
      /\ q.data \in BOOLEAN /\ (q.data <=> r.data /\ r.consumed + over # overread_size)
      /\ q.taken = r.taken + Least(n, r.left) - over
      /\ Least(n, r.left) = n
  BY DEF read_data
<1>2. /\ r.consumed \in Nat /\ r.data \in BOOLEAN /\ r.taken \in Nat
  BY DEF InPlace
<1>3. over = IF r.data THEN (IF n <= overread_size - r.consumed THEN n ELSE overread_size - r.consumed)
             ELSE 0
  BY DEF FromOverread, Least
<1> HIDE DEF over, q
<1>4. CASE r.data
  <2>1. r.consumed < overread_size /\ r.taken = overread_size
    BY <1>4 DEF InPlace
  <2>2. CASE n < overread_size - r.consumed
    <3>1. over = n /\ q.data /\ q.consumed = r.consumed + n /\ q.taken = r.taken
      BY <1>1, <1>2, <1>3, <1>4, <2>1, <2>2
    <3> QED
      BY <1>2, <1>4, <2>1, <2>2, <3>1 DEF InPlace, Place, q
  <2>3. CASE n >= overread_size - r.consumed
    <3>1. over = overread_size - r.consumed
      BY <1>2, <1>3, <1>4, <2>1, <2>3
    <3>2. ~q.data /\ q.consumed = overread_size
          /\ q.taken = r.taken + n - (overread_size - r.consumed)
      BY <1>1, <1>2, <2>1, <3>1
    <3> QED
      BY <1>1, <1>2, <1>4, <2>1, <2>3, <3>2 DEF InPlace, Place, q
  <2> QED
    BY <1>2, <2>2, <2>3
<1>5. CASE ~r.data
  <2>1. over = 0 /\ ~q.data /\ q.consumed = r.consumed /\ q.taken = r.taken + n
    BY <1>1, <1>2, <1>3, <1>5
  <2> QED
    BY <1>1, <1>2, <1>5, <2>1 DEF InPlace, Place, q
<1> QED
  BY <1>4, <1>5 DEF q

\* Nothing that was not there is consumed.
LEMMA ReadsNothingOver ==
  ASSUME NEW r, NEW n, ~r.data, r.consumed \in Nat
  PROVE  ~read_data(r, n).data /\ read_data(r, n).consumed = r.consumed
<1>1. FromOverread(r, n) = 0
  BY DEF FromOverread
<1>2. read_data(r, n).consumed = r.consumed + 0
  BY <1>1 DEF read_data
<1>3. ~read_data(r, n).data
  BY DEF read_data
<1> QED
  BY <1>2, <1>3

LEMMA PeerHeaderSizes ==
  ASSUME NEW h \in PeerHeaders
  PROVE  Extended(h) \in Nat /\ Size(h) \in Nat
<1> DEFINE Bytes == 0..255
<1>1. Bytes \subseteq Nat
  OBVIOUS
<1>2. h \in Seq(Bytes) /\ Len(h) >= 2 /\ Len(h) = 2 + Extended(h)
  BY ClientAssumption, SMT DEF ClientAssumption
<1> HIDE DEF Bytes
<1>3. Len(h) \in Nat
  BY <1>2
<1>4. ASSUME NEW i \in 1..Len(h) PROVE h[i] \in Nat
  <2>1. h[i] \in Bytes
    BY <1>2, ElementOfSeq
  <2> QED
    BY <1>1, <2>1
<1> QED
  BY <1>2, <1>3, <1>4, HeaderSizes

LEMMA ReadStream ==
  ASSUME StreamInv, NEW h \in PeerHeaders, NEW buffer \in Buffers, NEW arriving,
         Read, ReadFrame(h, buffer, arriving)
  PROVE  StreamInv'
<1>1. Extended(h) \in Nat /\ Size(h) \in Nat
  BY PeerHeaderSizes
<1> DEFINE start == Reader(arriving)
           flags == read_data(start, 2)
           header == read_data(flags, Extended(h))
           unreadable == ~flags.ok \/ Masked(h) \/ ~header.ok \/ Unreadable(h, buffer)
           r == IF ~flags.ok \/ Masked(h) THEN flags
                ELSE IF unreadable THEN header ELSE read_data(header, Size(h))
           ok == (~unreadable /\ r.ok) /\ ~Improper(h)
<1>2. /\ overread_consumed' = r.consumed /\ overread_data' = r.data /\ taken' = r.taken
      /\ state' = "OK" => ok
      /\ ok => frames_end' = frames_end + Whole(h)
      /\ overread_size' = overread_size /\ given' = given /\ opening' = opening
  <2>1. /\ overread_consumed' = r.consumed /\ overread_data' = r.data /\ taken' = r.taken
        /\ state' = IF ok THEN state ELSE IF ~unreadable /\ r.ok THEN "FAILED" ELSE "FAILED_NO_CLOSE"
        /\ frames_end' = IF ok THEN frames_end + Whole(h) ELSE frames_end
        /\ UNCHANGED <<overread_size, handshakeVars, given>>
    BY DEF ReadFrame
  <2> HIDE DEF ok, r, unreadable
  <2> QED
    BY <2>1 DEF handshakeVars
<1>3. /\ overread_size \in Nat /\ overread_data \in BOOLEAN /\ ~opening
      /\ given = overread_size /\ InPlace(start) /\ Place(start) = frames_end
      /\ start.consumed = overread_consumed /\ start.data = overread_data
  <2>1. /\ overread_size \in Nat /\ overread_data \in BOOLEAN /\ ~opening /\ given = overread_size
        /\ InPlace(Reader(0)) /\ Place(Reader(0)) = frames_end
    BY DEF InPlaceIfSound, StreamInv, Read, can_read, Idle
  <2>2. /\ start.consumed = overread_consumed /\ start.data = overread_data /\ start.taken = taken
        /\ Reader(0).consumed = overread_consumed /\ Reader(0).data = overread_data
        /\ Reader(0).taken = taken
    BY DEF Reader
  <2> HIDE DEF start
  <2> QED
    BY <2>1, <2>2 DEF InPlace, Place
<1>4. overread_data' \in BOOLEAN
  <2>1. flags.data \in BOOLEAN /\ header.data \in BOOLEAN /\ read_data(header, Size(h)).data \in BOOLEAN
    BY DEF read_data
  <2> QED
    BY <1>2, <2>1
<1>5. overread_size = 0 => overread_consumed' = 0 /\ ~overread_data'
  <2> SUFFICES ASSUME overread_size = 0 PROVE overread_consumed' = 0 /\ ~overread_data'
    OBVIOUS
  <2>1. start.consumed = 0 /\ ~start.data
    BY <1>3 DEF InPlaceIfSound, StreamInv
  <2> HIDE DEF start
  <2>2. flags.consumed = 0 /\ ~flags.data
    BY <2>1, ReadsNothingOver
  <2> HIDE DEF flags
  <2>3. header.consumed = 0 /\ ~header.data
    BY <2>2, ReadsNothingOver
  <2> HIDE DEF header
  <2>4. read_data(header, Size(h)).consumed = 0 /\ ~read_data(header, Size(h)).data
    BY <2>3, ReadsNothingOver
  <2> QED
    BY <1>2, <2>2, <2>3, <2>4
<1>6. ASSUME ok PROVE InPlace(r) /\ Place(r) = frames_end + Whole(h)
  <2>1. flags.ok /\ header.ok /\ ~Masked(h) /\ ~TooBig(h) /\ r.ok /\ r = read_data(header, Size(h))
    BY <1>6 DEF Unreadable
  <2>2. Whole(h) = 2 + Extended(h) + Size(h)
    BY <2>1 DEF Whole
  <2> HIDE DEF start, r
  <2>3. InPlace(flags) /\ Place(flags) = frames_end + 2
    BY <1>3, <2>1, ReadsOn
  <2> HIDE DEF flags
  <2>4. InPlace(header) /\ Place(header) = Place(flags) + Extended(h)
    BY <1>1, <1>3, <2>1, <2>3, ReadsOn
  <2> HIDE DEF header
  <2>5. InPlace(r) /\ Place(r) = Place(header) + Size(h)
    BY <1>1, <1>3, <2>1, <2>4, ReadsOn
  <2>6. frames_end \in Nat
    BY <1>3 DEF InPlace, Place
  <2> QED
    BY <1>1, <2>2, <2>3, <2>4, <2>5, <2>6
<1> HIDE DEF ok, r
<1>7. ASSUME state' = "OK"
      PROVE  InPlace(Reader(0))' /\ Place(Reader(0))' = frames_end'
  <2>1. InPlace(r) /\ Place(r) = frames_end'
    BY <1>2, <1>6, <1>7
  <2>2. /\ Reader(0).consumed' = r.consumed /\ Reader(0).data' = r.data
        /\ Reader(0).taken' = r.taken
    BY <1>2 DEF Reader
  <2> QED
    BY <1>2, <2>1, <2>2 DEF InPlace, Place
<1> QED
  BY <1>2, <1>3, <1>4, <1>5, <1>7 DEF InPlaceIfSound, StreamInv

LEMMA InitStream == Init => StreamInv
<1> SUFFICES ASSUME Init PROVE StreamInv
  OBVIOUS
<1>1. /\ overread_size = 0 /\ overread_consumed = 0 /\ overread_data = FALSE
      /\ opening = FALSE /\ state = "CLOSED"
  BY DEF Init
<1> QED
  BY <1>1 DEF StreamInv, InPlaceIfSound

LEMMA NextStream ==
  ASSUME Careful = TRUE, ConnectionInv, StreamInv, [Next]_vars
  PROVE  StreamInv'
<1>0. ASSUME UNCHANGED <<overreadVars, streamVars>>, state' = "OK" => state = "OK",
             opening' => opening \/ overread_size = 0
      PROVE  StreamInv'
  <2>1. Reader(0)' = Reader(0)
    BY <1>0 DEF Reader, overreadVars, streamVars
  <2> QED
    BY <1>0, <2>1 DEF InPlaceIfSound, StreamInv, InPlace, Place, overreadVars, streamVars
<1>1. CASE OpenStarts
  BY <1>0, <1>1 DEF OpenStarts, overreadVars, streamVars
<1>2. ASSUME NEW key \in Keys, NEW good \in BOOLEAN, HttpHeader(key, good) PROVE StreamInv'
  BY <1>0, <1>2 DEF HttpHeader
<1>3. CASE HttpDisconnected
  BY <1>0, <1>3 DEF HttpDisconnected
<1>4. CASE OpenFails
  BY <1>0, <1>4 DEF OpenFails
<1>5. ASSUME NEW n \in Overreads, NEW extracted \in BOOLEAN, OpenEnds(n, extracted)
      PROVE  StreamInv'
  <2>1. n \in Nat
    BY ClientAssumption, SMT DEF ClientAssumption
  <2>2. /\ overread_size = 0 /\ overread_consumed = 0 /\ overread_data = FALSE /\ state = "CLOSED"
    BY <1>5 DEF OpenEnds, StreamInv, ConnectionInv, LifeCycle
  <2>3. /\ overread_size' = n /\ overread_consumed' = 0 /\ ~opening'
        /\ overread_data' \in BOOLEAN /\ (overread_data' <=> n > 0)
    <3>1. /\ overread_size' = IF n > 0 THEN n ELSE overread_size
          /\ overread_data' = (overread_data \/ n > 0)
          /\ overread_consumed' = overread_consumed /\ opening' = FALSE
      BY <1>5 DEF OpenEnds
    <3>2. overread_size' = n
      BY <2>1, <2>2, <3>1
    <3> QED
      BY <2>2, <3>1, <3>2
  <2>4. state' = "OK" => given' = n /\ taken' = n /\ frames_end' = 0
    BY <1>5, <2>2 DEF OpenEnds
  <2>5. ASSUME state' = "OK" PROVE InPlace(Reader(0))' /\ Place(Reader(0))' = frames_end'
    <3>1. /\ Reader(0).consumed' = 0 /\ Reader(0).data' = overread_data'
          /\ Reader(0).taken' = n
      BY <2>3, <2>4, <2>5 DEF Reader
    <3> QED
      BY <2>1, <2>3, <2>4, <2>5, <3>1 DEF InPlace, Place
  <2>6. overread_size' = 0 => overread_consumed' = 0 /\ ~overread_data'
    BY <2>1, <2>3
  <2>7. overread_size' \in Nat /\ overread_data' \in BOOLEAN /\ (opening' => overread_size' = 0)
    BY <2>1, <2>3
  <2>8. InPlaceIfSound'
    BY <2>3, <2>4, <2>5 DEF InPlaceIfSound
  <2> QED
    BY <2>6, <2>7, <2>8 DEF StreamInv
<1>6. CASE Read
  <2>1. PICK h \in PeerHeaders, buffer \in Buffers :
          \E arriving \in Arriving(h) : ReadFrame(h, buffer, arriving)
    BY <1>6 DEF Read
  <2>2. PICK arriving \in Arriving(h) : ReadFrame(h, buffer, arriving)
    BY <2>1
  <2> QED
    BY <1>6, <2>2, ReadStream
<1>7. CASE Write
  <2>1. /\ UNCHANGED <<overreadVars, streamVars, handshakeVars>>
        /\ state' = state \/ state' = "FAILED_NO_CLOSE"
    BY <1>7 DEF Write, WriteFrame, WriteCloseFrame, Answer, FailsForGood
  <2> QED
    BY <1>0, <2>1 DEF handshakeVars
<1>8. CASE PollWriteFails
  BY <1>0, <1>8 DEF PollWriteFails, handshakeVars
<1>9. CASE Close
  <2>1. /\ state' = "CLOSED" /\ overread_data' = FALSE /\ overread_size' = overread_size
        /\ overread_consumed' = overread_consumed /\ opening' = opening
    BY <1>9 DEF Close, handshakeVars
  <2> QED
    BY <2>1 DEF StreamInv, InPlaceIfSound
<1>10. CASE Cleanup
  <2>1. /\ state' = "FREED" /\ opening' = opening /\ overread_data' = overread_data
        /\ overread_size' = overread_size /\ overread_consumed' = overread_consumed
    BY <1>10 DEF Cleanup, handshakeVars, overreadVars
  <2> QED
    BY <2>1 DEF StreamInv, InPlaceIfSound
<1>11. CASE UNCHANGED vars
  BY <1>0, <1>11 DEF vars, handshakeVars
<1> QED
  BY <1>1, <1>2, <1>3, <1>4, <1>5, <1>6, <1>7, <1>8, <1>9, <1>10, <1>11 DEF Next

\* For an application that does not reopen a client that once read over: reading
\* neither skips nor repeats a byte.
THEOREM ReadsAlignedAlways == ASSUME Careful = TRUE PROVE Spec => []ReadsAligned
<1>1. StreamInv => ReadsAligned
  <2> SUFFICES ASSUME StreamInv, state = "OK"
               PROVE  frames_end = IF overread_data
                                   THEN given - overread_size + overread_consumed ELSE taken
    BY DEF ReadsAligned
  <2>1. /\ given = overread_size /\ overread_size \in Nat
        /\ InPlace(Reader(0)) /\ Place(Reader(0)) = frames_end
    BY DEF InPlaceIfSound, StreamInv
  <2> QED
    BY <2>1 DEF InPlace, Place, Reader
<1> QED
  BY <1>1, InitConnection, NextConnection, InitStream, NextStream, PTL DEF Spec

\* Likewise: when the client says it has buffered nothing, select() sees all that
\* is still to be read.
THEOREM NothingHiddenAlways == ASSUME Careful = TRUE PROVE Spec => []NothingHidden
<1>1. StreamInv => NothingHidden
  <2> SUFFICES ASSUME StreamInv, select_fd, ~has_buffered_read_data
               PROVE  frames_end >= given /\ frames_end = taken
    BY DEF NothingHidden
  <2>1. state = "OK" /\ ~(overread_consumed < overread_size)
    BY DEF select_fd, has_buffered_read_data, can_read
  <2>2. /\ given = overread_size /\ overread_size \in Nat
        /\ InPlace(Reader(0)) /\ Place(Reader(0)) = frames_end
    BY <2>1 DEF InPlaceIfSound, StreamInv
  <2>3. ~overread_data
    BY <2>1, <2>2 DEF InPlace, Reader
  <2> QED
    BY <2>2, <2>3 DEF InPlace, Place, Reader
<1> QED
  BY <1>1, InitConnection, NextConnection, InitStream, NextStream, PTL DEF Spec

-----------------------------------------------------------------------------
(* Headers                                                                  *)

\* BigEndian() byte by byte.
LEMMA BigEndianBytes ==
  ASSUME NEW n \in Nat
  PROVE  /\ BigEndian(n, 2) = <<Byte(n, 1), Byte(n, 0)>>
         /\ BigEndian(n, 4) = <<Byte(n, 3), Byte(n, 2), Byte(n, 1), Byte(n, 0)>>
BY SMTT(30) DEF BigEndian, Byte

\* Sequences put together.
LEMMA Extend1 ==
  ASSUME NEW a, NEW b, NEW c
  PROVE  <<a>> \o <<b, c>> = <<a, b, c>>
<1> DEFINE S == {a, b, c}
<1>1. <<a>> \in Seq(S) /\ <<b, c>> \in Seq(S) /\ <<a, b, c>> \in Seq(S)
  OBVIOUS
<1> HIDE DEF S
<1>2. /\ <<a>> \o <<b, c>> \in Seq(S)
      /\ Len(<<a>> \o <<b, c>>) = 3
      /\ \A i \in 1..3 : (<<a>> \o <<b, c>>)[i] = <<a, b, c>>[i]
  BY <1>1, ConcatProperties, SMTT(30)
<1> QED
  BY <1>1, <1>2, SeqEqual

LEMMA Extend5 ==
  ASSUME NEW a, NEW b, NEW c, NEW d, NEW e, NEW z
  PROVE  <<a, z, z, z, z>> \o <<b, c, d, e>> = <<a, z, z, z, z, b, c, d, e>>
<1> DEFINE S == {a, b, c, d, e, z}
           s == <<a, z, z, z, z>>
           t == <<b, c, d, e>>
           u == <<a, z, z, z, z, b, c, d, e>>
<1>1. s \in Seq(S) /\ t \in Seq(S) /\ u \in Seq(S) /\ Len(s) = 5 /\ Len(t) = 4 /\ Len(u) = 9
  OBVIOUS
<1>2. /\ \A i \in 1..5 : u[i] = s[i]
      /\ \A i \in 6..9 : u[i] = t[i - 5]
  BY SMTT(30)
<1> HIDE DEF S, s, t, u
<1> DEFINE w == s \o t
<1>3. /\ w \in Seq(S)
      /\ Len(w) = Len(s) + Len(t)
      /\ \A i \in 1..(Len(s) + Len(t)) : w[i] = IF i <= Len(s) THEN s[i] ELSE t[i - Len(s)]
  BY <1>1, ConcatProperties, Zenon
<1> HIDE DEF w
<1>4. /\ Len(w) = 9
      /\ \A i \in 1..9 : w[i] = IF i <= 5 THEN s[i] ELSE t[i - 5]
  BY <1>1, <1>3
<1>5. \A i \in 1..9 : w[i] = u[i]
  BY <1>2, <1>4
<1>6. w = u
  BY <1>1, <1>3, <1>4, <1>5, SeqEqual
<1> QED
  BY <1>6 DEF s, t, u, w

\* write_frame_header() writes the encoding of the frame, whatever the size: it has
\* the limits of the three encodings where the standard has them.
LEMMA HeaderEncodes ==
  ASSUME NEW f, f.size \in Nat
  PROVE  write_frame_header(f.fin, f.opcode, f.size) = ClientEncoding(f)
<1> DEFINE n == f.size
           first == <<(IF f.fin THEN 128 ELSE 0) + f.opcode>>
           m2 == 128 + 126
           m8 == 128 + 127
           short == <<128 + n>>
           medium == <<m2, Byte(n, 1), Byte(n, 0)>>
           long == <<m8, 0, 0, 0, 0, Byte(n, 3), Byte(n, 2), Byte(n, 1), Byte(n, 0)>>
           written == IF n <= 125 THEN short ELSE IF n <= 65535 THEN medium ELSE long
           length2 == <<m2>> \o BigEndian(n, 2)
           length8 == <<m8, 0, 0, 0, 0>> \o BigEndian(n, 4)
           length == IF n < 126 THEN short ELSE IF n < 65536 THEN length2 ELSE length8
<1>1. write_frame_header(f.fin, f.opcode, n) = first \o written
  BY SMT DEF write_frame_header
<1>2. ClientEncoding(f) = first \o length
  BY SMT DEF ClientEncoding, Encoding, Length
<1>3. length2 = medium /\ length8 = long
  <2> DEFINE z == 0
  <2> HIDE DEF m2, m8, z
  <2>1. length2 = medium
    BY BigEndianBytes, Extend1, Zenon
  <2>2. <<m8, z, z, z, z>> \o BigEndian(n, 4)
          = <<m8, z, z, z, z, Byte(n, 3), Byte(n, 2), Byte(n, 1), Byte(n, 0)>>
    <3> DEFINE b3 == Byte(n, 3)
               b2 == Byte(n, 2)
               b1 == Byte(n, 1)
               b0 == Byte(n, 0)
               digits == BigEndian(n, 4)
    <3>1. digits = <<b3, b2, b1, b0>>
      BY BigEndianBytes
    <3> HIDE DEF b3, b2, b1, b0, digits
    <3>2. <<m8, z, z, z, z>> \o <<b3, b2, b1, b0>> = <<m8, z, z, z, z, b3, b2, b1, b0>>
      <4>1. \A e : <<m8, z, z, z, z>> \o <<b3, b2, b1, e>> = <<m8, z, z, z, z, b3, b2, b1, e>>
        BY Extend5
      <4> QED
        BY <4>1
    <3> QED
      BY <3>1, <3>2, Zenon DEF b3, b2, b1, b0, digits
  <2> QED
    BY <2>1, <2>2 DEF z
<1> HIDE DEF short, medium, long, length2, length8
<1>4. written = length
  BY <1>3, SMT
<1> HIDE DEF first, written, length
<1> QED
  BY <1>1, <1>2, <1>4, Zenon

-----------------------------------------------------------------------------
(* Types                                                                    *)

\* What was consumed was read over; bytes left to consume are still held.
OverreadTypes ==
  /\ overread_size \in Nat /\ overread_consumed \in 0..overread_size
  /\ overread_data \in BOOLEAN /\ (overread_data => overread_consumed < overread_size)

\* The conjuncts of TypeOK that no other invariant implies.
ClientTypes ==
  /\ state \in States \cup {"FREED"} /\ transport \in BOOLEAN
  /\ request_subprotocols \in BOOLEAN /\ response_subprotocols \in BOOLEAN
  /\ opening \in BOOLEAN /\ opens \in 0..MaxOpens /\ torn \in BOOLEAN
  /\ seen \in [Keys -> 0..MaxHeaders]
  /\ given \in Nat /\ taken \in Nat /\ frames_end \in Nat
  /\ received \in 0..MaxReads /\ sent \in 0..MaxWrites

\* A reader of which total bytes of a frame are still to be read: it holds what it
\* has not consumed, and of these bytes at least those arrive.
Supplied(r, total) ==
  /\ r.consumed \in 0..overread_size /\ r.data \in BOOLEAN
  /\ r.data => r.consumed < overread_size
  /\ r.taken \in Nat /\ r.left \in Nat /\ r.left >= FromOverread(r, total)

LEMMA ReadsSupplied ==
  ASSUME NEW r, NEW n \in Nat, NEW total \in Nat, n <= total, overread_size \in Nat,
         Supplied(r, total)
  PROVE  Supplied(read_data(r, n), total - n)
<1> DEFINE over == FromOverread(r, n)
           got == Least(n, r.left)
           q == read_data(r, n)
           held == IF r.data THEN overread_size - r.consumed ELSE 0
           rest == FromOverread(q, total - n)
<1>1. /\ q.consumed = r.consumed + over /\ q.taken = r.taken + got - over /\ q.left = r.left - got
      /\ q.data \in BOOLEAN /\ (q.data <=> r.data /\ r.consumed + over # overread_size)
  BY DEF read_data
<1>2. /\ r.consumed \in Nat /\ r.consumed <= overread_size /\ r.data \in BOOLEAN
      /\ r.data => r.consumed < overread_size
      /\ r.taken \in Nat /\ r.left \in Nat /\ r.left >= FromOverread(r, total)
  BY DEF Supplied
<1>3. held \in Nat
  BY <1>2
<1>4. /\ over = Least(n, held) /\ r.left >= Least(total, held)
      /\ got = Least(n, r.left)
  BY <1>2, <1>3 DEF FromOverread, Least
<1>5. over \in Nat /\ over <= n /\ over <= held /\ got \in Nat /\ got <= r.left /\ over <= got
  BY <1>2, <1>3, <1>4 DEF Least
<1>6. q.data => held - over = overread_size - q.consumed /\ held - over > 0
  <2> SUFFICES ASSUME q.data PROVE held - over = overread_size - q.consumed /\ held - over > 0
    OBVIOUS
  <2>1. r.data /\ r.consumed + over # overread_size /\ q.consumed = r.consumed + over
    BY <1>1
  <2>2. held = overread_size - r.consumed
    BY <2>1
  <2> HIDE DEF over, q, held
  <2> QED
    BY <1>2, <1>5, <2>1, <2>2
<1>7. rest = IF q.data THEN Least(total - n, held - over) ELSE 0
  BY <1>6 DEF FromOverread
<1> HIDE DEF over, got, q, held, rest
<1>8. r.left - got >= Least(total - n, held - over)
  BY <1>2, <1>3, <1>4, <1>5 DEF Least
<1>9. q.left \in Nat /\ q.left >= rest
  BY <1>1, <1>2, <1>5, <1>7, <1>8
<1>10. q.consumed \in 0..overread_size /\ q.taken \in Nat
  <2>1. held <= overread_size - r.consumed
    BY <1>2 DEF held
  <2> QED
    BY <1>1, <1>2, <1>3, <1>5, <2>1
<1>11. q.data => q.consumed < overread_size
  BY <1>1, <1>2, <1>10
<1> QED
  BY <1>1, <1>9, <1>10, <1>11 DEF Supplied, q, rest

LEMMA ReadTypes ==
  ASSUME OverreadTypes, ClientTypes, NEW h \in PeerHeaders, NEW buffer \in Buffers,
         NEW arriving \in Arriving(h), Read, received < MaxReads, ReadFrame(h, buffer, arriving)
  PROVE  OverreadTypes' /\ ClientTypes'
<1>1. Extended(h) \in Nat /\ Size(h) \in Nat
  BY PeerHeaderSizes
<1>2. Whole(h) \in Nat
  BY <1>1 DEF Whole
<1> DEFINE start == Reader(arriving)
           flags == read_data(start, 2)
           header == read_data(flags, Extended(h))
           payload == read_data(header, Size(h))
           unreadable == ~flags.ok \/ Masked(h) \/ ~header.ok \/ Unreadable(h, buffer)
           r == IF ~flags.ok \/ Masked(h) THEN flags
                ELSE IF unreadable THEN header ELSE payload
           complete == ~unreadable /\ r.ok
           ok == complete /\ ~Improper(h)
<1>3. /\ overread_consumed' = r.consumed /\ overread_data' = r.data /\ taken' = r.taken
      /\ state' = IF ok THEN state ELSE IF complete THEN "FAILED" ELSE "FAILED_NO_CLOSE"
      /\ received' = IF ok THEN received + 1 ELSE received
      /\ frames_end' = IF ok THEN frames_end + Whole(h) ELSE frames_end
      /\ UNCHANGED <<transport, request_subprotocols, response_subprotocols, overread_size,
                     handshakeVars, given, sent, torn>>
  BY DEF ReadFrame
<1>4. overread_size \in Nat
  BY DEF OverreadTypes
<1>5. Supplied(start, Whole(h))
  <2>1. /\ start.consumed = overread_consumed /\ start.data = overread_data
        /\ start.taken = taken /\ start.left = arriving
    BY DEF Reader
  <2>2. /\ Reader(0).consumed = overread_consumed /\ Reader(0).data = overread_data
    BY DEF Reader
  <2>3. FromOverread(start, Whole(h)) = FromOverread(Reader(0), Whole(h))
    BY <2>1, <2>2 DEF FromOverread
  <2>4. FromOverread(Reader(0), Whole(h)) <= Whole(h)
    BY <1>2, <2>2 DEF FromOverread, Least, OverreadTypes
  <2>5. arriving \in Nat /\ arriving >= FromOverread(Reader(0), Whole(h))
    <3>1. CASE arriving = Whole(h)
      <4>1. FromOverread(Reader(0), Whole(h)) \in Int
        BY <1>2, <2>2 DEF FromOverread, Least, OverreadTypes
      <4> QED
        BY <1>2, <2>4, <3>1, <4>1
    <3>2. CASE arriving # Whole(h)
      <4>1. arriving \in CutPoints /\ arriving >= FromOverread(Reader(0), Whole(h))
        BY <3>2 DEF Arriving
      <4>2. CutPoints \subseteq Nat
        BY ClientAssumption, SMT DEF ClientAssumption
      <4> QED
        BY <4>1, <4>2
    <3> QED
      BY <3>1, <3>2
  <2> HIDE DEF start
  <2> QED
    BY <2>1, <2>3, <2>5 DEF Supplied, OverreadTypes, ClientTypes
<1>6. Supplied(flags, Whole(h) - 2)
  <2>1. 2 <= Whole(h)
    BY <1>1 DEF Whole
  <2> HIDE DEF start
  <2> QED
    BY <1>2, <1>4, <1>5, <2>1, ReadsSupplied
<1>7. Supplied(header, Whole(h) - 2 - Extended(h))
  <2>1. Whole(h) - 2 \in Nat /\ Extended(h) <= Whole(h) - 2
    BY <1>1 DEF Whole
  <2> HIDE DEF start, flags
  <2> QED
    BY <1>1, <1>4, <1>6, <2>1, ReadsSupplied
<1>8. ~unreadable => \E total \in Nat : Supplied(payload, total)
  <2> SUFFICES ASSUME ~unreadable PROVE \E total \in Nat : Supplied(payload, total)
    OBVIOUS
  <2>1. ~Masked(h) /\ ~TooBig(h)
    BY DEF Unreadable
  <2>2. Whole(h) - 2 - Extended(h) = Size(h)
    BY <1>1, <2>1 DEF Whole
  <2> HIDE DEF start, flags, header, unreadable
  <2>3. Supplied(payload, Size(h) - Size(h))
    BY <1>1, <1>4, <1>7, <2>2, ReadsSupplied
  <2> QED
    BY <1>1, <2>3
<1>9. \E total : Supplied(r, total)
  <2> HIDE DEF start, flags, header, payload, unreadable
  <2> QED
    BY <1>6, <1>7, <1>8
<1> HIDE DEF r, ok, complete, unreadable
<1>10. /\ r.consumed \in 0..overread_size /\ r.data \in BOOLEAN
       /\ r.data => r.consumed < overread_size
       /\ r.taken \in Nat
  BY <1>9 DEF Supplied
<1>11. OverreadTypes'
  BY <1>3, <1>4, <1>10 DEF OverreadTypes
<1>12. /\ state' \in States \cup {"FREED"} /\ taken' \in Nat /\ frames_end' \in Nat
       /\ received' \in 0..MaxReads
  <2>1. MaxReads \in Nat
    BY ClientAssumption, SMT DEF ClientAssumption
  <2> QED
    BY <1>2, <1>3, <1>10, <2>1 DEF ClientTypes, States
<1> QED
  BY <1>3, <1>11, <1>12 DEF ClientTypes, handshakeVars

LEMMA NextTypes ==
  ASSUME Careful = TRUE, ConnectionInv, StreamInv, OverreadTypes, ClientTypes, [Next]_vars
  PROVE  OverreadTypes' /\ ClientTypes'
<1>0. /\ MaxOpens \in Nat /\ MaxHeaders \in Nat /\ MaxReads \in Nat /\ MaxWrites \in Nat
      /\ Overreads \subseteq Nat
  BY ClientAssumption, SMT DEF ClientAssumption
<1>1. ASSUME UNCHANGED overreadVars PROVE OverreadTypes'
  BY <1>1 DEF OverreadTypes, overreadVars
<1>2. ASSUME UNCHANGED <<opens, seen>>, state' \in States \cup {"FREED"}, transport' \in BOOLEAN,
             UNCHANGED request_subprotocols, response_subprotocols' \in BOOLEAN,
             opening' \in BOOLEAN, torn' \in BOOLEAN,
             given' \in Nat, taken' \in Nat, frames_end' \in Nat,
             UNCHANGED received, sent' \in 0..MaxWrites
      PROVE  ClientTypes'
  BY <1>2 DEF ClientTypes
<1>3. ASSUME ForgetHandshake PROVE seen' \in [Keys -> 0..MaxHeaders]
  BY <1>0, <1>3 DEF ForgetHandshake
<1>4. CASE OpenStarts
  <2>1. opens' \in 0..MaxOpens
    BY <1>0, <1>4 DEF OpenStarts, ClientTypes
  <2> QED
    BY <1>1, <1>3, <1>4, <2>1 DEF OpenStarts, ClientTypes, streamVars
<1>5. ASSUME NEW key \in Keys, NEW good \in BOOLEAN, HttpHeader(key, good)
      PROVE  OverreadTypes' /\ ClientTypes'
  <2>1. seen' \in [Keys -> 0..MaxHeaders]
    <3>1. seen[key] + 1 \in 0..MaxHeaders
      BY <1>0, <1>5 DEF HttpHeader, ClientTypes
    <3> QED
      BY <1>5, <3>1 DEF HttpHeader, ClientTypes
  <2> QED
    BY <1>1, <1>5, <2>1 DEF HttpHeader, ClientTypes, streamVars
<1>6. CASE HttpDisconnected
  BY <1>1, <1>6 DEF HttpDisconnected, ClientTypes, streamVars
<1>7. CASE OpenFails
  BY <1>1, <1>3, <1>7 DEF OpenFails, ClientTypes, streamVars
<1>8. ASSUME NEW n \in Overreads, NEW extracted \in BOOLEAN, OpenEnds(n, extracted)
      PROVE  OverreadTypes' /\ ClientTypes'
  <2>1. n \in Nat
    BY <1>0
  <2>2. overread_size = 0 /\ overread_consumed = 0 /\ ~overread_data
    BY <1>8 DEF OpenEnds, StreamInv
  <2>3. /\ overread_size' = IF n > 0 THEN n ELSE overread_size
        /\ overread_data' = (overread_data \/ n > 0)
        /\ overread_consumed' = overread_consumed
    BY <1>8 DEF OpenEnds
  <2>4. overread_size' = n /\ overread_consumed' = 0
    BY <2>1, <2>2, <2>3
  <2>5. overread_data' \in BOOLEAN /\ (overread_data' => n > 0)
    BY <2>2, <2>3
  <2>6. OverreadTypes'
    BY <2>1, <2>4, <2>5 DEF OverreadTypes
  <2>7. response_subprotocols' \in BOOLEAN /\ seen' \in [Keys -> 0..MaxHeaders]
    BY <1>3, <1>8 DEF OpenEnds, ConnectionInv, ContextTells, Keys
  <2>8. /\ state' \in States \cup {"FREED"} /\ transport' \in BOOLEAN /\ torn' \in BOOLEAN
        /\ given' \in Nat /\ taken' \in Nat /\ frames_end' \in Nat
    <3>1. CASE extracted = TRUE
      <4>1. /\ transport' = TRUE /\ state' = "OK" /\ torn' = FALSE
            /\ given' = n /\ taken' = n /\ frames_end' = 0
        BY <1>8, <3>1 DEF OpenEnds
      <4> QED
        BY <2>1, <4>1 DEF States
    <3>2. CASE extracted = FALSE
      <4>1. UNCHANGED <<transport, state, streamVars, torn>>
        BY <1>8, <3>2 DEF OpenEnds
      <4> QED
        BY <4>1 DEF ClientTypes, streamVars
    <3> QED
      BY <3>1, <3>2
  <2> QED
    BY <1>8, <2>6, <2>7, <2>8 DEF OpenEnds, ClientTypes
<1>9. CASE Read
  <2>1. PICK h \in PeerHeaders, buffer \in Buffers :
          \E arriving \in Arriving(h) : ReadFrame(h, buffer, arriving)
    BY <1>9 DEF Read
  <2>2. PICK arriving \in Arriving(h) : ReadFrame(h, buffer, arriving)
    BY <2>1
  <2>3. received < MaxReads
    BY <1>9 DEF Read
  <2> QED
    BY <1>9, <2>2, <2>3, ReadTypes
<1>10. CASE Write
  <2>1. /\ (sent' = sent + 1 /\ UNCHANGED <<state, torn>>)
           \/ (torn' \in {torn, TRUE} /\ state' = "FAILED_NO_CLOSE" /\ UNCHANGED sent)
        /\ UNCHANGED <<transport, request_subprotocols, response_subprotocols, overreadVars,
                       handshakeVars, streamVars, received>>
        /\ sent < MaxWrites
    BY <1>10 DEF Write, WriteFrame, WriteCloseFrame, Answer, FailsForGood
  <2>2. sent' \in 0..MaxWrites /\ torn' \in BOOLEAN /\ state' \in States \cup {"FREED"}
    <3>1. sent \in 0..MaxWrites /\ torn \in BOOLEAN /\ state \in States \cup {"FREED"}
      BY DEF ClientTypes
    <3>2. CASE sent' = sent + 1 /\ UNCHANGED <<state, torn>>
      BY <1>0, <2>1, <3>1, <3>2
    <3>3. CASE torn' = torn /\ state' = "FAILED_NO_CLOSE" /\ UNCHANGED sent
      BY <3>1, <3>3 DEF States
    <3>4. CASE torn' = TRUE /\ state' = "FAILED_NO_CLOSE" /\ UNCHANGED sent
      BY <3>1, <3>4 DEF States
    <3> QED
      BY <2>1, <3>2, <3>3, <3>4
  <2> QED
    BY <1>1, <2>1, <2>2 DEF ClientTypes, handshakeVars, streamVars
<1>11. CASE PollWriteFails
  BY <1>1, <1>11 DEF PollWriteFails, ClientTypes, States, handshakeVars, streamVars
<1>12. CASE Close
  <2>1. OverreadTypes'
    BY <1>12 DEF Close, OverreadTypes
  <2> QED
    BY <1>12, <2>1 DEF Close, ForgetConnection, ClientTypes, States, handshakeVars
<1>13. CASE Cleanup
  BY <1>1, <1>13 DEF Cleanup, ForgetConnection, ClientTypes, States, handshakeVars
<1>14. CASE UNCHANGED vars
  BY <1>1, <1>14 DEF vars, ClientTypes, handshakeVars, streamVars
<1> QED
  BY <1>4, <1>5, <1>6, <1>7, <1>8, <1>9, <1>10, <1>11, <1>12, <1>13, <1>14 DEF Next

\* For an application that does not reopen a client that once read over: the client
\* never counts more bytes consumed than it read over, wherever in a frame these
\* end or the transport is lost.
THEOREM ClientTypeCorrect == ASSUME Careful = TRUE PROVE Spec => []TypeOK
<1> DEFINE Types == ConnectionInv /\ StreamInv /\ OverreadTypes /\ ClientTypes
<1>1. Types => TypeOK
  BY DEF TypeOK, ConnectionInv, ContextTells, OverreadTypes, ClientTypes
<1>2. Types /\ [Next]_vars => Types'
  BY NextConnection, NextStream, NextTypes
<1>3. Init => Types
  <2> SUFFICES ASSUME Init PROVE Types
    OBVIOUS
  <2>0. MaxOpens \in Nat /\ MaxHeaders \in Nat /\ MaxReads \in Nat /\ MaxWrites \in Nat
    BY ClientAssumption, SMT DEF ClientAssumption
  <2>1. OverreadTypes
    <3>1. /\ overread_size = 0 /\ overread_consumed = 0
          /\ overread_data \in BOOLEAN /\ ~overread_data
      BY DEF Init
    <3> QED
      BY <3>1 DEF OverreadTypes
  <2>2. ClientTypes
    <3>1. /\ state = "CLOSED" /\ transport \in BOOLEAN
          /\ request_subprotocols \in BOOLEAN /\ response_subprotocols \in BOOLEAN
          /\ opening \in BOOLEAN /\ opens = 0 /\ torn \in BOOLEAN
          /\ given = 0 /\ taken = 0 /\ frames_end = 0 /\ received = 0 /\ sent = 0
      BY DEF Init
    <3>2. seen \in [Keys -> 0..MaxHeaders]
      BY <2>0 DEF Init
    <3> QED
      BY <2>0, <3>1, <3>2 DEF ClientTypes, States
  <2> QED
    BY <2>1, <2>2, InitConnection, InitStream
<1> QED
  BY <1>1, <1>2, <1>3, PTL DEF Spec

-----------------------------------------------------------------------------
(* What is received                                                         *)

\* Numbers and their digits to the base 256.
Number2(n, b1, b0) ==
  /\ n \in Nat /\ n < 65536 /\ n = b1 * 256 + b0
  /\ b1 \in Nat /\ b1 < 256 /\ b0 \in Nat /\ b0 < 256

Number4(n, b3, b2, b1, b0) ==
  /\ n \in Nat /\ n <= LargestSize /\ n = ((b3 * 256 + b2) * 256 + b1) * 256 + b0
  /\ b3 \in Nat /\ b3 < 128 /\ b2 \in Nat /\ b2 < 256 /\ b1 \in Nat /\ b1 < 256
  /\ b0 \in Nat /\ b0 < 256

LEMMA TwoDigits ==
  ASSUME NEW n \in Nat, n < 65536
  PROVE  Number2(n, Byte(n, 1), Byte(n, 0))
<1> DEFINE q == n \div 256
           b0 == n % 256
<1>1. Byte(n, 1) = q % 256 /\ Byte(n, 0) = b0
  BY SMT DEF Byte
<1>2. q \in Nat /\ b0 \in Nat /\ b0 < 256 /\ n = q * 256 + b0
  BY SMT
<1> HIDE DEF q, b0
<1>3. q < 256 /\ q % 256 = q
  BY <1>2, SMT
<1> QED
  BY <1>1, <1>2, <1>3, SMT DEF Number2

LEMMA FourDigits ==
  ASSUME NEW n \in Nat, n <= LargestSize
  PROVE  Number4(n, Byte(n, 3), Byte(n, 2), Byte(n, 1), Byte(n, 0))
<1> DEFINE q1 == n \div 256
           q2 == q1 \div 256
           b3 == q2 \div 256
           b2 == q2 % 256
           b1 == q1 % 256
           b0 == n % 256
<1>1. q1 \in Nat /\ b0 \in Nat /\ b0 < 256 /\ n = q1 * 256 + b0
  BY SMT
<1> HIDE DEF q1, b0
<1>2. q2 \in Nat /\ b1 \in Nat /\ b1 < 256 /\ q1 = q2 * 256 + b1
  BY <1>1, SMT
<1> HIDE DEF q2, b1
<1>3. b3 \in Nat /\ b2 \in Nat /\ b2 < 256 /\ q2 = b3 * 256 + b2
  BY <1>2, SMT
<1> HIDE DEF b3, b2
<1>4. n = ((b3 * 256 + b2) * 256 + b1) * 256 + b0 /\ b3 < 128
  BY <1>1, <1>2, <1>3, SMT DEF LargestSize
<1>5. Byte(n, 3) = b3 /\ Byte(n, 2) = b2 /\ Byte(n, 1) = b1 /\ Byte(n, 0) = b0
  <2>1. b3 \in Nat /\ b2 \in Nat /\ b1 \in Nat /\ b0 \in Nat /\ b2 < 256 /\ b1 < 256 /\ b0 < 256
    BY <1>1, <1>2, <1>3
  <2>2. /\ (n \div 16777216) % 256 = b3 /\ (n \div 65536) % 256 = b2
        /\ (n \div 256) % 256 = b1 /\ n % 256 = b0
    BY <1>4, <2>1, SMT
  <2>3. /\ Byte(n, 3) = (n \div 16777216) % 256 /\ Byte(n, 2) = (n \div 65536) % 256
        /\ Byte(n, 1) = (n \div 256) % 256 /\ Byte(n, 0) = n % 256
    BY SMT DEF Byte
  <2> QED
    BY <2>2, <2>3, SMT
<1> QED
  BY <1>1, <1>2, <1>3, <1>4, <1>5, SMT DEF Number4

Value(b3, b2, b1, b0) == ((b3 * 256 + b2) * 256 + b1) * 256 + b0

LEMMA DigitsOfNumber ==
  ASSUME NEW b3 \in Nat, NEW b2 \in Nat, NEW b1 \in Nat, NEW b0 \in Nat,
         b3 < 128, b2 < 256, b1 < 256, b0 < 256
  PROVE  Number4(Value(b3, b2, b1, b0), b3, b2, b1, b0)
<1> DEFINE n == Value(b3, b2, b1, b0)
           high == b3 * 256 + b2
           low == b1 * 256 + b0
<1>1. high \in Nat /\ high <= 32767
  BY SMT
<1>2. low \in Nat /\ low <= 65535
  BY SMT
<1>3. n = high * 65536 + low
  BY SMT DEF Value
<1>5. n = ((b3 * 256 + b2) * 256 + b1) * 256 + b0
  BY DEF Value
<1> HIDE DEF n, high, low
<1>4. n \in Nat /\ n <= LargestSize
  BY <1>1, <1>2, <1>3, SMT DEF LargestSize
<1> QED
  BY <1>4, <1>5, SMT DEF Number4, n

LEMMA SameTwoDigits ==
  ASSUME NEW n, NEW a1, NEW a0, NEW b1, NEW b0, Number2(n, a1, a0), Number2(n, b1, b0)
  PROVE  a1 = b1 /\ a0 = b0
BY SMT DEF Number2

LEMMA SameFourDigits ==
  ASSUME NEW n, NEW a3, NEW a2, NEW a1, NEW a0, NEW b3, NEW b2, NEW b1, NEW b0,
         Number4(n, a3, a2, a1, a0), Number4(n, b3, b2, b1, b0)
  PROVE  a3 = b3 /\ a2 = b2 /\ a1 = b1 /\ a0 = b0
<1> DEFINE a == a3 * 256 + a2
           b == b3 * 256 + b2
<1>1. a \in Nat /\ b \in Nat /\ (a * 256 + a1) * 256 + a0 = (b * 256 + b1) * 256 + b0
  BY SMT DEF Number4
<1>2. /\ a0 \in Nat /\ a0 < 256 /\ b0 \in Nat /\ b0 < 256
      /\ a1 \in Nat /\ a1 < 256 /\ b1 \in Nat /\ b1 < 256
  BY SMT DEF Number4
<1> HIDE DEF a, b
<1>3. a0 = b0 /\ a1 = b1 /\ a = b
  BY <1>1, <1>2, SMT
<1> QED
  BY <1>3, SMT DEF Number4, a, b

LEMMA FirstByte ==
  ASSUME NEW b \in Nat, NEW t \in Seq(Nat)
  PROVE  /\ <<b>> \o t \in Seq(Nat) /\ Len(<<b>> \o t) = Len(t) + 1
         /\ (<<b>> \o t)[1] = b /\ \A i \in 1..Len(t) : (<<b>> \o t)[i + 1] = t[i]
<1>1. <<b>> \in Seq(Nat) /\ Len(<<b>>) = 1 /\ <<b>>[1] = b /\ Len(t) \in Nat
  OBVIOUS
<1> DEFINE s == <<b>>
           w == s \o t
<1> HIDE DEF s
<1>2. /\ w \in Seq(Nat) /\ Len(w) = Len(s) + Len(t)
      /\ \A i \in 1..(Len(s) + Len(t)) : w[i] = IF i <= Len(s) THEN s[i] ELSE t[i - Len(s)]
  BY <1>1, ConcatProperties DEF s
<1>3. Len(s) = 1 /\ s[1] = b
  BY <1>1 DEF s
<1> HIDE DEF w
<1>4. Len(w) = Len(t) + 1 /\ w[1] = b /\ \A i \in 1..Len(t) : w[i + 1] = t[i]
  BY <1>1, <1>2, <1>3
<1> QED
  BY <1>2, <1>4 DEF w, s

\* The first byte of a frame's header, and that a header has it and the size n.
FirstOf(f) == (IF f.fin THEN 128 ELSE 0) + f.opcode
Short(h, n) == n < 126 /\ Len(h) = 2 /\ h[2] = n
Medium(h, n) ==
  /\ 126 <= n /\ n < 65536
  /\ Len(h) = 4 /\ h[2] = 126 /\ Number2(n, h[3], h[4])
Wide(n) == 65536 <= n
Long(h, n) ==
  /\ Wide(n)
  /\ Len(h) = 10 /\ h[2] = 127 /\ h[3] = 0 /\ h[4] = 0 /\ h[5] = 0 /\ h[6] = 0
  /\ Number4(n, h[7], h[8], h[9], h[10])
Encodes(h, first, n) ==
  /\ h \in Seq(Nat) /\ h[1] = first
  /\ Short(h, n) \/ Medium(h, n) \/ Long(h, n)

\* The size tells which form the header has.
LEMMA FormOfSize ==
  ASSUME NEW n \in Nat, NEW h, NEW first, Encodes(h, first, n)
  PROVE  /\ n < 126 => Short(h, n)
         /\ 126 <= n /\ n < 65536 => Medium(h, n)
         /\ 65536 <= n => Long(h, n)
<1>1. Short(h, n) \/ Medium(h, n) \/ Long(h, n)
  BY DEF Encodes
<1>2. Short(h, n) => n < 126
  BY DEF Short
<1>3. Medium(h, n) => 126 <= n /\ n < 65536
  BY DEF Medium
<1>4. Long(h, n) => 65536 <= n
  BY DEF Long, Wide
<1> QED
  BY <1>1, <1>2, <1>3, <1>4, SMT

Coded(h, n) == n \in Nat /\ n <= LargestSize /\ Encodes(h, h[1], n)

LEMMA MediumEncodes ==
  ASSUME NEW n, NEW h \in Seq(Nat), 126 <= n, n < 65536,
         Len(h) = 4, h[2] = 126, Number2(n, h[3], h[4])
  PROVE  Coded(h, n)
<1>1. Medium(h, n)
  BY SMT DEF Medium
<1>2. Encodes(h, h[1], n)
  BY <1>1, SMT DEF Encodes
<1>3. n \in Nat /\ n <= LargestSize
  BY SMT DEF Number2, LargestSize
<1> QED
  BY <1>2, <1>3, SMT DEF Coded

LEMMA LongEncodes ==
  ASSUME NEW n, NEW h \in Seq(Nat), Long(h, n)
  PROVE  Coded(h, n)
<1>2. Encodes(h, h[1], n)
  BY SMT DEF Encodes
<1>3. n \in Nat /\ n <= LargestSize
  BY SMT DEF Number4, Long
<1> QED
  BY <1>2, <1>3, SMT DEF Coded

\* There is one such header.
LEMMA SameHeader ==
  ASSUME NEW e, NEW h, NEW first, NEW n \in Nat, Encodes(e, first, n), Encodes(h, first, n)
  PROVE  e = h
<1>0. e \in Seq(Nat) /\ h \in Seq(Nat) /\ e[1] = h[1]
  BY DEF Encodes
<1>1. CASE n < 126
  <2>1. Len(h) = 2 /\ Len(e) = 2 /\ e[2] = h[2]
    BY <1>1, FormOfSize DEF Short
  <2>2. \A i \in 1..2 : e[i] = h[i]
    BY <1>0, <2>1
  <2> QED
    BY <1>0, <2>1, <2>2, SeqEqual
<1>2. CASE 126 <= n /\ n < 65536
  <2>1. Len(h) = 4 /\ Len(e) = 4 /\ e[2] = h[2] /\ Number2(n, h[3], h[4]) /\ Number2(n, e[3], e[4])
    BY <1>2, FormOfSize DEF Medium
  <2>2. e[3] = h[3] /\ e[4] = h[4]
    BY <2>1, SameTwoDigits, Zenon
  <2>3. \A i \in 1..4 : e[i] = h[i]
    BY <1>0, <2>1, <2>2
  <2> QED
    BY <1>0, <2>1, <2>3, SeqEqual
<1>3. CASE 65536 <= n
  <2>1. /\ Len(h) = 10 /\ Len(e) = 10
        /\ e[2] = h[2] /\ e[3] = h[3] /\ e[4] = h[4] /\ e[5] = h[5] /\ e[6] = h[6]
        /\ Number4(n, h[7], h[8], h[9], h[10]) /\ Number4(n, e[7], e[8], e[9], e[10])
    <3>1. Long(h, n) /\ Long(e, n)
      BY <1>3, FormOfSize
    <3>2. /\ Len(h) = 10 /\ h[2] = 127 /\ h[3] = 0 /\ h[4] = 0 /\ h[5] = 0 /\ h[6] = 0
          /\ Number4(n, h[7], h[8], h[9], h[10])
      BY <3>1 DEF Long
    <3>3. /\ Len(e) = 10 /\ e[2] = 127 /\ e[3] = 0 /\ e[4] = 0 /\ e[5] = 0 /\ e[6] = 0
          /\ Number4(n, e[7], e[8], e[9], e[10])
      BY <3>1 DEF Long
    <3> QED
      BY <3>2, <3>3
  <2>2. e[7] = h[7] /\ e[8] = h[8] /\ e[9] = h[9] /\ e[10] = h[10]
    <3> DEFINE A(x) == Number4(n, x[7], x[8], x[9], x[10])
    <3>1. A(h) /\ A(e)
      BY <2>1
    <3> QED
      BY <3>1, SameFourDigits
  <2>3. \A i \in 1..10 : e[i] = h[i]
    BY <1>0, <2>1, <2>2
  <2> QED
    BY <1>0, <2>1, <2>3, SeqEqual
<1> QED
  BY <1>1, <1>2, <1>3, SMT

LEMMA EncodingShape ==
  ASSUME NEW f, f.size \in Nat, f.size <= LargestSize, f.opcode \in Nat, f.fin \in BOOLEAN
  PROVE  Encodes(ServerEncoding(f), FirstOf(f), f.size)
<1> DEFINE n == f.size
           h == ServerEncoding(f)
           b == FirstOf(f)
           m2 == 0 + 126
           m8 == 0 + 127
           z == 0
           medium == <<m2>> \o BigEndian(n, 2)
           long == <<m8, z, z, z, z>> \o BigEndian(n, 4)
           short == <<0 + n>>
           t == IF n < 126 THEN short ELSE IF n < 65536 THEN medium ELSE long
<1>1. h = <<b>> \o t
  BY SMT DEF ServerEncoding, Encoding, Length, FirstOf
<1>2. b \in Nat
  BY SMT DEF FirstOf
<1>3. medium = <<m2, Byte(n, 1), Byte(n, 0)>>
  <2> HIDE DEF m2
  <2> QED
    BY BigEndianBytes, Extend1, Zenon
<1>4. long = <<m8, z, z, z, z, Byte(n, 3), Byte(n, 2), Byte(n, 1), Byte(n, 0)>>
  <2> DEFINE b3 == Byte(n, 3)
             b2 == Byte(n, 2)
             b1 == Byte(n, 1)
             b0 == Byte(n, 0)
             digits == BigEndian(n, 4)
  <2>1. digits = <<b3, b2, b1, b0>>
    BY BigEndianBytes
  <2> HIDE DEF b3, b2, b1, b0, digits, m8, z
  <2>2. \A e : <<m8, z, z, z, z>> \o <<b3, b2, b1, e>> = <<m8, z, z, z, z, b3, b2, b1, e>>
    BY Extend5
  <2>3. <<m8, z, z, z, z>> \o <<b3, b2, b1, b0>> = <<m8, z, z, z, z, b3, b2, b1, b0>>
    BY <2>2
  <2> QED
    BY <2>1, <2>3, Zenon DEF b3, b2, b1, b0, digits
<1>5. m2 = 126 /\ m8 = 127 /\ z = 0 /\ 0 + n = n
  BY SMT
<1>12. n \in Nat /\ n <= LargestSize
  OBVIOUS
<1>9. short = <<n>>
  BY <1>5
<1> HIDE DEF n, h, b, m2, m8, z, short, medium, long
<1>10. /\ n < 126 => t = short
       /\ 126 <= n /\ n < 65536 => t = medium
       /\ 65536 <= n => t = long
  BY <1>12, SMT
<1> HIDE DEF t
<1>11. /\ t \in Seq(Nat) =>
            /\ h \in Seq(Nat) /\ Len(h) = Len(t) + 1 /\ h[1] = b
            /\ \A i \in 1..Len(t) : h[i + 1] = t[i]
  BY <1>1, <1>2, FirstByte
<1>6. ASSUME n < 126 PROVE Encodes(h, b, n)
  <2>1. t = <<n>>
    BY <1>6, <1>9, <1>10
  <2>2. t \in Seq(Nat) /\ Len(t) = 1 /\ t[1] = n
    BY <1>12, <2>1
  <2>3. h \in Seq(Nat) /\ h[1] = b /\ Len(h) = 2 /\ h[1 + 1] = t[1]
    BY <1>11, <2>2
  <2> QED
    BY <1>6, <2>2, <2>3 DEF Encodes, Short
<1>7. ASSUME 126 <= n, n < 65536 PROVE Encodes(h, b, n)
  <2>5. Number2(n, Byte(n, 1), Byte(n, 0))
    BY <1>7, <1>12, TwoDigits
  <2>0. Byte(n, 1) \in Nat /\ Byte(n, 0) \in Nat
    BY <2>5 DEF Number2
  <2>1. t = <<126, Byte(n, 1), Byte(n, 0)>>
    BY <1>3, <1>5, <1>7, <1>10
  <2>2. t \in Seq(Nat) /\ Len(t) = 3 /\ t[1] = 126 /\ t[2] = Byte(n, 1) /\ t[3] = Byte(n, 0)
    BY <2>0, <2>1, SMT
  <2>3. /\ h \in Seq(Nat) /\ h[1] = b /\ Len(h) = 4
        /\ \A i \in 1..3 : h[i + 1] = t[i]
    BY <1>11, <2>2
  <2>4. h[2] = t[1] /\ h[3] = t[2] /\ h[4] = t[3]
    <3>1. h[1 + 1] = t[1] /\ h[2 + 1] = t[2] /\ h[3 + 1] = t[3]
      BY <2>3
    <3> QED
      BY <3>1
  <2> QED
    BY <1>7, <2>2, <2>3, <2>4, <2>5 DEF Encodes, Medium
<1>8. ASSUME 65536 <= n PROVE Encodes(h, b, n)
  <2>5. Number4(n, Byte(n, 3), Byte(n, 2), Byte(n, 1), Byte(n, 0))
    BY <1>12, FourDigits
  <2>0. Byte(n, 3) \in Nat /\ Byte(n, 2) \in Nat /\ Byte(n, 1) \in Nat /\ Byte(n, 0) \in Nat
    BY <2>5 DEF Number4
  <2>1. t = <<127, 0, 0, 0, 0, Byte(n, 3), Byte(n, 2), Byte(n, 1), Byte(n, 0)>>
    BY <1>4, <1>5, <1>8, <1>10
  <2>2. /\ t \in Seq(Nat) /\ Len(t) = 9
        /\ t[1] = 127 /\ t[2] = 0 /\ t[3] = 0 /\ t[4] = 0 /\ t[5] = 0
        /\ t[6] = Byte(n, 3) /\ t[7] = Byte(n, 2) /\ t[8] = Byte(n, 1) /\ t[9] = Byte(n, 0)
    BY <2>0, <2>1, SMT
  <2>3. /\ h \in Seq(Nat) /\ h[1] = b /\ Len(h) = 10
        /\ \A i \in 1..9 : h[i + 1] = t[i]
    BY <1>11, <2>2
  <2>4. /\ h[2] = t[1] /\ h[3] = t[2] /\ h[4] = t[3] /\ h[5] = t[4] /\ h[6] = t[5]
        /\ h[7] = t[6] /\ h[8] = t[7] /\ h[9] = t[8] /\ h[10] = t[9]
    <3>1. /\ h[1 + 1] = t[1] /\ h[2 + 1] = t[2] /\ h[3 + 1] = t[3] /\ h[4 + 1] = t[4]
          /\ h[5 + 1] = t[5] /\ h[6 + 1] = t[6] /\ h[7 + 1] = t[7] /\ h[8 + 1] = t[8]
          /\ h[9 + 1] = t[9]
      BY <2>3
    <3> QED
      BY <3>1
  <2> QED
    BY <1>8, <2>2, <2>3, <2>4, <2>5 DEF Encodes, Long, Wide
<1>13. Encodes(h, b, n)
  BY <1>6, <1>7, <1>8, <1>12, SMT
<1> QED
  BY <1>13 DEF h, b, n

\* Reading the encoding of a legal frame yields that frame, and finds nothing wrong.
LEMMA EncodingRead ==
  ASSUME NEW f, f.size \in Nat, f.size <= LargestSize, f.opcode \in 0..15, f.fin \in BOOLEAN,
         Legal(f), NEW h, h = ServerEncoding(f)
  PROVE  /\ Fin(h) = f.fin /\ Opcode(h) = f.opcode /\ Size(h) = f.size
         /\ ~Masked(h) /\ ~TooBig(h) /\ ~Improper(h)
<1> DEFINE n == f.size
           first == FirstOf(f)
<1>0. n \in Nat /\ f.opcode \in Nat
  OBVIOUS
<1>1. Encodes(h, first, n)
  BY <1>0, EncodingShape
<1>5. first = (IF f.fin THEN 128 ELSE 0) + f.opcode
  BY DEF FirstOf
<1> HIDE DEF n, first
<1>2. /\ Size(h) = n /\ ~Masked(h) /\ ~TooBig(h) /\ ~NotMinimal(h)
      /\ Extended(h) > 0 => n >= 126
  <2>1. CASE n < 126
    <3>1. h[2] = n
      BY <1>0, <1>1, <2>1, FormOfSize DEF Short
    <3> QED
      BY <1>0, <2>1, <3>1, SMT DEF Size, Masked, TooBig, NotMinimal, Extended
  <2>2. CASE 126 <= n /\ n < 65536
    <3>1. h[2] = 126 /\ n = h[3] * 256 + h[4]
      BY <1>0, <1>1, <2>2, FormOfSize DEF Medium, Number2
    <3>2. Size(h) = n
      BY <3>1, SMT DEF Size
    <3> QED
      BY <1>0, <2>2, <3>1, <3>2, SMT DEF Masked, TooBig, NotMinimal, Extended
  <2>3. CASE 65536 <= n
    <3>1. /\ h[2] = 127 /\ h[3] = 0 /\ h[4] = 0 /\ h[5] = 0 /\ h[6] = 0
          /\ h[7] \in Nat /\ h[7] < 128 /\ n = ((h[7] * 256 + h[8]) * 256 + h[9]) * 256 + h[10]
      <4>1. Long(h, n)
        BY <1>0, <1>1, <2>3, FormOfSize
      <4> QED
        BY <4>1 DEF Long, Number4
    <3>2. Size(h) = n
      BY <3>1, SMT DEF Size
    <3> QED
      BY <1>0, <2>3, <3>1, <3>2, SMT DEF Masked, TooBig, NotMinimal, Extended
  <2> QED
    BY <1>0, <2>1, <2>2, <2>3, SMT
<1>3. Fin(h) = f.fin /\ Opcode(h) = f.opcode /\ ~Reserved(h)
  <2>0. h[1] = first
    BY <1>1 DEF Encodes
  <2>1. CASE f.fin = TRUE
    <3>1. h[1] = 128 + f.opcode
      BY <1>5, <2>0, <2>1, SMT
    <3> QED
      BY <2>1, <3>1, SMT DEF Fin, Opcode, Reserved
  <2>2. CASE f.fin = FALSE
    <3>1. h[1] = f.opcode
      BY <1>0, <1>5, <2>0, <2>2, SMT
    <3> QED
      BY <2>2, <3>1, SMT DEF Fin, Opcode, Reserved
  <2> QED
    BY <2>1, <2>2, Zenon
<1>4. ~Improper(h)
  <2>1. ValidOpcode(Opcode(h))
    BY <1>3 DEF ValidOpcode, Legal, DataOpcodes, ControlOpcodes
  <2>2. IsControl(Opcode(h)) => Fin(h) /\ n < 126
    BY <1>3, SMT DEF IsControl, Legal, DataOpcodes, ControlOpcodes, n
  <2>3. ~(IsControl(Opcode(h)) /\ (~Fin(h) \/ Extended(h) > 0))
    BY <1>0, <1>2, <2>2, SMT
  <2> QED
    BY <1>2, <1>3, <2>1, <2>3, Zenon DEF Improper
<1> QED
  BY <1>2, <1>3, <1>4 DEF n

\* A header that nothing is wrong with is the encoding of a legal frame: of the one
\* that is read from it.
LEMMA ReadEncodes ==
  ASSUME NEW h \in Seq(0..255), Len(h) >= 2, Len(h) = 2 + Extended(h),
         ~Masked(h), ~TooBig(h), ~Improper(h),
         NEW f, f.fin = Fin(h), f.opcode = Opcode(h), f.size = Size(h)
  PROVE  /\ f.size \in Nat /\ f.size <= LargestSize /\ f.opcode \in 0..15 /\ f.fin \in BOOLEAN
         /\ Legal(f) /\ ServerEncoding(f) = h
<1> DEFINE n == Size(h)
<1>1. f.size = n /\ f.opcode = Opcode(h) /\ f.fin = Fin(h) /\ f.fin \in BOOLEAN
  BY DEF Fin
<1>2. /\ Len(h) \in Nat /\ DOMAIN h = 1..Len(h)
      /\ \A i \in 1..Len(h) : h[i] \in Nat /\ h[i] < 256
  <2> DEFINE Bytes == 0..255
  <2>1. Len(h) \in Nat /\ DOMAIN h = 1..Len(h) /\ h \in Seq(Bytes)
    OBVIOUS
  <2>3. \A b \in Bytes : b \in Nat /\ b < 256
    OBVIOUS
  <2> HIDE DEF Bytes
  <2>2. ASSUME NEW i \in 1..Len(h) PROVE h[i] \in Nat /\ h[i] < 256
    <3>1. h[i] \in Bytes
      BY <2>1, ElementOfSeq
    <3> QED
      BY <2>3, <3>1
  <2> QED
    BY <2>1, <2>2
<1>3. h[1] \in Nat /\ h[1] < 256 /\ h[2] \in Nat /\ h[2] < 128
  <2>1. 1 \in 1..Len(h) /\ 2 \in 1..Len(h)
    BY <1>2
  <2> QED
    BY <1>2, <2>1 DEF Masked
<1>4. /\ Opcode(h) \in 0..15 /\ h[1] = (IF Fin(h) THEN 128 ELSE 0) + Opcode(h)
  <2>1. ~Reserved(h)
    BY DEF Improper
  <2> DEFINE b == h[1]
             q == b \div 16
             o == b % 16
  <2>2. b \in Nat /\ b < 256
    BY <1>3
  <2>6. q % 8 = 0 /\ Opcode(h) = o /\ (Fin(h) <=> b >= 128)
    BY <2>1 DEF Reserved, Fin, Opcode
  <2> HIDE DEF b
  <2>3. q \in Nat /\ o \in Nat /\ o < 16 /\ b = 16 * q + o
    BY <2>2, SMT
  <2> HIDE DEF q, o
  <2>4. q = 0 \/ q = 8
    BY <2>2, <2>3, <2>6, SMT
  <2>5. b = (IF b >= 128 THEN 128 ELSE 0) + o
    BY <2>3, <2>4, SMT
  <2> QED
    BY <2>3, <2>5, <2>6, SMT DEF b
<1>5. Legal(f)
  <2>1. ~NotMinimal(h) /\ ValidOpcode(Opcode(h)) /\ (IsControl(Opcode(h)) => Fin(h) /\ ~(Extended(h) > 0))
    BY Zenon DEF Improper
  <2>2. ~(Extended(h) > 0) => n < 126
    BY <1>3, SMT DEF Extended, Size
  <2> HIDE DEF n
  <2> QED
    BY <1>1, <2>1, <2>2, SMT DEF Legal, DataOpcodes, ControlOpcodes, ValidOpcode, IsControl
<1>6. ~NotMinimal(h)
  BY DEF Improper
<1> HIDE DEF n
<1>8. h \in Seq(Nat)
  <2>1. ASSUME NEW i \in 1..Len(h) PROVE h[i] \in Nat
    BY <1>2
  <2> QED
    BY <1>2, <2>1, SeqDef, SMT
<1>9. h[1] = FirstOf(f)
  BY <1>1, <1>4, Zenon DEF FirstOf
<1>10. ASSUME h[2] < 126 PROVE Coded(h, n)
  <2>1. n = h[2] /\ Len(h) = 2
    BY <1>3, <1>10, SMT DEF n, Size, Extended
  <2>2. n \in Nat /\ n < 126 /\ n <= LargestSize
    BY <1>3, <1>10, <2>1, SMT DEF LargestSize
  <2> QED
    BY <1>8, <2>1, <2>2 DEF Encodes, Short, Coded
<1>11. ASSUME h[2] = 126 PROVE Coded(h, n)
  <2>1. n = h[3] * 256 + h[4]
    BY <1>11, SMT DEF n, Size
  <2>2. Len(h) = 4
    BY <1>11, SMT DEF Extended
  <2>3. h[3] \in Nat /\ h[4] \in Nat /\ h[3] < 256 /\ h[4] < 256
    <3>1. \A i \in 1..4 : h[i] \in Nat /\ h[i] < 256
      BY <1>2, <2>2
    <3> QED
      BY <3>1
  <2>4. n \in Nat /\ n < 65536 /\ n <= LargestSize /\ Number2(n, h[3], h[4])
    BY <2>1, <2>3, SMT DEF LargestSize, Number2
  <2>5. 126 <= n
    BY <1>6, <1>11, <2>4, SMT DEF NotMinimal, n
  <2> QED
    <3>1. n < 65536 /\ Number2(n, h[3], h[4])
      BY <2>4
    <3> QED
      BY <1>8, <1>11, <2>2, <2>5, <3>1, MediumEncodes, SMT
<1>12. ASSUME h[2] = 127 PROVE Coded(h, n)
  <2>1. n = ((h[7] * 256 + h[8]) * 256 + h[9]) * 256 + h[10]
    BY <1>12, SMT DEF n, Size
  <2>2. Len(h) = 10
    BY <1>12, SMT DEF Extended
  <2>3. /\ h[7] \in Nat /\ h[8] \in Nat /\ h[9] \in Nat /\ h[10] \in Nat
        /\ h[8] < 256 /\ h[9] < 256 /\ h[10] < 256
    <3>1. \A i \in 1..10 : h[i] \in Nat /\ h[i] < 256
      BY <1>2, <2>2
    <3> QED
      BY <3>1
  <2>4. h[3] = 0 /\ h[4] = 0 /\ h[5] = 0 /\ h[6] = 0 /\ h[7] < 128
    BY <1>12, <2>3, SMT DEF TooBig
  <2>5. n \in Nat /\ n <= LargestSize /\ Number4(n, h[7], h[8], h[9], h[10])
    <3> DEFINE b3 == h[7]
               b2 == h[8]
               b1 == h[9]
               b0 == h[10]
    <3>1. /\ b3 \in Nat /\ b2 \in Nat /\ b1 \in Nat /\ b0 \in Nat
          /\ b3 < 128 /\ b2 < 256 /\ b1 < 256 /\ b0 < 256
      BY <2>3, <2>4
    <3>2. n = Value(b3, b2, b1, b0)
      BY <2>1 DEF Value
    <3> HIDE DEF b3, b2, b1, b0
    <3>3. Number4(Value(b3, b2, b1, b0), b3, b2, b1, b0)
      BY <3>1, DigitsOfNumber
    <3>4. Number4(n, b3, b2, b1, b0)
      BY <3>2, <3>3, Zenon
    <3>5. n \in Nat /\ n <= LargestSize
      BY <3>4, Zenon DEF Number4
    <3> QED
      BY <3>4, <3>5, Zenon DEF b3, b2, b1, b0
  <2>6. 65536 <= n
    BY <1>6, <1>12, <2>5, SMT DEF NotMinimal, n
  <2> QED
    <3>1. Number4(n, h[7], h[8], h[9], h[10])
      BY <2>5
    <3>2. h[3] = 0 /\ h[4] = 0 /\ h[5] = 0 /\ h[6] = 0
      BY <2>4
    <3> QED
      <4>1. Wide(n)
        BY <2>6, SMT DEF Wide
      <4>2. Long(h, n)
        BY <1>12, <2>2, <3>1, <3>2, <4>1, Zenon DEF Long
      <4> QED
        BY <1>8, <4>2, LongEncodes, SMT
<1>13. Coded(h, n)
  BY <1>3, <1>10, <1>11, <1>12, SMT
<1>14. f.opcode \in Nat
  BY <1>1, <1>4
<1>15. ServerEncoding(f) = h
  <2>1. Encodes(ServerEncoding(f), FirstOf(f), n)
    BY <1>1, <1>13, <1>14, EncodingShape, Zenon DEF Coded
  <2>2. Encodes(h, FirstOf(f), n)
    BY <1>9, <1>13 DEF Coded
  <2> QED
    BY <1>13, <2>1, <2>2, SameHeader, Zenon DEF Coded
<1> QED
  BY <1>1, <1>4, <1>5, <1>13, <1>15 DEF Coded

\* Nothing is wrong with a header, and it fits.
Sound(h, buffer) == ~Masked(h) /\ ~TooBig(h) /\ ~Improper(h) /\ Size(h) <= buffer
Meant(h, buffer) == {f \in LegalFrames : LegalHeader[f] = h /\ f.size <= buffer}
FrameOf(h) == [fin |-> Fin(h), opcode |-> Opcode(h), size |-> Size(h)]

\* The legal frames a header of the peer is the encoding of.
LEMMA MeantByHeader ==
  ASSUME NEW h \in PeerHeaders, NEW buffer
  PROVE  Meant(h, buffer) = IF Sound(h, buffer) THEN {FrameOf(h)} ELSE {}
<1> DEFINE g == FrameOf(h)
<1>1. h \in Seq(0..255) /\ Len(h) >= 2 /\ Len(h) = 2 + Extended(h)
  BY ClientAssumption, SMT DEF ClientAssumption
<1>2. g.fin = Fin(h) /\ g.opcode = Opcode(h) /\ g.size = Size(h)
  BY DEF FrameOf
<1>3. ASSUME Sound(h, buffer) PROVE g \in LegalFrames /\ ServerEncoding(g) = h /\ g.size <= buffer
  <2>1. ~Masked(h) /\ ~TooBig(h) /\ ~Improper(h) /\ Size(h) <= buffer
    BY <1>3 DEF Sound
  <2>2. Size(h) \in PeerSizes
    BY <2>1, PeerAssumption, Zenon DEF PeerAssumption
  <2> HIDE DEF g
  <2>3. g.opcode \in 0..15 /\ g.fin \in BOOLEAN /\ Legal(g) /\ ServerEncoding(g) = h
    BY <1>1, <1>2, <2>1, ReadEncodes, Zenon
  <2>4. Fin(h) \in BOOLEAN /\ Opcode(h) \in 0..15
    BY <1>2, <2>3, Zenon
  <2>5. g \in [fin : BOOLEAN, opcode : 0..15, size : PeerSizes]
    BY <2>2, <2>4 DEF g, FrameOf
  <2> QED
    BY <1>2, <2>1, <2>3, <2>5, Zenon DEF LegalFrames
<1>4. ASSUME NEW f \in LegalFrames, ServerEncoding(f) = h, f.size <= buffer
      PROVE  Sound(h, buffer) /\ f = g
  <2>1. /\ f \in [fin : BOOLEAN, opcode : 0..15, size : PeerSizes] /\ Legal(f)
        /\ f.opcode \in 0..15 /\ f.fin \in BOOLEAN /\ f.size \in PeerSizes
    BY <1>4 DEF LegalFrames
  <2>2. f.size \in Nat /\ f.size <= LargestSize
    BY <2>1, PeerAssumption, Zenon DEF PeerAssumption
  <2>3. /\ Fin(h) = f.fin /\ Opcode(h) = f.opcode /\ Size(h) = f.size
        /\ ~Masked(h) /\ ~TooBig(h) /\ ~Improper(h)
    BY <1>4, <2>1, <2>2, EncodingRead, Zenon
  <2>4. f = [fin |-> f.fin, opcode |-> f.opcode, size |-> f.size]
    BY <2>1
  <2>5. Sound(h, buffer)
    BY <1>4, <2>3, Zenon DEF Sound
  <2>6. f = g
    BY <2>3, <2>4, Zenon DEF FrameOf
  <2> QED
    BY <2>5, <2>6
<1>5. \A f \in LegalFrames : LegalHeader[f] = ServerEncoding(f)
  BY Zenon DEF LegalHeader
<1>6. \A f : f \in Meant(h, buffer) <=> f \in LegalFrames /\ ServerEncoding(f) = h /\ f.size <= buffer
  BY <1>5, Zenon DEF Meant
<1> HIDE DEF g
<1>7. \A f : f \in Meant(h, buffer) <=> Sound(h, buffer) /\ f = g
  BY <1>3, <1>4, <1>6, Zenon
<1> QED
  BY <1>7, Zenon DEF g

\* When the bytes arrive, they are read.
LEMMA ReadsWhole ==
  ASSUME NEW r, NEW n \in Nat, r.left \in Nat, n <= r.left
  PROVE  read_data(r, n).ok = TRUE /\ read_data(r, n).left = r.left - n
<1>1. Least(n, r.left) = n
  BY DEF Least
<1> QED
  BY <1>1 DEF read_data

\* When the whole frame arrives, its header decides.
LEMMA WholeFrameRead ==
  ASSUME NEW h \in PeerHeaders, NEW buffer \in Buffers, NEW arriving,
         ReadFrame(h, buffer, arriving)
  PROVE  /\ last'.kind = "read" /\ last'.header = h /\ last'.buffer = buffer
         /\ last'.whole = (arriving = Whole(h))
         /\ arriving = Whole(h) => last'.ok = Sound(h, buffer)
         /\ last'.fin = Fin(h) /\ last'.opcode = Opcode(h)
         /\ last'.ok => last'.size = Size(h)
<1>1. Extended(h) \in Nat /\ Size(h) \in Nat
  BY PeerHeaderSizes
<1>2. buffer \in Nat
  BY ClientAssumption, SMT DEF ClientAssumption
<1> DEFINE start == Reader(arriving)
           flags == read_data(start, 2)
           header == read_data(flags, Extended(h))
           payload == read_data(header, Size(h))
           unreadable == ~flags.ok \/ Masked(h) \/ ~header.ok \/ Unreadable(h, buffer)
           r == IF ~flags.ok \/ Masked(h) THEN flags
                ELSE IF unreadable THEN header ELSE payload
           complete == ~unreadable /\ r.ok
           ok == complete /\ ~Improper(h)
<1>3. last' = [kind |-> "read", header |-> h, whole |-> arriving = Whole(h), buffer |-> buffer,
               ok |-> ok, fin |-> Fin(h), opcode |-> Opcode(h), size |-> IF ok THEN Size(h) ELSE 0]
  BY DEF ReadFrame
<1>4. start.left = arriving
  BY DEF Reader
<1> HIDE DEF start
<1>5. ASSUME arriving = Whole(h) PROVE ok <=> Sound(h, buffer)
  <2> DEFINE rest == IF Masked(h) \/ TooBig(h) THEN 0 ELSE Size(h)
  <2>1. start.left = 2 + Extended(h) + rest /\ rest \in Nat
    BY <1>1, <1>4, <1>5 DEF Whole
  <2>2. ~Masked(h) /\ ~TooBig(h) => rest = Size(h)
    OBVIOUS
  <2> HIDE DEF rest
  <2>3. flags.ok = TRUE /\ flags.left = Extended(h) + rest
    <3>1. start.left \in Nat /\ 2 <= start.left
      BY <1>1, <2>1
    <3>2. flags.ok = TRUE /\ flags.left = start.left - 2
      BY <3>1, ReadsWhole
    <3> QED
      BY <1>1, <2>1, <3>2
  <2> HIDE DEF flags
  <2>4. header.ok = TRUE /\ header.left = rest
    <3>1. flags.left \in Nat /\ Extended(h) <= flags.left
      BY <1>1, <2>1, <2>3
    <3>2. header.ok = TRUE /\ header.left = flags.left - Extended(h)
      BY <1>1, <3>1, ReadsWhole
    <3> QED
      BY <1>1, <2>1, <2>3, <3>2
  <2> HIDE DEF header
  <2>5. ~Masked(h) /\ ~TooBig(h) => payload.ok = TRUE
    <3> SUFFICES ASSUME ~Masked(h), ~TooBig(h) PROVE payload.ok = TRUE
      OBVIOUS
    <3>1. header.left \in Nat /\ Size(h) <= header.left
      BY <1>1, <2>1, <2>2, <2>4
    <3> QED
      BY <1>1, <3>1, ReadsWhole
  <2> HIDE DEF payload
  <2>6. unreadable <=> Masked(h) \/ TooBig(h) \/ Size(h) > buffer
    BY <2>3, <2>4 DEF Unreadable
  <2> HIDE DEF unreadable
  <2>7. ~unreadable => r = payload /\ payload.ok = TRUE
    BY <2>3, <2>5, <2>6, Zenon
  <2> HIDE DEF r
  <2>8. Size(h) > buffer <=> ~(Size(h) <= buffer)
    BY <1>1, <1>2
  <2> QED
    BY <2>6, <2>7, <2>8, Zenon DEF Sound
<1>6. ok \in BOOLEAN /\ Sound(h, buffer) \in BOOLEAN
  BY Zenon DEF Sound
<1> HIDE DEF ok
<1> QED
  BY <1>3, <1>5, <1>6

\* A call that writes leaves a written frame behind.
LEMMA WriteKeepsKind ==
  ASSUME Write
  PROVE  last'.kind = "write"
<1>1. ASSUME NEW by, NEW f, WriteFrame(by, f) PROVE last'.kind = "write"
  BY <1>1 DEF WriteFrame
<1> QED
  BY <1>1 DEF Write, WriteCloseFrame, Answer

\* A frame that arrives as a whole is received exactly if its header is the one
\* that encodes a legal frame that fits, and it is received as that frame.
THEOREM FramesJudgedAlways == Spec => []FramesJudged
<1>1. Init => FramesJudged
  BY DEF Init, NoFrame, FramesJudged
<1>2. FramesJudged /\ [Next]_vars => FramesJudged'
  <2> SUFFICES ASSUME FramesJudged, [Next]_vars PROVE FramesJudged'
    OBVIOUS
  <2>1. ASSUME last' = last PROVE FramesJudged'
    BY <2>1 DEF FramesJudged
  <2>2. ASSUME last'.kind # "read" PROVE FramesJudged'
    BY <2>2 DEF FramesJudged
  <2>3. CASE Read
    <3>1. PICK h \in PeerHeaders, buffer \in Buffers :
                 \E arriving \in Arriving(h) : ReadFrame(h, buffer, arriving)
      BY <2>3 DEF Read
    <3>2. PICK arriving \in Arriving(h) : ReadFrame(h, buffer, arriving)
      BY <3>1
    <3>3. /\ last'.kind = "read" /\ last'.header = h /\ last'.buffer = buffer
          /\ last'.whole = (arriving = Whole(h))
          /\ arriving = Whole(h) => last'.ok = Sound(h, buffer)
          /\ last'.fin = Fin(h) /\ last'.opcode = Opcode(h)
          /\ last'.ok => last'.size = Size(h)
      BY <3>2, WholeFrameRead
    <3>4. Meant(h, buffer) = IF Sound(h, buffer) THEN {FrameOf(h)} ELSE {}
      BY MeantByHeader
    <3> SUFFICES ASSUME last'.whole
                 PROVE  IF last'.ok
                        THEN Meant(h, buffer) =
                               {[fin |-> last'.fin, opcode |-> last'.opcode, size |-> last'.size]}
                        ELSE Meant(h, buffer) = {}
      BY <3>3 DEF FramesJudged, Meant
    <3>5. last'.ok = Sound(h, buffer)
      BY <3>3
    <3> QED
      BY <3>3, <3>4, <3>5 DEF FrameOf
  <2>4. CASE Write
    BY <2>2, <2>4, WriteKeepsKind
  <2>5. CASE Close \/ Cleanup
    BY <2>2, <2>5 DEF Close, Cleanup, ForgetConnection, NoFrame
  <2>6. CASE OpenStarts \/ HttpDisconnected \/ OpenFails \/ PollWriteFails \/ UNCHANGED vars
             \/ (\E key \in Keys, good \in BOOLEAN : HttpHeader(key, good))
             \/ (\E n \in Overreads, extracted \in BOOLEAN : OpenEnds(n, extracted))
    BY <2>1, <2>6 DEF OpenStarts, HttpDisconnected, OpenFails, PollWriteFails, HttpHeader, OpenEnds,
                      vars
  <2> QED
    BY <2>3, <2>4, <2>5, <2>6 DEF Next
<1> QED
  BY <1>1, <1>2, PTL DEF Spec

-----------------------------------------------------------------------------
(* What is written                                                          *)

\* A frame that was received is legal, and is not larger than what an int holds.
ReceivedLegal ==
  last.kind = "read" /\ last.ok =>
    last.size \in Nat /\ Legal([fin |-> last.fin, opcode |-> last.opcode, size |-> last.size])

\* Whatever is received is legal.
LEMMA ReceivedLegalAlways == Spec => []ReceivedLegal
<1>1. Init => ReceivedLegal
  BY DEF Init, NoFrame, ReceivedLegal
<1>2. ReceivedLegal /\ [Next]_vars => ReceivedLegal'
  <2> SUFFICES ASSUME ReceivedLegal, [Next]_vars PROVE ReceivedLegal'
    OBVIOUS
  <2>1. ASSUME last' = last PROVE ReceivedLegal'
    BY <2>1 DEF ReceivedLegal
  <2>2. ASSUME last'.kind # "read" PROVE ReceivedLegal'
    BY <2>2 DEF ReceivedLegal
  <2>3. ASSUME NEW h \in PeerHeaders, NEW buffer \in Buffers, NEW arriving,
               ReadFrame(h, buffer, arriving), last'.ok
        PROVE  last'.size \in Nat /\ Legal([fin |-> last'.fin, opcode |-> last'.opcode, size |-> last'.size])
    <3> DEFINE flags == read_data(Reader(arriving), 2)
               header == read_data(flags, Extended(h))
               unreadable == ~flags.ok \/ Masked(h) \/ ~header.ok \/ Unreadable(h, buffer)
               r == IF ~flags.ok \/ Masked(h) THEN flags
                    ELSE IF unreadable THEN header ELSE read_data(header, Size(h))
               ok == (~unreadable /\ r.ok) /\ ~Improper(h)
    <3>5. last' = [kind |-> "read", header |-> h, whole |-> arriving = Whole(h), buffer |-> buffer,
                   ok |-> ok, fin |-> Fin(h), opcode |-> Opcode(h),
                   size |-> IF ok THEN Size(h) ELSE 0]
      BY <2>3 DEF ReadFrame
    <3>6. ok => ~Masked(h) /\ ~TooBig(h) /\ ~Improper(h)
      BY Zenon DEF Unreadable
    <3> HIDE DEF ok
    <3>1. /\ last'.fin = Fin(h) /\ last'.opcode = Opcode(h) /\ last'.size = Size(h)
          /\ ~Masked(h) /\ ~TooBig(h) /\ ~Improper(h)
      BY <2>3, <3>5, <3>6
    <3>2. h \in Seq(0..255) /\ Len(h) >= 2 /\ Len(h) = 2 + Extended(h)
      BY ClientAssumption, SMT DEF ClientAssumption
    <3>3. FrameOf(h).fin = Fin(h) /\ FrameOf(h).opcode = Opcode(h) /\ FrameOf(h).size = Size(h)
      BY DEF FrameOf
    <3>4. Legal(FrameOf(h)) /\ FrameOf(h).size \in Nat
      BY <3>1, <3>2, <3>3, ReadEncodes, Zenon
    <3> QED
      BY <3>1, <3>3, <3>4 DEF FrameOf
  <2>4. CASE Read
    BY <2>3, <2>4 DEF Read, ReceivedLegal
  <2>5. CASE Write
    BY <2>2, <2>5, WriteKeepsKind
  <2>6. CASE Close \/ Cleanup
    BY <2>2, <2>6 DEF Close, Cleanup, ForgetConnection, NoFrame
  <2>7. CASE OpenStarts \/ HttpDisconnected \/ OpenFails \/ PollWriteFails \/ UNCHANGED vars
             \/ (\E key \in Keys, good \in BOOLEAN : HttpHeader(key, good))
             \/ (\E n \in Overreads, extracted \in BOOLEAN : OpenEnds(n, extracted))
    BY <2>1, <2>7 DEF OpenStarts, HttpDisconnected, OpenFails, PollWriteFails, HttpHeader, OpenEnds,
                      vars
  <2> QED
    BY <2>4, <2>5, <2>6, <2>7 DEF Next
<1> QED
  BY <1>1, <1>2, PTL DEF Spec

\* An answer has the payload of the frame received, and is legal as that was.
LEMMA AnswerWrites ==
  ASSUME Answer
  PROVE  \E f : /\ WriteFrame("do_read", f) /\ f.size = last.size
                /\ ReceivedLegal => Legal(f)
<1> DEFINE pong == [fin |-> TRUE, opcode |-> 10, size |-> last.size]
           echo == [fin |-> TRUE, opcode |-> 8, size |-> last.size]
<1>1. ASSUME ReceivedLegal PROVE Legal(pong) /\ Legal(echo)
  <2>1. last.opcode \in {8, 9} /\ last.kind = "read" /\ last.ok
    BY DEF Answer
  <2>2. Legal([fin |-> last.fin, opcode |-> last.opcode, size |-> last.size])
    BY <1>1, <2>1 DEF ReceivedLegal
  <2>3. last.size < 126
    BY <2>1, <2>2 DEF Legal, ControlOpcodes
  <2> QED
    BY <2>3 DEF Legal, ControlOpcodes, DataOpcodes
<1>2. CASE last.opcode = 9 /\ WriteFrame("do_read", pong)
  <2>1. pong.size = last.size
    OBVIOUS
  <2> HIDE DEF pong
  <2> QED
    BY <1>1, <1>2, <2>1
<1>3. CASE last.opcode = 8 /\ WriteFrame("do_read", echo)
  <2>1. echo.size = last.size
    OBVIOUS
  <2> HIDE DEF echo
  <2> QED
    BY <1>1, <1>3, <2>1
<1> QED
  BY <1>2, <1>3 DEF Answer

\* Every frame is written with the one header that encodes it.
THEOREM FramesEncodedAlways == Spec => []FramesEncoded
<1>1. Init => FramesEncoded
  BY DEF Init, NoFrame, FramesEncoded
<1>2. ASSUME NEW by, NEW f, f.size \in Nat, WriteFrame(by, f) PROVE FramesEncoded'
  <2>1. last' = [kind |-> "write", by |-> by, frame |-> f,
                 header |-> write_frame_header(f.fin, f.opcode, f.size)]
    BY <1>2 DEF WriteFrame
  <2>2. last'.frame = f /\ last'.header = ClientEncoding(f)
    BY <1>2, <2>1, HeaderEncodes
  <2> QED
    BY <2>2 DEF FramesEncoded
<1>3. FramesEncoded /\ ReceivedLegal /\ [Next]_vars => FramesEncoded'
  <2> SUFFICES ASSUME FramesEncoded, ReceivedLegal, [Next]_vars PROVE FramesEncoded'
    OBVIOUS
  <2>1. ASSUME last' = last PROVE FramesEncoded'
    BY <2>1 DEF FramesEncoded
  <2>2. ASSUME last'.kind # "write" PROVE FramesEncoded'
    BY <2>2 DEF FramesEncoded
  <2>3. CASE Write
    <3>1. ASSUME NEW frame \in Outgoing, WriteFrame("application", frame) PROVE FramesEncoded'
      <4>1. frame.size \in Nat
        BY OutgoingAssumption, SMT DEF OutgoingAssumption
      <4> QED
        BY <1>2, <3>1, <4>1
    <3>2. ASSUME NEW status \in CloseStatuses, NEW n \in CloseReasons, WriteCloseFrame(status, n)
          PROVE  FramesEncoded'
      <4> DEFINE f == [fin |-> TRUE, opcode |-> 8, size |-> IF status = 0 THEN 0 ELSE 2 + n]
      <4>1. n \in Nat
        BY OutgoingAssumption, SMT DEF OutgoingAssumption
      <4>2. WriteFrame("write_close_frame", f) /\ f.size \in Nat
        BY <3>2, <4>1 DEF WriteCloseFrame
      <4> HIDE DEF f
      <4> QED
        BY <1>2, <4>2
    <3>3. ASSUME Answer PROVE FramesEncoded'
      <4>1. PICK f : WriteFrame("do_read", f) /\ f.size = last.size
        BY <3>3, AnswerWrites
      <4>2. last.size \in Nat
        BY <3>3 DEF Answer, ReceivedLegal
      <4> QED
        BY <1>2, <4>1, <4>2
    <3> QED
      BY <2>3, <3>1, <3>2, <3>3 DEF Write
  <2>4. CASE Read
    <3>1. last'.kind = "read"
      BY <2>4 DEF Read, ReadFrame
    <3> QED
      BY <2>2, <3>1
  <2>5. CASE Close \/ Cleanup
    BY <2>2, <2>5 DEF Close, Cleanup, ForgetConnection, NoFrame
  <2>6. CASE OpenStarts \/ HttpDisconnected \/ OpenFails \/ PollWriteFails \/ UNCHANGED vars
             \/ (\E key \in Keys, good \in BOOLEAN : HttpHeader(key, good))
             \/ (\E n \in Overreads, extracted \in BOOLEAN : OpenEnds(n, extracted))
    BY <2>1, <2>6 DEF OpenStarts, HttpDisconnected, OpenFails, PollWriteFails, HttpHeader, OpenEnds,
                      vars
  <2> QED
    BY <2>3, <2>4, <2>5, <2>6 DEF Next
<1> QED
  BY <1>1, <1>3, ReceivedLegalAlways, PTL DEF Spec

\* The close frames of xsp_ws_client_write_close_frame(), the pongs and the echoes
\* of close frames are legal: the payload that goes back is one that was received.
THEOREM AnswersLegalAlways == Spec => []AnswersLegal
<1>1. Init => AnswersLegal
  BY DEF Init, NoFrame, AnswersLegal
<1>2. ASSUME NEW by, NEW f, WriteFrame(by, f), by = "application" \/ Legal(f) PROVE AnswersLegal'
  <2>1. last'.by = by /\ last'.frame = f
    BY <1>2 DEF WriteFrame
  <2> QED
    BY <1>2, <2>1 DEF AnswersLegal
<1>3. AnswersLegal /\ ReceivedLegal /\ [Next]_vars => AnswersLegal'
  <2> SUFFICES ASSUME AnswersLegal, ReceivedLegal, [Next]_vars PROVE AnswersLegal'
    OBVIOUS
  <2>1. ASSUME last' = last PROVE AnswersLegal'
    BY <2>1 DEF AnswersLegal
  <2>2. ASSUME last'.kind # "write" PROVE AnswersLegal'
    BY <2>2 DEF AnswersLegal
  <2>3. CASE Write
    <3>1. ASSUME NEW frame \in Outgoing, WriteFrame("application", frame) PROVE AnswersLegal'
      BY <1>2, <3>1
    <3>2. ASSUME NEW status \in CloseStatuses, NEW n \in CloseReasons, WriteCloseFrame(status, n)
          PROVE  AnswersLegal'
      <4> DEFINE f == [fin |-> TRUE, opcode |-> 8, size |-> IF status = 0 THEN 0 ELSE 2 + n]
      <4>1. n \in Nat
        BY OutgoingAssumption, SMT DEF OutgoingAssumption
      <4>2. WriteFrame("write_close_frame", f) /\ (status # 0 => n <= 123)
        BY <3>2 DEF WriteCloseFrame, MayClose
      <4>3. f.fin = TRUE /\ f.opcode = 8 /\ f.size < 126
        BY <4>1, <4>2
      <4> HIDE DEF f
      <4>4. Legal(f)
        BY <4>3 DEF Legal, ControlOpcodes
      <4> QED
        BY <1>2, <4>2, <4>4
    <3>3. ASSUME Answer PROVE AnswersLegal'
      <4>1. PICK f : WriteFrame("do_read", f) /\ Legal(f)
        BY <3>3, AnswerWrites
      <4> QED
        BY <1>2, <4>1
    <3> QED
      BY <2>3, <3>1, <3>2, <3>3 DEF Write
  <2>4. CASE Read
    <3>1. last'.kind = "read"
      BY <2>4 DEF Read, ReadFrame
    <3> QED
      BY <2>2, <3>1
  <2>5. CASE Close \/ Cleanup
    BY <2>2, <2>5 DEF Close, Cleanup, ForgetConnection, NoFrame
  <2>6. CASE OpenStarts \/ HttpDisconnected \/ OpenFails \/ PollWriteFails \/ UNCHANGED vars
             \/ (\E key \in Keys, good \in BOOLEAN : HttpHeader(key, good))
             \/ (\E n \in Overreads, extracted \in BOOLEAN : OpenEnds(n, extracted))
    BY <2>1, <2>6 DEF OpenStarts, HttpDisconnected, OpenFails, PollWriteFails, HttpHeader, OpenEnds,
                      vars
  <2> QED
    BY <2>3, <2>4, <2>5, <2>6 DEF Next
<1> QED
  BY <1>1, <1>3, ReceivedLegalAlways, PTL DEF Spec
=============================================================================
