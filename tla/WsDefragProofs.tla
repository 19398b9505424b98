---------------------------- MODULE WsDefragProofs ----------------------------
(***************************************************************************)
(* Proofs about WsDefrag, for payloads of any size, any largest message and *)
(* any number of frames.                                                    *)
(***************************************************************************)
EXTENDS WsDefragProperties, Utf8Theorems

USE DefragAssumption

\* The error a message has met with is kept until it is over.
ErrorRemembered == open /\ out.err \in Faults /\ ~out.done => message_error = out.err

\* out, as a record.
OutType ==
  out \in [err : Faults \cup {"ESP_OK", "none"}, done : BOOLEAN, opcode : Opcodes,
           data : Seq(0..255) \cup {NoData}]

DefragInv == TypeOK /\ OutType /\ BufferOwned /\ ErrorRemembered

LEMMA InitDefrag == Init => DefragInv
BY DEF Init, DefragInv, TypeOK, OutType, BufferOwned, ErrorRemembered, Held, NoResult, Result,
       Faults, Opcodes, ACCEPT, Utf8States

\* A frame leaves the validator in one of its states.
LEMMA EndStateType ==
  ASSUME TypeOK, NEW f \in Frames PROVE EndState(f) \in Utf8States
<1>1. StartState(f.opcode) \in Utf8States
  BY DEF TypeOK, StartState, ACCEPT, Utf8States
<1>2. f.payload \in Text
  BY DEF Frames, Text, Byte
<1> QED
  BY <1>1, <1>2, ValidateType DEF EndState

\* Whatever a frame fails for, nothing is held of its message afterwards.
LEMMA FailDefrag ==
  ASSUME DefragInv, open = TRUE, open' = TRUE, NEW err \in Faults, NEW f \in Frames, Fail(err, f.fin),
         message_utf8_state' \in Utf8States,
         frames' \in Seq(Frames), Len(frames') < MaxFrames
  PROVE  DefragInv' /\ out'.err = err
<1>1. /\ message_opcode' = "CONTINUATION" /\ message_size' = 0 /\ message_data' = NoData
      /\ message_error' = IF f.fin THEN "ESP_OK" ELSE err
      /\ out' = [err |-> err, done |-> f.fin, opcode |-> "CONTINUATION", data |-> NoData]
      /\ f.fin \in BOOLEAN
  BY DEF Fail, ErrorAfter, Result, Frames
<1>2. allocated' = 0
  BY DEF Fail, Freed, Held, DefragInv, BufferOwned
<1>3. TypeOK'
  BY <1>1, <1>2 DEF TypeOK, Opcodes
<1>4. OutType'
  BY <1>1 DEF OutType, Opcodes
<1>5. BufferOwned'
  BY <1>1, <1>2 DEF BufferOwned, Held
<1>6. ErrorRemembered'
  BY <1>1 DEF ErrorRemembered
<1> QED
  BY <1>1, <1>3, <1>4, <1>5, <1>6 DEF DefragInv

\* A frame that continues or completes a message.
LEMMA ExtendDefrag ==
  ASSUME DefragInv, open = TRUE, open' = TRUE, NEW f \in Frames, Extend(f),
         frames' \in Seq(Frames), Len(frames') < MaxFrames
  PROVE  DefragInv'
<1> DEFINE new_size == message_size + Len(f.payload)
           new_data == IF message_data = NoData THEN f.payload ELSE message_data \o f.payload
<1>0. TypeOK /\ BufferOwned /\ message_error = "ESP_OK"
  BY DEF DefragInv, Extend
<1>1. /\ f.payload \in Seq(0..255) /\ f.opcode \in Opcodes /\ f.fin \in BOOLEAN
      /\ message_size \in Nat /\ message_data \in Seq(0..255) \cup {NoData}
      /\ MessageOpcode(f.opcode) \in Opcodes
  BY <1>0 DEF Frames, TypeOK, MessageOpcode
<1>2. /\ new_data \in Seq(0..255) /\ new_size \in Nat /\ Len(new_data) = new_size
      /\ message_data # NoData => new_size > 0
  <2>1. CASE message_data = NoData
    BY <1>0, <1>1, <2>1 DEF BufferOwned
  <2>2. CASE message_data # NoData
    <3>1. message_data \in Seq(0..255) /\ Len(message_data) = message_size /\ message_size > 0
      BY <1>0, <1>1, <2>2 DEF BufferOwned
    <3>2. Len(message_data \o f.payload) = Len(message_data) + Len(f.payload)
      BY <1>1, <3>1, ConcatProperties
    <3>3. message_data \o f.payload \in Seq(0..255)
      BY <1>1, <3>1, ConcatProperties
    <3> QED
      BY <1>1, <2>2, <3>1, <3>2, <3>3
  <2> QED
    BY <2>1, <2>2
<1>3. message_utf8_state' \in Utf8States
  BY <1>0, EndStateType DEF Extend
<1>4. ~TooBig(f) => new_size \in 0..max_message_size
  BY <1>2 DEF TooBig
<1>5. allocated = Held
  BY <1>0 DEF BufferOwned
<1>6. ASSUME NEW err \in Faults, Fail(err, f.fin) PROVE DefragInv'
  BY <1>3, <1>6, FailDefrag
<1>7. ASSUME ~TooBig(f),
             message_opcode' = MessageOpcode(f.opcode),
             message_size' = new_size,
             message_data' = IF new_size > 0 THEN new_data ELSE NoData,
             allocated' = IF new_size > 0 THEN allocated + (1 - Held) ELSE allocated,
             out' = Result("ESP_OK", FALSE, "CONTINUATION", NoData),
             message_error' = message_error,
             ~OutOfPlace(f.opcode)
      PROVE  DefragInv'
  <2>1. MessageOpcode(f.opcode) # "CONTINUATION"
    BY <1>7 DEF OutOfPlace, MessageOpcode
  <2>2. /\ out' = [err |-> "ESP_OK", done |-> FALSE, opcode |-> "CONTINUATION", data |-> NoData]
    BY <1>7 DEF Result
  <2>3. new_data # NoData
    BY <1>2
  <2>4. /\ message_data' \in Seq(0..255) \cup {NoData}
        /\ message_size' \in 0..max_message_size
        /\ message_size' = IF message_data' = NoData THEN 0 ELSE Len(message_data')
        /\ message_data' # NoData => message_size' > 0
    <3> HIDE DEF new_size, new_data
    <3> QED
      BY <1>2, <1>4, <1>7, <2>3
  <2>5. allocated' = IF message_data' = NoData THEN 0 ELSE 1
    <3>1. new_size > 0 \/ Held = 0
      BY <1>2 DEF Held
    <3>2. Held \in {0, 1}
      BY DEF Held
    <3> HIDE DEF new_size, new_data
    <3> QED
      BY <1>2, <1>5, <1>7, <2>3, <3>1, <3>2
  <2> HIDE DEF new_size, new_data
  <2>6. TypeOK'
    <3>1. allocated' \in 0..1
      BY <2>5
    <3>2. message_error' \in Faults \cup {"ESP_OK"} /\ message_opcode' \in Opcodes
      BY <1>1, <1>7, <1>0
    <3>3. /\ out'.err \in Faults \cup {"ESP_OK", "none"} /\ out'.done \in BOOLEAN
          /\ out'.opcode \in Opcodes /\ out'.data \in Seq(0..255) \cup {NoData}
      BY <2>2 DEF Opcodes
    <3> QED
      BY <1>3, <2>4, <3>1, <3>2, <3>3 DEF TypeOK
  <2>7. OutType'
    BY <2>2 DEF OutType, Opcodes
  <2>8. BufferOwned'
    BY <1>0, <1>7, <2>1, <2>4, <2>5 DEF BufferOwned, Held
  <2>9. ErrorRemembered'
    BY <2>2 DEF ErrorRemembered, Faults
  <2> QED
    BY <2>6, <2>7, <2>8, <2>9 DEF DefragInv
<1>8. ASSUME message_opcode' = "CONTINUATION", message_size' = 0, message_data' = NoData,
             allocated' = allocated - Held,
             out' = Result("ESP_OK", TRUE, MessageOpcode(f.opcode),
                           IF new_size > 0 THEN new_data ELSE NoData),
             message_error' = message_error
      PROVE  DefragInv'
  <2>1. PICK d \in Seq(0..255) \cup {NoData} :
          out' = [err |-> "ESP_OK", done |-> TRUE, opcode |-> MessageOpcode(f.opcode), data |-> d]
    <3> HIDE DEF new_size, new_data
    <3> QED
      BY <1>2, <1>8 DEF Result
  <2>2. allocated' = 0
    BY <1>5, <1>8 DEF Held
  <2> HIDE DEF new_size, new_data
  <2>3. TypeOK'
    <3>1. message_error' \in Faults \cup {"ESP_OK"} /\ message_opcode' \in Opcodes
      BY <1>8, <1>0 DEF Opcodes
    <3>2. /\ out'.err \in Faults \cup {"ESP_OK", "none"} /\ out'.done \in BOOLEAN
          /\ out'.opcode \in Opcodes /\ out'.data \in Seq(0..255) \cup {NoData}
      BY <1>1, <2>1
    <3>3. /\ message_size' \in 0..max_message_size /\ allocated' \in 0..1
          /\ message_data' \in Seq(0..255) \cup {NoData}
      BY <1>8, <2>2
    <3> QED
      BY <1>3, <3>1, <3>2, <3>3 DEF TypeOK
  <2>4. OutType'
    BY <1>1, <2>1 DEF OutType
  <2>5. BufferOwned'
    BY <1>8, <2>2 DEF BufferOwned, Held
  <2>6. ErrorRemembered'
    BY <2>1 DEF ErrorRemembered
  <2> QED
    BY <2>3, <2>4, <2>5, <2>6 DEF DefragInv
<1> QED
  BY <1>6, <1>7, <1>8 DEF Extend, Faults

LEMMA FramesBounded ==
  ASSUME TypeOK, NEW f \in Frames, OnDataFrame(f)
  PROVE  frames' \in Seq(Frames) /\ Len(frames') < MaxFrames
<1>1. CASE f.fin
  BY <1>1 DEF OnDataFrame
<1>2. CASE ~f.fin
  <2>1. frames \in Seq(Frames) /\ frames' = Append(frames, f) /\ Len(frames) < MaxFrames - 1
    BY <1>2 DEF OnDataFrame, TypeOK
  <2>2. Len(frames') = Len(frames) + 1 /\ frames' \in Seq(Frames) /\ Len(frames) \in Nat
    BY <2>1
  <2> QED
    BY <2>1, <2>2
<1> QED
  BY <1>1, <1>2

LEMMA OnDataFrameDefrag ==
  ASSUME DefragInv, NEW f \in Frames, OnDataFrame(f) PROVE DefragInv'
<1>1. TypeOK /\ open = TRUE /\ open' = TRUE
  BY DEF DefragInv, TypeOK, OnDataFrame
<1>2. frames' \in Seq(Frames) /\ Len(frames') < MaxFrames
  BY <1>1, FramesBounded
<1>3. CASE Discard(f)
  BY <1>1, <1>2, <1>3, FailDefrag DEF Discard, TypeOK
<1>4. CASE Misplaced(f)
  BY <1>1, <1>2, <1>4, FailDefrag DEF Misplaced, TypeOK, Faults
<1>5. CASE Extend(f)
  BY <1>1, <1>2, <1>5, ExtendDefrag
<1> QED
  BY <1>3, <1>4, <1>5 DEF OnDataFrame

LEMMA NextDefrag == ASSUME DefragInv, [Next]_vars PROVE DefragInv'
<1>1. CASE Start
  <2>1. allocated = 0
    BY <1>1 DEF Start, DefragInv, BufferOwned
  <2>2. OutType' /\ out'.err = "none" /\ out'.done = FALSE
    BY <1>1 DEF Start, OutType, NoResult, Result, Opcodes
  <2> QED
    BY <1>1, <2>1, <2>2 DEF Start, DefragInv, TypeOK, OutType, BufferOwned, ErrorRemembered, Held,
                            Faults, Opcodes, ACCEPT, Utf8States
<1>2. CASE Cleanup
  <2>1. allocated' = 0 /\ open' = FALSE
    BY <1>2 DEF Cleanup, DefragInv, BufferOwned, Freed, Held
  <2>2. TypeOK'
    <3>1. /\ message_error' = message_error /\ message_opcode' = message_opcode
          /\ message_utf8_state' = message_utf8_state /\ message_size' = message_size
          /\ message_data' = message_data /\ out' = out /\ frames' = frames
      BY <1>2 DEF Cleanup
    <3>2. open' \in BOOLEAN
      BY <2>1, Zenon
    <3>3. allocated' \in 0..1
      BY <2>1
    <3> QED
      BY <3>1, <3>2, <3>3 DEF DefragInv, TypeOK
  <2>3. OutType'
    BY <1>2 DEF Cleanup, DefragInv, OutType
  <2>4. BufferOwned'
    BY <1>2, <2>1 DEF Cleanup, DefragInv, BufferOwned
  <2>5. ErrorRemembered'
    BY <2>1 DEF ErrorRemembered
  <2> QED
    BY <2>2, <2>3, <2>4, <2>5 DEF DefragInv
<1>3. CASE UNCHANGED vars
  BY <1>3 DEF vars, msgVars, DefragInv, TypeOK, OutType, BufferOwned, ErrorRemembered, Held
<1> QED
  BY <1>1, <1>2, <1>3, OnDataFrameDefrag DEF Next

-----------------------------------------------------------------------------
(* Theorems                                                                 *)

\* The sizes, states and buffers the defragmenter keeps are what they should be.
THEOREM DefragTypeCorrect == Spec => []TypeOK
<1>1. DefragInv => TypeOK
  BY DEF DefragInv
<1> QED
  BY <1>1, InitDefrag, NextDefrag, PTL DEF Spec

\* No buffer is lost or freed twice, for frames of any size and whatever fails.
THEOREM BufferOwnedAlways == Spec => []BufferOwned
<1>1. DefragInv => BufferOwned
  BY DEF DefragInv
<1> QED
  BY <1>1, InitDefrag, NextDefrag, PTL DEF Spec

\* An error is repeated until its message is over.
THEOREM SameErrorAlways == Spec => SameErrorUntilDone
<1>1. DefragInv /\ [Next]_vars
      => [open /\ open' /\ out.err \in Faults /\ ~out.done => out'.err = out.err]_vars
  <2> SUFFICES ASSUME DefragInv, Next, open, open', out.err \in Faults, ~out.done
               PROVE  out'.err = out.err
    OBVIOUS
  <2>1. message_error = out.err /\ message_error # "ESP_OK"
    BY DEF DefragInv, ErrorRemembered, Faults
  <2>2. PICK f \in Frames : OnDataFrame(f)
    BY DEF Next, Start, Cleanup
  <2>3. Discard(f)
    BY <2>1, <2>2 DEF OnDataFrame, Misplaced, Extend
  <2> QED
    BY <2>1, <2>3 DEF Discard, Fail, Result
<1> QED
  BY <1>1, InitDefrag, NextDefrag, PTL DEF Spec, SameErrorUntilDone

-----------------------------------------------------------------------------
(* The data of a message, which MessageStream concatenates from all frames   *)

\* The payloads of n frames, put together one after the other.
Gathered(m, gather, n) ==
  gather = [i \in 1..n |-> IF i = 1 THEN m[i].payload ELSE gather[i - 1] \o m[i].payload]

LEMMA GatherExists == ASSUME NEW m, NEW n \in Nat PROVE \E gather : Gathered(m, gather, n)
<1> DEFINE S == {k \in Nat : \E gather : Gathered(m, gather, k)}
<1>1. 0 \in S
  <2> DEFINE g == [i \in 1..0 |-> <<>>]
  <2>1. g = [i \in 1..0 |-> IF i = 1 THEN m[i].payload ELSE g[i - 1] \o m[i].payload]
    OBVIOUS
  <2> QED
    BY <2>1 DEF Gathered
<1>2. ASSUME NEW k \in Nat, k \in S PROVE k + 1 \in S
  <2>1. PICK f : Gathered(m, f, k)
    BY <1>2
  <2> DEFINE Piece(g, i) == IF i = 1 THEN m[i].payload ELSE g[i - 1] \o m[i].payload
             g == [i \in 1..(k + 1) |-> Piece(f, i)]
  <2>2. f = [i \in 1..k |-> Piece(f, i)]
    BY <2>1, Zenon DEF Gathered
  <2>3. \A i \in 1..(k + 1) : g[i] = Piece(f, i)
    BY Zenon
  <2>4. \A i \in 1..k : i \in 1..(k + 1) /\ f[i] = Piece(f, i)
    <3>1. \A i \in 1..k : i \in 1..(k + 1)
      OBVIOUS
    <3> HIDE DEF Piece, g
    <3> QED
      BY <2>2, <3>1, Zenon
  <2>5. ASSUME NEW i \in 1..(k + 1) PROVE Piece(f, i) = Piece(g, i)
    <3>1. CASE i = 1
      BY <3>1
    <3>2. CASE i # 1
      <4>1. i - 1 \in 1..k
        BY <3>2
      <4>2. g[i - 1] = f[i - 1]
        <5> HIDE DEF Piece, g
        <5> QED
          BY <2>3, <2>4, <4>1, Zenon
      <4> HIDE DEF g
      <4> QED
        BY <4>2, Zenon
    <3> QED
      BY <3>1, <3>2
  <2>6. [i \in 1..(k + 1) |-> Piece(f, i)] = [i \in 1..(k + 1) |-> Piece(g, i)]
    <3> HIDE DEF Piece
    <3> QED
      BY <2>5, Zenon
  <2>7. Gathered(m, g, k + 1)
    BY <2>6, Zenon DEF Gathered
  <2>8. k + 1 \in Nat
    OBVIOUS
  <2> HIDE DEF g
  <2> QED
    BY <2>7, <2>8
<1> HIDE DEF S
<1>3. Nat \subseteq S
  BY <1>1, <1>2, SetInduction
<1> QED
  BY <1>3 DEF S

LEMMA DataUnfolds ==
  ASSUME NEW m \in Seq(Frames), m # <<>>
  PROVE  \E gather : Gathered(m, gather, Len(m)) /\ Stream!Data(m) = gather[Len(m)]
<1> DEFINE seqs == [i \in DOMAIN m |-> m[i].payload]
           n == Len(m)
           it == CHOOSE it : it = [i \in 1..Len(seqs) |->
                                     IF i = 1 THEN seqs[i] ELSE it[i - 1] \o seqs[i]]
<1>1. n \in Nat /\ n # 0 /\ DOMAIN m = 1..n /\ Len(seqs) = n
  BY LenProperties, EmptySeq
<1>2. Stream!Data(m) = it[Len(seqs)]
  <2>1. Stream!FlattenSeq(seqs) = IF Len(seqs) = 0 THEN seqs ELSE it[Len(seqs)]
    BY Zenon DEF Stream!FlattenSeq
  <2>2. Stream!Data(m) = Stream!FlattenSeq(seqs)
    BY Zenon DEF Stream!Data
  <2> HIDE DEF seqs, it
  <2> QED
    BY <1>1, <2>1, <2>2, Zenon
<1>3. PICK f : Gathered(m, f, n)
  BY <1>1, GatherExists
<1>4. \A i \in 1..n : seqs[i] = m[i].payload
  BY <1>1
<1>5. ASSUME NEW g
      PROVE  [i \in 1..Len(seqs) |-> IF i = 1 THEN seqs[i] ELSE g[i - 1] \o seqs[i]]
             = [i \in 1..n |-> IF i = 1 THEN m[i].payload ELSE g[i - 1] \o m[i].payload]
  <2> HIDE DEF seqs, n
  <2> QED
    BY <1>1, <1>4, Zenon
<1>6. f = [i \in 1..Len(seqs) |-> IF i = 1 THEN seqs[i] ELSE f[i - 1] \o seqs[i]]
  BY <1>3, <1>5, Zenon DEF Gathered
<1>7. it = [i \in 1..Len(seqs) |-> IF i = 1 THEN seqs[i] ELSE it[i - 1] \o seqs[i]]
  <2> HIDE DEF seqs
  <2> QED
    BY <1>6, Zenon
<1> HIDE DEF it
<1>8. Gathered(m, it, n)
  BY <1>5, <1>7, Zenon DEF Gathered
<1> QED
  BY <1>1, <1>2, <1>8

\* A message that begins like another is put together like it.
LEMMA GatherAgrees ==
  ASSUME NEW m, NEW p, NEW f, NEW g, NEW k \in Nat, NEW l \in Nat, k <= l,
         Gathered(m, f, k), Gathered(p, g, l), \A i \in 1..k : m[i] = p[i]
  PROVE  \A i \in 1..k : f[i] = g[i]
<1>0. \A i \in 1..k : i \in 1..l
  OBVIOUS
<1>1. \A i \in 1..k : f[i] = IF i = 1 THEN m[i].payload ELSE f[i - 1] \o m[i].payload
  <2>1. f = [i \in 1..k |-> IF i = 1 THEN m[i].payload ELSE f[i - 1] \o m[i].payload]
    BY Zenon DEF Gathered
  <2> QED
    BY <1>0, <2>1, Zenon
<1>2. \A i \in 1..k : g[i] = IF i = 1 THEN p[i].payload ELSE g[i - 1] \o p[i].payload
  <2>1. g = [i \in 1..l |-> IF i = 1 THEN p[i].payload ELSE g[i - 1] \o p[i].payload]
    BY Zenon DEF Gathered
  <2> QED
    BY <1>0, <2>1, Zenon
<1> DEFINE S == {j \in Nat : j \in 1..k => f[j] = g[j]}
<1>3. 0 \in S
  OBVIOUS
<1>4. ASSUME NEW j \in Nat, j \in S PROVE j + 1 \in S
  <2> SUFFICES ASSUME j + 1 \in 1..k PROVE f[j + 1] = g[j + 1]
    OBVIOUS
  <2>1. m[j + 1] = p[j + 1] /\ (j + 1) - 1 = j
    OBVIOUS
  <2>2. CASE j = 0
    <3>1. j + 1 = 1
      BY <2>2
    <3> QED
      BY <1>1, <1>2, <2>1, <3>1, Zenon
  <2>3. CASE j # 0
    <3>1. j + 1 # 1 /\ f[j] = g[j]
      BY <1>4, <2>3
    <3>2. f[j + 1] = f[(j + 1) - 1] \o m[j + 1].payload
      BY <1>1, <3>1, Zenon
    <3>3. g[j + 1] = g[(j + 1) - 1] \o p[j + 1].payload
      BY <1>2, <3>1, Zenon
    <3> QED
      BY <2>1, <3>1, <3>2, <3>3, Zenon
  <2> QED
    BY <2>2, <2>3
<1> HIDE DEF S
<1>5. Nat \subseteq S
  BY <1>3, <1>4, SetInduction
<1> QED
  BY <1>5 DEF S

\* Without a frame there are no data, and another frame appends its payload.
LEMMA DataOfAppend ==
  ASSUME NEW m \in Seq(Frames), NEW f \in Frames
  PROVE  /\ m = <<>> => Stream!Data(Append(m, f)) = f.payload
         /\ m # <<>> => Stream!Data(Append(m, f)) = Stream!Data(m) \o f.payload
<1> DEFINE p == Append(m, f)
           n == Len(m)
<1>1. /\ n \in Nat /\ p \in Seq(Frames) /\ p # <<>> /\ Len(p) = n + 1 /\ p[n + 1] = f
      /\ \A i \in 1..n : p[i] = m[i]
      /\ m = <<>> <=> n = 0
  BY AppendProperties, LenProperties, EmptySeq
<1>2. PICK g : Gathered(p, g, n + 1) /\ Stream!Data(p) = g[n + 1]
  <2> HIDE DEF p, n
  <2> QED
    BY <1>1, DataUnfolds
<1>3. g[n + 1] = IF n + 1 = 1 THEN f.payload ELSE g[(n + 1) - 1] \o f.payload
  <2>1. g = [i \in 1..(n + 1) |-> IF i = 1 THEN p[i].payload ELSE g[i - 1] \o p[i].payload]
    BY <1>2, Zenon DEF Gathered
  <2>2. n + 1 \in 1..(n + 1)
    BY <1>1
  <2> HIDE DEF p, n
  <2> QED
    BY <1>1, <2>1, <2>2, Zenon
<1> HIDE DEF p, n
<1>4. CASE m = <<>>
  BY <1>1, <1>2, <1>3, <1>4 DEF p
<1>5. CASE m # <<>>
  <2>1. PICK h : Gathered(m, h, n) /\ Stream!Data(m) = h[n]
    BY <1>5, DataUnfolds DEF n
  <2>2. n >= 1 /\ n + 1 # 1 /\ (n + 1) - 1 = n /\ n + 1 \in Nat /\ n <= n + 1 /\ n \in 1..n
    BY <1>1, <1>5
  <2>3. \A i \in 1..n : g[i] = h[i]
    <3>1. n \in Nat /\ \A i \in 1..n : m[i] = p[i]
      BY <1>1
    <3>2. Gathered(p, g, n + 1) /\ Gathered(m, h, n)
      BY <1>2, <2>1
    <3>3. \A i \in 1..n : h[i] = g[i]
      BY <2>2, <3>1, <3>2, GatherAgrees
    <3> QED
      BY <3>3
  <2> QED
    BY <1>2, <1>3, <1>5, <2>1, <2>2, <2>3 DEF p
<1> QED
  BY <1>4, <1>5

-----------------------------------------------------------------------------
(* What the code keeps of a message says all that MessageStream asks        *)

Contents == IF message_data = NoData THEN <<>> ELSE message_data

\* The message so far is in good order, and the code knows its kind, its data
\* and, if it is text, the state of the validator.
InGoodOrder ==
  /\ message_opcode # "CONTINUATION" /\ message_opcode = frames[1].opcode
  /\ Stream!InOrder(frames)
  /\ Contents = Stream!Data(frames)
  /\ message_opcode = "TEXT" => message_utf8_state = validate_state(ACCEPT, Contents)

Linked ==
  /\ frames = <<>> => message_opcode = "CONTINUATION" /\ message_error = "ESP_OK"
  /\ frames # <<>> /\ message_error = "ESP_OK" => InGoodOrder

StreamInv == DefragInv /\ Linked

\* A frame whose place is right keeps the frames in order, and no other does.
LEMMA PlaceIsOrder ==
  ASSUME StreamInv, message_error = "ESP_OK", NEW f \in Frames
  PROVE  /\ OutOfPlace(f.opcode) <=> ~Stream!InOrder(Append(frames, f))
         /\ ~OutOfPlace(f.opcode) => MessageOpcode(f.opcode) = Append(frames, f)[1].opcode
                                     /\ MessageOpcode(f.opcode) # "CONTINUATION"
<1> DEFINE m == Append(frames, f)
           n == Len(frames)
<1>1. /\ n \in Nat /\ Len(m) = n + 1 /\ DOMAIN m = 1..(n + 1) /\ DOMAIN frames = 1..n
      /\ m[n + 1] = f /\ \A i \in 1..n : m[i] = frames[i]
      /\ frames = <<>> <=> n = 0
  BY AppendProperties, LenProperties, EmptySeq DEF StreamInv, DefragInv, TypeOK
<1> HIDE DEF m, n
<1>2. Stream!InOrder(m) <=> \A i \in 1..(n + 1) : i = 1 <=> m[i].opcode # "CONTINUATION"
  BY <1>1 DEF Stream!InOrder
<1>3. CASE frames = <<>>
  <2>1. message_opcode = "CONTINUATION" /\ n = 0
    BY <1>1, <1>3 DEF StreamInv, Linked
  <2>2. Stream!InOrder(m) <=> f.opcode # "CONTINUATION"
    BY <1>1, <1>2, <2>1
  <2>3. m[1] = f
    BY <1>1, <2>1
  <2> QED
    BY <2>1, <2>2, <2>3 DEF OutOfPlace, MessageOpcode, m
<1>4. CASE frames # <<>>
  <2>1. /\ message_opcode # "CONTINUATION" /\ message_opcode = frames[1].opcode
        /\ Stream!InOrder(frames) /\ n >= 1
    BY <1>1, <1>4 DEF StreamInv, Linked, InGoodOrder
  <2>2. \A i \in 1..n : i = 1 <=> m[i].opcode # "CONTINUATION"
    BY <1>1, <2>1 DEF Stream!InOrder
  <2>3. Stream!InOrder(m) <=> f.opcode = "CONTINUATION"
    BY <1>1, <1>2, <2>1, <2>2
  <2>4. m[1] = frames[1]
    BY <1>1, <2>1
  <2> QED
    BY <2>1, <2>3, <2>4 DEF OutOfPlace, MessageOpcode, m
<1> QED
  BY <1>3, <1>4

\* What Extend computes for a frame in its place, in terms of the frames.
LEMMA ExtendComputes ==
  ASSUME StreamInv, message_error = "ESP_OK", NEW f \in Frames, ~OutOfPlace(f.opcode)
  PROVE  LET data == Stream!Data(Append(frames, f))
         IN  /\ data \in Text
             /\ Contents \o f.payload = data
             /\ message_size + Len(f.payload) = Len(data)
             /\ (IF message_data = NoData THEN f.payload ELSE message_data \o f.payload) = data
             /\ MessageOpcode(f.opcode) = "TEXT" => EndState(f) = validate_state(ACCEPT, data)
<1> DEFINE data == Stream!Data(Append(frames, f))
<1>1. /\ frames \in Seq(Frames) /\ f.payload \in Text
      /\ message_data \in Text \cup {NoData} /\ NoData \notin Text
      /\ message_size = IF message_data = NoData THEN 0 ELSE Len(message_data)
      /\ message_utf8_state \in Utf8States
  BY DEF StreamInv, DefragInv, TypeOK, BufferOwned, Frames, Text, Byte
<1>2. Contents \in Text /\ Len(Contents) = message_size
  BY <1>1, EmptySeq DEF Contents, Text
<1>3. Contents \o f.payload = data
  <2>1. CASE frames = <<>>
    <3>1. message_data = NoData
      BY <2>1 DEF StreamInv, DefragInv, BufferOwned, Linked
    <3>2. data = f.payload
      BY <1>1, <2>1, DataOfAppend
    <3> HIDE DEF data
    <3> QED
      BY <1>1, <3>1, <3>2, ConcatEmptySeq DEF Contents, Text
  <2>2. CASE frames # <<>>
    BY <1>1, <2>2, DataOfAppend DEF StreamInv, Linked, InGoodOrder
  <2> QED
    BY <2>1, <2>2
<1> HIDE DEF data
<1>4. data \in Text /\ Len(data) = message_size + Len(f.payload)
  <2>1. Contents \in Seq(Byte) /\ f.payload \in Seq(Byte)
    BY <1>1, <1>2 DEF Text
  <2>2. /\ Contents \o f.payload \in Seq(Byte)
        /\ Len(Contents \o f.payload) = Len(Contents) + Len(f.payload)
    BY <2>1, ConcatProperties
  <2> QED
    BY <1>2, <1>3, <2>2 DEF Text
<1>5. (IF message_data = NoData THEN f.payload ELSE message_data \o f.payload) = data
  <2>1. <<>> \o f.payload = f.payload
    BY <1>1, ConcatEmptySeq DEF Text
  <2> QED
    BY <1>3, <2>1 DEF Contents
<1>6. ASSUME MessageOpcode(f.opcode) = "TEXT" PROVE EndState(f) = validate_state(ACCEPT, data)
  <2>0. ACCEPT \in Utf8States
    BY DEF ACCEPT, Utf8States
  <2>1. StartState(f.opcode) = validate_state(ACCEPT, Contents)
    <3>1. CASE message_opcode = "CONTINUATION"
      <4>1. Contents = <<>> /\ StartState(f.opcode) = ACCEPT
        BY <3>1 DEF StreamInv, DefragInv, BufferOwned, Contents, StartState
      <4>2. validate_state(ACCEPT, <<>>) = ACCEPT
        <5>1. <<>> \in Text /\ Len(<<>>) = 0
          BY EmptySeq DEF Text
        <5> QED
          BY <2>0, <5>1, RunOf DEF IsRun
      <4> QED
        BY <4>1, <4>2
    <3>2. CASE message_opcode # "CONTINUATION"
      BY <1>6, <3>2 DEF StreamInv, Linked, InGoodOrder, StartState, MessageOpcode
    <3> QED
      BY <3>1, <3>2
  <2>2. EndState(f) = validate_state(StartState(f.opcode), f.payload)
    BY <1>6 DEF EndState
  <2>3. validate_state(ACCEPT, Contents \o f.payload)
          = validate_state(validate_state(ACCEPT, Contents), f.payload)
    BY <1>1, <1>2, <2>0, ValidateConcat
  <2> QED
    BY <1>3, <2>1, <2>2, <2>3
<1> QED
  BY <1>3, <1>4, <1>5, <1>6 DEF data

\* The code finds fault with a text exactly when MessageStream does.
LEMMA BadTextIsBad ==
  ASSUME StreamInv, message_error = "ESP_OK", NEW f \in Frames, ~OutOfPlace(f.opcode)
  PROVE  BadText(f) <=> ~Stream!TextOK(Append(frames, f))
<1> DEFINE m == Append(frames, f)
           data == Stream!Data(m)
<1>1. m[Len(m)] = f
  BY AppendProperties, LenProperties DEF StreamInv, DefragInv, TypeOK
<1>2. MessageOpcode(f.opcode) = m[1].opcode
  BY PlaceIsOrder
<1>3. data \in Text /\ (m[1].opcode = "TEXT" => EndState(f) = validate_state(ACCEPT, data))
  BY <1>2, ExtendComputes
<1>4. Stream!TextOK(m) <=>
        (m[1].opcode = "TEXT" => IF f.fin THEN WellFormed(data) ELSE Completable(data))
  BY <1>1 DEF Stream!TextOK
<1>5. BadText(f) <=> m[1].opcode = "TEXT" /\ (EndState(f) = REJECT \/ (f.fin /\ EndState(f) # ACCEPT))
  BY <1>2 DEF BadText
<1> HIDE DEF m, data
<1>6. /\ validate_state(ACCEPT, data) = ACCEPT <=> WellFormed(data)
      /\ validate_state(ACCEPT, data) = REJECT <=> ~Completable(data)
      /\ ACCEPT # REJECT
  BY <1>3, AcceptsExactly, RejectsExactly DEF ACCEPT, REJECT
<1> QED
  BY <1>3, <1>4, <1>5, <1>6 DEF m

-----------------------------------------------------------------------------
(* The steps                                                                *)

\* What MessageStream may answer to a frame of a message that has no error yet.
LEMMA VerdictsAre ==
  ASSUME NEW m
  PROVE  /\ ~Stream!InOrder(m) => "ESP_FAIL" \in Stream!Verdicts(m)
         /\ Stream!InOrder(m) /\ ~Stream!TextOK(m)
              => "ESP_ERR_INVALID_RESPONSE" \in Stream!Verdicts(m)
         /\ Stream!InOrder(m) /\ Stream!TextOK(m) /\ Len(Stream!Data(m)) > max_message_size
              => "ESP_ERR_INVALID_SIZE" \in Stream!Verdicts(m)
         /\ Stream!InOrder(m) /\ Stream!TextOK(m) /\ ~(Len(Stream!Data(m)) > max_message_size)
              => /\ "ESP_OK" \in Stream!Verdicts(m)
                 /\ Stream!Data(m) # <<>> => "ESP_ERR_NO_MEM" \in Stream!Verdicts(m)
<1>1. ~Stream!InOrder(m) => "ESP_FAIL" \in Stream!Verdicts(m)
  BY DEF Stream!Verdicts
<1>2. Stream!InOrder(m) /\ ~Stream!TextOK(m)
        => "ESP_ERR_INVALID_RESPONSE" \in Stream!Verdicts(m)
  BY DEF Stream!Verdicts
<1>3. Stream!InOrder(m) /\ Stream!TextOK(m) /\ Len(Stream!Data(m)) > max_message_size
        => "ESP_ERR_INVALID_SIZE" \in Stream!Verdicts(m)
  BY DEF Stream!Verdicts
<1>4. Stream!InOrder(m) /\ Stream!TextOK(m) /\ ~(Len(Stream!Data(m)) > max_message_size)
        => Stream!Verdicts(m) = {"ESP_OK"} \cup (IF Stream!Data(m) # <<>> THEN {"ESP_ERR_NO_MEM"} ELSE {})
  BY DEF Stream!Verdicts
<1> QED
  BY <1>1, <1>2, <1>3, <1>4

\* An answer of MessageStream, from the verdict that the code comes to.
LEMMA Answers ==
  ASSUME StreamInv, NEW f \in Frames, OnDataFrame(f), NEW err,
         IF message_error = "ESP_OK" THEN err \in Stream!Verdicts(Append(frames, f))
                                     ELSE err = message_error,
         message_error' = IF f.fin THEN "ESP_OK" ELSE err,
         out' = IF err = "ESP_OK" /\ f.fin
                  THEN Result(err, TRUE, Append(frames, f)[1].opcode,
                              IF Stream!Data(Append(frames, f)) # <<>>
                                THEN Stream!Data(Append(frames, f)) ELSE NoData)
                  ELSE Result(err, f.fin, "CONTINUATION", NoData)
  PROVE  Stream!Receive(f)
<1> DEFINE m == Append(frames, f)
<1>1. f.fin \in BOOLEAN
  BY DEF Frames
<1>2. f.fin \/ Len(m) < MaxFrames
  BY <1>1, AppendProperties DEF OnDataFrame, StreamInv, DefragInv, TypeOK
<1>3. frames' = IF f.fin THEN <<>> ELSE m
  BY DEF OnDataFrame
<1>4. out' = [err |-> err, done |-> f.fin,
              opcode |-> IF err = "ESP_OK" /\ f.fin THEN m[1].opcode ELSE "CONTINUATION",
              data |-> IF err = "ESP_OK" /\ f.fin /\ Stream!Data(m) # <<>>
                         THEN Stream!Data(m) ELSE NoData]
  <2>1. CASE err = "ESP_OK" /\ f.fin
    BY <1>1, <2>1 DEF Result
  <2>2. CASE ~(err = "ESP_OK" /\ f.fin)
    BY <1>1, <2>2 DEF Result
  <2> QED
    BY <2>1, <2>2
<1>5. err \in IF message_error = "ESP_OK" THEN Stream!Verdicts(m) ELSE {message_error}
  OBVIOUS
<1> HIDE DEF m
<1> QED
  BY <1>2, <1>3, <1>4, <1>5, Zenon DEF Stream!Receive, m

\* After a failure nothing is known of the message, and nothing has to be.
LEMMA FailLinked ==
  ASSUME NEW err \in Faults, NEW f \in Frames, OnDataFrame(f), Fail(err, f.fin), TypeOK
  PROVE  Linked'
<1>1. /\ message_opcode' = "CONTINUATION"
      /\ message_error' = IF f.fin THEN "ESP_OK" ELSE err
      /\ err # "ESP_OK"
  BY DEF Fail, ErrorAfter, Faults
<1>2. frames' = (IF f.fin THEN <<>> ELSE Append(frames, f)) /\ Append(frames, f) # <<>>
  BY AppendProperties DEF OnDataFrame, TypeOK
<1> QED
  BY <1>1, <1>2 DEF Linked

LEMMA DiscardStep ==
  ASSUME StreamInv, NEW f \in Frames, OnDataFrame(f), Discard(f)
  PROVE  Stream!Receive(f) /\ Linked'
<1>1. /\ message_error \in Faults /\ message_error # "ESP_OK" /\ TypeOK
      /\ Fail(message_error, f.fin)
  BY DEF Discard, StreamInv, DefragInv, TypeOK
<1>2. /\ message_error' = IF f.fin THEN "ESP_OK" ELSE message_error
      /\ out' = Result(message_error, f.fin, "CONTINUATION", NoData)
  BY <1>1 DEF Fail, ErrorAfter
<1>3. Stream!Receive(f)
  BY <1>1, <1>2, Answers
<1> QED
  BY <1>1, <1>3, FailLinked

LEMMA MisplacedStep ==
  ASSUME StreamInv, NEW f \in Frames, OnDataFrame(f), Misplaced(f)
  PROVE  Stream!Receive(f) /\ Linked'
<1>1. /\ message_error = "ESP_OK" /\ OutOfPlace(f.opcode) /\ Fail("ESP_FAIL", f.fin) /\ TypeOK
      /\ "ESP_FAIL" \in Faults /\ "ESP_FAIL" # "ESP_OK"
  BY DEF Misplaced, StreamInv, DefragInv, Faults
<1>2. /\ message_error' = IF f.fin THEN "ESP_OK" ELSE "ESP_FAIL"
      /\ out' = Result("ESP_FAIL", f.fin, "CONTINUATION", NoData)
  BY <1>1 DEF Fail, ErrorAfter
<1>3. "ESP_FAIL" \in Stream!Verdicts(Append(frames, f))
  BY <1>1, PlaceIsOrder, VerdictsAre
<1>4. Stream!Receive(f)
  BY <1>1, <1>2, <1>3, Answers
<1> QED
  BY <1>1, <1>4, FailLinked

LEMMA ExtendStep ==
  ASSUME StreamInv, NEW f \in Frames, OnDataFrame(f), Extend(f)
  PROVE  Stream!Receive(f) /\ Linked'
<1> DEFINE m == Append(frames, f)
           data == Stream!Data(m)
           new_size == message_size + Len(f.payload)
           new_data == IF message_data = NoData THEN f.payload ELSE message_data \o f.payload
<1>1. /\ message_error = "ESP_OK" /\ ~OutOfPlace(f.opcode) /\ TypeOK
      /\ message_utf8_state' = EndState(f) /\ f.fin \in BOOLEAN
  BY DEF Extend, StreamInv, DefragInv, Frames
<1>2. /\ Stream!InOrder(m) /\ MessageOpcode(f.opcode) = m[1].opcode
      /\ MessageOpcode(f.opcode) # "CONTINUATION"
  BY <1>1, PlaceIsOrder
<1>3. BadText(f) <=> ~Stream!TextOK(m)
  BY <1>1, BadTextIsBad
<1>4. /\ data \in Text /\ new_size = Len(data) /\ new_data = data
      /\ MessageOpcode(f.opcode) = "TEXT" => EndState(f) = validate_state(ACCEPT, data)
  BY <1>1, ExtendComputes
<1>5. /\ Len(data) \in Nat /\ (new_size > 0 <=> data # <<>>) /\ data # NoData
  <2>1. data \in Seq(0..255)
    BY <1>4 DEF Text, Byte
  <2> HIDE DEF data, new_size
  <2> QED
    BY <1>4, <2>1, LenProperties, EmptySeq
<1>6. TooBig(f) <=> Len(data) > max_message_size
  BY <1>4 DEF TooBig
<1>7. frames' = (IF f.fin THEN <<>> ELSE m) /\ m # <<>>
  BY <1>1, AppendProperties DEF OnDataFrame, TypeOK
<1>8. \A err : /\ err \in Stream!Verdicts(m)
               /\ message_error' = (IF f.fin THEN "ESP_OK" ELSE err)
               /\ out' = (IF err = "ESP_OK" /\ f.fin
                            THEN Result(err, TRUE, m[1].opcode, IF data # <<>> THEN data ELSE NoData)
                            ELSE Result(err, f.fin, "CONTINUATION", NoData))
               => Stream!Receive(f)
  BY <1>1, Answers
<1> HIDE DEF data, new_size, new_data
<1>9. ASSUME NEW err \in Faults, err \in Stream!Verdicts(m), Fail(err, f.fin)
      PROVE  Stream!Receive(f) /\ Linked'
  <2>1. /\ message_error' = (IF f.fin THEN "ESP_OK" ELSE err) /\ err # "ESP_OK"
        /\ out' = Result(err, f.fin, "CONTINUATION", NoData)
    BY <1>9 DEF Fail, ErrorAfter, Faults
  <2>2. Stream!Receive(f)
    BY <1>8, <1>9, <2>1
  <2> QED
    BY <1>1, <1>9, <2>2, FailLinked
<1>10. CASE BadText(f) /\ Fail("ESP_ERR_INVALID_RESPONSE", f.fin)
  <2>1. "ESP_ERR_INVALID_RESPONSE" \in Stream!Verdicts(m)
    BY <1>2, <1>3, <1>10, VerdictsAre
  <2> QED
    BY <1>9, <1>10, <2>1 DEF Faults
<1>11. CASE ~BadText(f) /\ TooBig(f) /\ Fail("ESP_ERR_INVALID_SIZE", f.fin)
  <2>1. "ESP_ERR_INVALID_SIZE" \in Stream!Verdicts(m)
    BY <1>2, <1>3, <1>6, <1>11, VerdictsAre DEF data
  <2> QED
    BY <1>9, <1>11, <2>1 DEF Faults
<1>12. CASE ~BadText(f) /\ ~TooBig(f) /\ new_size > 0 /\ Fail("ESP_ERR_NO_MEM", f.fin)
  <2>1. "ESP_ERR_NO_MEM" \in Stream!Verdicts(m)
    BY <1>2, <1>3, <1>5, <1>6, <1>12, VerdictsAre DEF data
  <2> QED
    BY <1>9, <1>12, <2>1 DEF Faults
<1>13. ~BadText(f) /\ ~TooBig(f) => "ESP_OK" \in Stream!Verdicts(m)
  BY <1>2, <1>3, <1>6, VerdictsAre DEF data
<1>14. CASE /\ ~BadText(f) /\ ~TooBig(f) /\ ~f.fin
            /\ message_opcode' = MessageOpcode(f.opcode)
            /\ message_data' = IF new_size > 0 THEN new_data ELSE NoData
            /\ out' = Result("ESP_OK", FALSE, "CONTINUATION", NoData)
            /\ UNCHANGED message_error
  <2>1. Stream!Receive(f)
    <3>1. f.fin = FALSE /\ message_error' = "ESP_OK"
      BY <1>1, <1>14
    <3> QED
      BY <1>8, <1>13, <1>14, <3>1
  <2>2. Contents' = data
    BY <1>4, <1>5, <1>14 DEF Contents
  <2>3. frames' = m /\ m # <<>>
    BY <1>7, <1>14
  <2>4. InGoodOrder'
    BY <1>1, <1>2, <1>4, <1>14, <2>2, <2>3 DEF InGoodOrder, data
  <2> QED
    BY <2>1, <2>3, <2>4 DEF Linked
<1>15. CASE /\ ~BadText(f) /\ ~TooBig(f) /\ f.fin
            /\ message_opcode' = "CONTINUATION"
            /\ out' = Result("ESP_OK", TRUE, MessageOpcode(f.opcode),
                             IF new_size > 0 THEN new_data ELSE NoData)
            /\ UNCHANGED message_error
  <2>1. out' = Result("ESP_OK", TRUE, m[1].opcode, IF data # <<>> THEN data ELSE NoData)
    BY <1>2, <1>4, <1>5, <1>15
  <2>2. Stream!Receive(f)
    BY <1>1, <1>8, <1>13, <1>15, <2>1
  <2>3. Linked'
    BY <1>1, <1>7, <1>15 DEF Linked
  <2> QED
    BY <2>2, <2>3
<1> QED
  BY <1>10, <1>11, <1>12, <1>14, <1>15 DEF Extend, new_size, new_data

LEMMA InitStream == Init => StreamInv /\ Stream!Init
<1> SUFFICES ASSUME Init PROVE StreamInv /\ Stream!Init
  OBVIOUS
<1>1. DefragInv
  BY InitDefrag
<1>2. Linked
  BY DEF Init, Linked
<1>3. Stream!Init
  BY DEF Init, Stream!Init, NoResult, Result
<1> QED
  BY <1>1, <1>2, <1>3 DEF StreamInv

LEMMA NextStream ==
  ASSUME StreamInv, [Next]_vars
  PROVE  StreamInv' /\ [Stream!Next]_(Stream!vars)
<1>1. DefragInv'
  BY NextDefrag DEF StreamInv
<1>2. CASE Start
  <2>1. Stream!Restart
    BY <1>2 DEF Start, Stream!Restart, NoResult, Result
  <2>2. Linked'
    BY <1>2 DEF Start, Linked
  <2> QED
    BY <1>1, <2>1, <2>2 DEF StreamInv, Stream!Next
<1>3. ASSUME UNCHANGED <<message_error, message_opcode, message_utf8_state, message_data, out, frames>>
      PROVE  Linked' /\ UNCHANGED Stream!vars
  <2>1. Contents' = Contents
    BY <1>3 DEF Contents
  <2>2. Linked'
    BY <1>3, <2>1 DEF StreamInv, Linked, InGoodOrder
  <2> QED
    BY <1>3, <2>2 DEF Stream!vars
<1>4. CASE Cleanup \/ UNCHANGED vars
  BY <1>1, <1>3, <1>4 DEF Cleanup, vars, msgVars, StreamInv
<1>5. ASSUME NEW f \in Frames, OnDataFrame(f) PROVE StreamInv' /\ [Stream!Next]_(Stream!vars)
  <2>1. Stream!Receive(f) /\ Linked'
    BY <1>5, DiscardStep, MisplacedStep, ExtendStep DEF OnDataFrame
  <2>2. f \in [fin : BOOLEAN, opcode : Stream!Opcodes, payload : Payloads]
    BY DEF Frames, Opcodes, Stream!Opcodes
  <2> QED
    BY <1>1, <2>1, <2>2 DEF StreamInv, Stream!Next
<1> QED
  BY <1>2, <1>4, <1>5 DEF Next

\* The defragmenter implements MessageStream: what it keeps between two frames
\* is enough to give every message, and the error of every bad one, at the frame
\* at which it is known.
THEOREM ImplementsStreamAlways == Spec => ImplementsStream
<1>1. StreamInv /\ [Next]_vars => StreamInv' /\ [Stream!Next]_(Stream!vars)
  BY NextStream
<1> QED
  BY <1>1, InitStream, PTL DEF Spec, ImplementsStream, Stream!Spec
=============================================================================
