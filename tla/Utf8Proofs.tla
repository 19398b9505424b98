------------------------------ MODULE Utf8Proofs ------------------------------
(***************************************************************************)
(* Proofs about Utf8Validation, for texts and chunks of any size over any   *)
(* set of bytes.                                                            *)
(***************************************************************************)
EXTENDS Utf8Validation, Utf8Theorems

\* However the text was cut up, the state is that of the whole text.
Inv ==
  /\ text \in Seq(Bytes)
  /\ state = validate_state(ACCEPT, text)
  /\ Len(text) <= MaxText

LEMMA BytesAreText == Seq(Bytes) \subseteq Text
<1> SUFFICES ASSUME NEW t \in Seq(Bytes) PROVE t \in Text
  OBVIOUS
<1>1. Len(t) \in Nat /\ \A k \in 1..Len(t) : t[k] \in Byte
  BY LenProperties, ElementOfSeq, BytesAssumption DEF Byte
<1>2. t = [k \in 1..Len(t) |-> t[k]]
  BY LenProperties
<1> QED
  BY <1>1, <1>2, IsASeq DEF Text

LEMMA ChunkIsSeq == ASSUME NEW chunk \in Chunks PROVE chunk \in Seq(Bytes)
<1>1. PICK n \in 0..MaxChunk : chunk \in [1..n -> Bytes]
  BY DEF Chunks
<1>2. n \in Nat
  BY BoundsAssumption
<1> QED
  BY <1>1, <1>2

LEMMA ValidateNothing == validate_state(ACCEPT, <<>>) = ACCEPT
<1>1. <<>> \in Text /\ ACCEPT \in Utf8States /\ Len(<<>>) = 0
  BY EmptySeq DEF Text, ACCEPT, Utf8States
<1> QED
  BY <1>1, RunOf DEF IsRun

LEMMA InitInv == Init => Inv
<1>1. <<>> \in Seq(Bytes) /\ Len(<<>>) = 0
  BY EmptySeq
<1> QED
  BY <1>1, ValidateNothing, BoundsAssumption DEF Init, Inv

LEMMA NextInv == Inv /\ [\E chunk \in Chunks : Read(chunk)]_vars => Inv'
<1> SUFFICES ASSUME Inv, [\E chunk \in Chunks : Read(chunk)]_vars PROVE Inv'
  OBVIOUS
<1>1. ASSUME NEW chunk \in Chunks, Read(chunk) PROVE Inv'
  <2>1. /\ text \in Seq(Bytes) /\ chunk \in Seq(Bytes)
        /\ text \in Text /\ chunk \in Text /\ ACCEPT \in Utf8States
    BY ChunkIsSeq, BytesAreText DEF Inv, ACCEPT, Utf8States
  <2>2. text \o chunk \in Seq(Bytes) /\ Len(text \o chunk) = Len(text) + Len(chunk)
    BY <2>1, ConcatProperties
  <2>3. validate_state(ACCEPT, text \o chunk) = validate_state(state, chunk)
    BY <2>1, ValidateConcat DEF Inv
  <2> QED
    BY <1>1, <2>2, <2>3 DEF Inv, Read
<1>2. CASE UNCHANGED vars
  BY <1>2 DEF Inv, vars
<1> QED
  BY <1>1, <1>2

LEMMA SpecInv == Spec => []Inv
BY InitInv, NextInv, PTL DEF Spec

\* The validator accepts the texts that are well formed, and no other.
THEOREM AcceptsWellFormedAlways == Spec => []AcceptsWellFormed
<1>1. Inv => AcceptsWellFormed
  BY BytesAreText, AcceptsExactly DEF Inv, AcceptsWellFormed
<1> QED
  BY <1>1, SpecInv, PTL

\* The validator rejects the texts that nothing can complete, and no other.
THEOREM RejectsHopelessAlways == Spec => []RejectsHopeless
<1>1. Inv => RejectsHopeless
  BY BytesAreText, RejectsExactly DEF Inv, RejectsHopeless
<1> QED
  BY <1>1, SpecInv, PTL
=============================================================================
