------------------------ MODULE CommandAssemblyProofs -------------------------
(***************************************************************************)
(* The assembly of commands for every buffer size, every range of          *)
(* std::size_t, and any set and sequence of fragments.                     *)
(***************************************************************************)
EXTENDS CommandAssembly, SequenceTheorems, TLAPS

-------------------------------------------------------------------------------
(* The inductive invariant.                                                *)

Last(h) == h[Len(h)]

(* The buffer holds the bytes of these fragments.                          *)
Holds(buffer, h) ==
  \A k \in DOMAIN h : \A j \in 1 .. h[k].len :
    buffer[h[k].index + j - 1] = h[k].payload[j]

(* All of them end before an index.                                        *)
EndBefore(h, index) == \A k \in DOMAIN h : h[k].index + h[k].len <= index

AssemblyInv ==
  /\ assembly.assembling <=> received # <<>> /\ ~EndsMessage(Last(received))
  /\ ~assembly.assembling => assembly = idle
  /\ assembly.assembling =>
       /\ assembly.dropCurrent <=> ~InOrder(received)
       /\ assembly.rejectReported = assembly.dropCurrent

(* What is known of a message that has not been refused.                   *)
ProgressInv ==
  assembly.assembling /\ ~assembly.dropCurrent =>
    /\ assembly.expectedTotal = received[1].total
    /\ assembly.metadata = received[1].meta
    /\ assembly.nextIndex = Last(received).index + Last(received).len
    /\ EndBefore(received, assembly.nextIndex)
    /\ Holds(commandBuffer, received)

IInv ==
  /\ TypeOK /\ AssemblyInv /\ ProgressInv
  /\ HandedOnWhole /\ ReportedOnce /\ BufferIsEnough

-------------------------------------------------------------------------------
(* Sizes and fragments.                                                    *)

LEMMA SizeFacts ==
  /\ SizeRange \in Nat /\ MaxCommandBytes \in Nat /\ MaxCommandBytes < SizeRange
  /\ MemoryBytes \in Nat /\ MaxCommandBytes < MemoryBytes
  /\ 0 \in Sizes
  BY AssemblyAssumption DEF Sizes

LEMMA FragmentFacts ==
  ASSUME NEW f \in Fragments
  PROVE  /\ f.index \in Nat /\ f.len \in Nat /\ f.total \in Nat
         /\ f.index \in Sizes /\ f.total \in Sizes /\ f.total < SizeRange
         /\ f.meta \in Metadata /\ f.payload \in Seq(Byte)
         /\ Len(f.payload) = f.len \/ f.payload = <<>>
<1>1. /\ f.index \in Sizes /\ f.len \in Sizes /\ f.total \in Sizes
      /\ f.meta \in Metadata /\ f.payload \in Seq(Byte)
      /\ Len(f.payload) = f.len \/ f.payload = <<>>
  BY FragmentAssumption
<1> QED BY <1>1, SizeFacts DEF Sizes

(* The code's test for the last fragment is exact: nothing wraps.          *)
LEMMA FinalIsEnd ==
  ASSUME NEW f \in Fragments
  PROVE  finalChunk(f) <=> EndsMessage(f)
<1>1. f.index \in Nat /\ f.len \in Nat /\ f.total \in Nat /\ f.total < SizeRange
  BY FragmentFacts
<1>2. ASSUME f.index + f.len <= f.total
      PROVE  plus(f.index, f.len) = f.index + f.len
  <2>1. f.index + f.len \in 0 .. SizeRange - 1
    BY <1>1, <1>2, SizeFacts
  <2>2. (f.index + f.len) % SizeRange = f.index + f.len
    BY <2>1, SizeFacts
  <2> QED BY <2>2 DEF plus
<1> QED BY <1>1, <1>2 DEF finalChunk, EndsMessage

LEMMA NoWrap ==
  ASSUME NEW f \in Fragments, f.index + f.len <= f.total
  PROVE  plus(f.index, f.len) = f.index + f.len
<1>1. f.index \in Nat /\ f.len \in Nat /\ f.total \in Nat /\ f.total < SizeRange
  BY FragmentFacts
<1>2. f.index + f.len \in 0 .. SizeRange - 1
  BY <1>1, SizeFacts
<1>3. (f.index + f.len) % SizeRange = f.index + f.len
  BY <1>2, SizeFacts
<1> QED BY <1>3 DEF plus

(* What a fragment by itself must satisfy.                                 *)
Fits(f) == f.index + f.len <= f.total /\ Len(f.payload) = f.len

LEMMA FitsIsChecked ==
  ASSUME NEW f \in Fragments
  PROVE  Fits(f) <=> /\ f.index <= f.total /\ f.len <= f.total - f.index
                     /\ f.len > 0 => f.payload # <<>>
<1>1. /\ f.index \in Nat /\ f.len \in Nat /\ f.total \in Nat
      /\ f.payload \in Seq(Byte)
      /\ Len(f.payload) = f.len \/ f.payload = <<>>
  BY FragmentFacts
<1>2. Len(f.payload) = 0 <=> f.payload = <<>>
  BY <1>1
<1> QED BY <1>1, <1>2 DEF Fits

(* A message of one fragment, and of one more.                             *)
LEMMA InOrderOne ==
  ASSUME NEW f \in Fragments
  PROVE  InOrder(<<f>>) <=> f.index = 0 /\ validateEnvelope(f) /\ Fits(f)
  BY DEF InOrder, Fits

LEMMA InOrderMore ==
  ASSUME NEW h \in Seq(Fragments), h # <<>>, NEW f \in Fragments
  PROVE  InOrder(Append(h, f)) <=>
           /\ InOrder(h) /\ Fits(f)
           /\ f.total = h[1].total /\ f.meta = h[1].meta
           /\ f.index = Last(h).index + Last(h).len
<1> DEFINE g == Append(h, f)
<1>1. Len(h) \in Nat /\ Len(h) > 0 /\ DOMAIN h = 1 .. Len(h)
  OBVIOUS
<1>2. /\ DOMAIN g = 1 .. Len(h) + 1 /\ g[Len(h) + 1] = f /\ g[1] = h[1]
      /\ \A k \in 1 .. Len(h) : g[k] = h[k]
  BY <1>1, AppendProperties
<1> HIDE DEF g
<1>3. ASSUME InOrder(g)
      PROVE  /\ InOrder(h) /\ Fits(f)
             /\ f.total = h[1].total /\ f.meta = h[1].meta
             /\ f.index = Last(h).index + Last(h).len
  <2>1. /\ g[1].index = 0 /\ validateEnvelope(g[1])
        /\ \A k \in 1 .. Len(h) + 1 :
             /\ g[k].total = g[1].total /\ g[k].meta = g[1].meta
             /\ g[k].index + g[k].len <= g[k].total
             /\ Len(g[k].payload) = g[k].len
             /\ k > 1 => g[k].index = g[k - 1].index + g[k - 1].len
    BY <1>2, <1>3 DEF InOrder
  <2>2. \A k \in 1 .. Len(h) :
          /\ h[k].total = h[1].total /\ h[k].meta = h[1].meta
          /\ h[k].index + h[k].len <= h[k].total
          /\ Len(h[k].payload) = h[k].len
          /\ k > 1 => h[k].index = h[k - 1].index + h[k - 1].len
    <3> TAKE k \in 1 .. Len(h)
    <3>1. k \in 1 .. Len(h) + 1 /\ g[k] = h[k] /\ (k > 1 => g[k - 1] = h[k - 1])
      BY <1>1, <1>2
    <3> QED BY <1>2, <2>1, <3>1
  <2>3. InOrder(h)
    BY <1>1, <1>2, <2>1, <2>2 DEF InOrder
  <2>4. Len(h) + 1 \in 1 .. Len(h) + 1 /\ Len(h) + 1 > 1 /\ g[Len(h)] = h[Len(h)]
    BY <1>1, <1>2
  <2>5. (Len(h) + 1) - 1 = Len(h)
    BY <1>1
  <2> QED BY <1>2, <2>1, <2>3, <2>4, <2>5 DEF Fits, Last
<1>4. ASSUME InOrder(h), Fits(f), f.total = h[1].total, f.meta = h[1].meta,
             f.index = Last(h).index + Last(h).len
      PROVE  InOrder(g)
  <2>1. ASSUME NEW k \in 1 .. Len(h) + 1
        PROVE  /\ g[k].total = g[1].total /\ g[k].meta = g[1].meta
               /\ g[k].index + g[k].len <= g[k].total
               /\ Len(g[k].payload) = g[k].len
               /\ k > 1 => g[k].index = g[k - 1].index + g[k - 1].len
    <3>1. CASE k = Len(h) + 1
      <4>1. k - 1 = Len(h) /\ g[k - 1] = h[Len(h)] /\ g[k] = f
        BY <1>1, <1>2, <3>1
      <4> QED BY <1>2, <1>4, <4>1 DEF Fits, Last
    <3>2. CASE k \in 1 .. Len(h)
      <4>1. g[k] = h[k] /\ (k > 1 => g[k - 1] = h[k - 1])
        BY <1>1, <1>2, <3>2
      <4> QED BY <1>1, <1>2, <1>4, <3>2, <4>1 DEF InOrder
    <3> QED BY <1>1, <3>1, <3>2
  <2> QED BY <1>2, <1>4, <2>1 DEF InOrder
<1> QED BY <1>3, <1>4 DEF g

-------------------------------------------------------------------------------
(* What checked() finds out about a fragment, and what it then knows.      *)

KnownOf(a, h, f) ==
  /\ a.expectedTotal = h[1].total /\ a.metadata = h[1].meta
  /\ a.nextIndex = f.index /\ f.total = h[1].total
  /\ Fits(f) /\ h[1].total <= MaxCommandBytes
  /\ \A k \in DOMAIN h : k < Len(h) =>
       /\ h[k].index + h[k].len <= f.index
       /\ \A j \in 1 .. h[k].len :
            commandBuffer[h[k].index + j - 1] = h[k].payload[j]

Judged(a, h, f) ==
  /\ a \in [assembling : BOOLEAN, dropCurrent : BOOLEAN, rejectReported : BOOLEAN,
            expectedTotal : Sizes, nextIndex : Sizes, metadata : Metadata]
  /\ a.assembling /\ a.rejectReported = a.dropCurrent
  /\ a.dropCurrent <=> ~InOrder(h)
  /\ ~a.dropCurrent => KnownOf(a, h, f)

LEMMA MetadataIsKnown == noMetadata \in Metadata
  BY AssemblyAssumption DEF noMetadata, Metadata

AssemblyType ==
  [assembling : BOOLEAN, dropCurrent : BOOLEAN, rejectReported : BOOLEAN,
   expectedTotal : Sizes, nextIndex : Sizes, metadata : Metadata]

(* A first fragment.                                                       *)
LEMMA FirstIsJudged ==
  ASSUME IInv, NEW f \in Fragments, f.index = 0
  PROVE  /\ Judged(checked(f), <<f>>, f)
         /\ reported(f) <=> ~InOrder(<<f>>)
<1> DEFINE fresh == [assembling |-> TRUE, dropCurrent |-> FALSE,
                     rejectReported |-> FALSE, expectedTotal |-> f.total,
                     nextIndex |-> 0, metadata |-> f.meta]
<1>1. begun(f) = IF validateEnvelope(f) THEN fresh ELSE rejected(fresh)
  <2>1. started(resetAssembly(assembly), f) = fresh
    BY DEF started, resetAssembly, idle
  <2> QED BY <2>1 DEF begun
<1>2. fresh \in AssemblyType /\ rejected(fresh) \in AssemblyType
  BY FragmentFacts, SizeFacts DEF rejected, AssemblyType
<1>3. /\ rejected(fresh).dropCurrent /\ rejected(fresh).rejectReported
      /\ rejected(fresh).assembling
  BY DEF rejected
<1>4. /\ metadataMatches(fresh, f)
      /\ isChunkSequenceValid(fresh, f) <=> f.index <= f.total /\ f.len <= f.total - f.index
  BY DEF metadataMatches, isChunkSequenceValid
<1>5. checked(f) = IF InOrder(<<f>>) THEN fresh ELSE rejected(fresh)
  <2>1. CASE ~validateEnvelope(f)
    <3>1. begun(f) = rejected(fresh) /\ ~InOrder(<<f>>)
      BY <1>1, <2>1, InOrderOne
    <3> QED BY <1>3, <3>1 DEF checked
  <2>2. CASE validateEnvelope(f)
    <3>1. begun(f) = fresh
      BY <1>1, <2>2
    <3>2. Fits(f) <=> /\ metadataMatches(fresh, f) /\ isChunkSequenceValid(fresh, f)
                      /\ f.len > 0 => f.payload # <<>>
      BY <1>4, FitsIsChecked
    <3>3. checked(f) = IF Fits(f) THEN fresh ELSE rejected(fresh)
      BY <3>1, <3>2 DEF checked
    <3> QED BY <2>2, <3>3, InOrderOne
  <2> QED BY <2>1, <2>2
<1>6. InOrder(<<f>>) => KnownOf(fresh, <<f>>, f)
  <2> SUFFICES ASSUME InOrder(<<f>>) PROVE KnownOf(fresh, <<f>>, f)
    OBVIOUS
  <2>1. Fits(f) /\ f.total <= MaxCommandBytes
    BY InOrderOne DEF validateEnvelope
  <2> QED BY <2>1 DEF KnownOf
<1>7. Judged(checked(f), <<f>>, f)
  BY <1>2, <1>3, <1>5, <1>6 DEF Judged, AssemblyType
<1>8. reported(f) <=> checked(f).rejectReported
  BY DEF reported, resetAssembly, idle
<1> QED BY <1>7, <1>8 DEF Judged

(* A fragment from the middle of no message.                               *)
LEMMA StrayIsJudged ==
  ASSUME IInv, NEW f \in Fragments, f.index # 0, ~assembly.assembling
  PROVE  /\ Judged(checked(f), <<f>>, f)
         /\ reported(f) /\ ~InOrder(<<f>>)
<1>1. assembly = idle
  BY DEF IInv, AssemblyInv
<1>2. begun(f) = [assembling |-> TRUE, dropCurrent |-> TRUE, rejectReported |-> TRUE,
                  expectedTotal |-> f.total, nextIndex |-> f.index,
                  metadata |-> noMetadata]
  BY <1>1 DEF begun, rejected, idle
<1>3. checked(f) = begun(f)
  BY <1>2 DEF checked
<1>4. begun(f) \in AssemblyType
  BY <1>2, FragmentFacts, MetadataIsKnown DEF AssemblyType
<1>5. ~InOrder(<<f>>)
  BY InOrderOne
<1>6. reported(f)
  BY <1>1, <1>2, <1>3 DEF reported, idle
<1> QED BY <1>2, <1>3, <1>4, <1>5, <1>6 DEF Judged, AssemblyType

(* A later fragment of the current message.                                *)
LEMMA LaterIsJudged ==
  ASSUME IInv, NEW f \in Fragments, f.index # 0, assembly.assembling
  PROVE  /\ Judged(checked(f), Append(received, f), f)
         /\ reported(f) <=> InOrder(received) /\ ~InOrder(Append(received, f))
<1> DEFINE h == Append(received, f)
<1>1. /\ received \in Seq(Fragments) /\ received # <<>>
      /\ assembly \in AssemblyType
      /\ assembly.dropCurrent <=> ~InOrder(received)
      /\ assembly.rejectReported = assembly.dropCurrent
  BY DEF IInv, TypeOK, AssemblyInv, AssemblyType
<1>2. begun(f) = assembly
  BY DEF begun
<1>3. InOrder(h) <=> /\ InOrder(received) /\ Fits(f)
                     /\ f.total = received[1].total /\ f.meta = received[1].meta
                     /\ f.index = Last(received).index + Last(received).len
  BY <1>1, InOrderMore
<1>4. /\ rejected(assembly) \in AssemblyType /\ rejected(assembly).dropCurrent
      /\ rejected(assembly).rejectReported /\ rejected(assembly).assembling
  BY <1>1 DEF rejected, AssemblyType
<1>5. CASE assembly.dropCurrent
  <2>1. checked(f) = assembly
    BY <1>2, <1>5 DEF checked
  <2>2. ~InOrder(h)
    BY <1>1, <1>3, <1>5
  <2> QED BY <1>1, <1>5, <2>1, <2>2 DEF Judged, AssemblyType, reported
<1>6. CASE ~assembly.dropCurrent
  <2>1. /\ InOrder(received)
        /\ assembly.expectedTotal = received[1].total
        /\ assembly.metadata = received[1].meta
        /\ assembly.nextIndex = Last(received).index + Last(received).len
        /\ EndBefore(received, assembly.nextIndex)
        /\ Holds(commandBuffer, received)
    BY <1>1, <1>6 DEF IInv, ProgressInv
  <2>2. InOrder(h) <=> /\ metadataMatches(assembly, f)
                       /\ isChunkSequenceValid(assembly, f)
                       /\ f.len > 0 => f.payload # <<>>
    BY <1>3, <2>1, FitsIsChecked DEF metadataMatches, isChunkSequenceValid
  <2>3. checked(f) = IF InOrder(h) THEN assembly ELSE rejected(assembly)
    BY <1>2, <1>6, <2>2 DEF checked
  <2>4. ASSUME InOrder(h) PROVE KnownOf(assembly, h, f)
    <3>1. /\ Len(h) = Len(received) + 1 /\ Len(received) \in Nat /\ Len(received) > 0
          /\ DOMAIN h = 1 .. Len(h) /\ DOMAIN received = 1 .. Len(received)
          /\ \A k \in 1 .. Len(received) : h[k] = received[k]
      BY <1>1, AppendProperties
    <3>2. h[1] = received[1]
      BY <3>1
    <3>3. received[1].total <= MaxCommandBytes
      BY <2>1 DEF InOrder, validateEnvelope
    <3>4. ASSUME NEW k \in DOMAIN h, k < Len(h)
          PROVE  /\ h[k].index + h[k].len <= f.index
                 /\ \A j \in 1 .. h[k].len :
                      commandBuffer[h[k].index + j - 1] = h[k].payload[j]
      <4>1. k \in DOMAIN received /\ h[k] = received[k]
        BY <3>1, <3>4
      <4> HIDE DEF h
      <4> QED BY <1>3, <2>1, <2>4, <4>1 DEF EndBefore, Holds
    <3> HIDE DEF h
    <3> QED BY <1>3, <2>1, <2>4, <3>2, <3>3, <3>4 DEF KnownOf
  <2>5. Judged(checked(f), h, f)
    BY <1>1, <1>4, <1>6, <2>3, <2>4 DEF Judged, AssemblyType
  <2>6. reported(f) <=> ~InOrder(h)
    BY <1>1, <1>4, <1>6, <2>3 DEF reported
  <2> QED BY <2>1, <2>5, <2>6
<1> QED BY <1>5, <1>6

-------------------------------------------------------------------------------
(* The steps.                                                              *)

(* Whichever of the three it is, the fragment is judged by its message.    *)
LEMMA HandledIsJudged ==
  ASSUME IInv, NEW f \in Fragments, HandleIncoming(f)
  PROVE  /\ received' \in Seq(Fragments) /\ received' # <<>> /\ Last(received') = f
         /\ Judged(checked(f), received', f)
         /\ reports' = IF InOrder(received') THEN 0 ELSE 1
<1>1. /\ received \in Seq(Fragments) /\ reports \in Nat
      /\ received' = IF Begins(f) THEN <<f>> ELSE Append(received, f)
      /\ reports' = (IF Begins(f) THEN 0 ELSE reports) + (IF reported(f) THEN 1 ELSE 0)
  BY DEF IInv, TypeOK, HandleIncoming
<1>2. Begins(f) <=> f.index = 0 \/ ~assembly.assembling
  BY DEF IInv, AssemblyInv, Begins, Last
<1>3. CASE f.index = 0 \/ ~assembly.assembling
  <2>1. received' = <<f>> /\ reports' = IF reported(f) THEN 1 ELSE 0
    BY <1>1, <1>2, <1>3
  <2>2. /\ Judged(checked(f), <<f>>, f)
        /\ reported(f) <=> ~InOrder(<<f>>)
    BY <1>3, FirstIsJudged, StrayIsJudged
  <2> QED BY <2>1, <2>2 DEF Last
<1>4. CASE f.index # 0 /\ assembly.assembling
  <2>1. /\ received' = Append(received, f)
        /\ reports' = reports + (IF reported(f) THEN 1 ELSE 0)
    BY <1>1, <1>2, <1>4
  <2>2. /\ Judged(checked(f), received', f)
        /\ reported(f) <=> InOrder(received) /\ ~InOrder(received')
    BY <1>4, <2>1, LaterIsJudged
  <2>3. received # <<>> /\ reports = IF InOrder(received) THEN 0 ELSE 1
    BY <1>4 DEF IInv, AssemblyInv, ReportedOnce
  <2>4. InOrder(received') => InOrder(received)
    BY <1>1, <2>1, <2>3, InOrderMore
  <2>5. received' \in Seq(Fragments) /\ received' # <<>> /\ Last(received') = f
    BY <1>1, <2>1, AppendProperties DEF Last
  <2> QED BY <2>1, <2>2, <2>3, <2>4, <2>5
<1> QED BY <1>3, <1>4

(* Until it is refused, a message fits the buffer, and is in it.           *)
LEMMA KeptIsStored ==
  ASSUME IInv, NEW f \in Fragments, HandleIncoming(f), ~checked(f).dropCurrent
  PROVE  /\ Fits(f) /\ f.total = received'[1].total /\ f.total <= MaxCommandBytes
         /\ plus(f.index, f.len) = f.index + f.len
         /\ EndBefore(received', f.index + f.len)
         /\ Holds(commandBuffer', received')
<1> DEFINE h == received'
<1>1. /\ h \in Seq(Fragments) /\ h # <<>> /\ Last(h) = f
      /\ KnownOf(checked(f), h, f)
  BY HandledIsJudged DEF Judged
<1>2. /\ f.index \in Nat /\ f.len \in Nat /\ f.total \in Nat
      /\ f.index + f.len <= f.total /\ Len(f.payload) = f.len
      /\ f.total = h[1].total /\ f.total <= MaxCommandBytes
  BY <1>1, FragmentFacts DEF KnownOf, Fits
<1>3. plus(f.index, f.len) = f.index + f.len
  BY <1>2, NoWrap
<1>4. /\ DOMAIN h = 1 .. Len(h) /\ Len(h) \in Nat /\ Len(h) >= 1 /\ h[Len(h)] = f
      /\ \A k \in DOMAIN h :
           h[k] \in Fragments /\ h[k].index \in Nat /\ h[k].len \in Nat
  <2>1. \A k \in DOMAIN h : h[k] \in Fragments
    BY <1>1
  <2> QED BY <1>1, <2>1, FragmentFacts DEF Last
<1>5. /\ commandBuffer' = IF f.len > 0 THEN stored(f) ELSE commandBuffer
      /\ MemoryBytes \in Nat /\ MaxCommandBytes \in Nat /\ MaxCommandBytes < MemoryBytes
  BY SizeFacts DEF HandleIncoming
<1>6. \A k \in DOMAIN h : k < Len(h) =>
        /\ h[k].index + h[k].len <= f.index
        /\ \A j \in 1 .. h[k].len :
             commandBuffer[h[k].index + j - 1] = h[k].payload[j]
  BY <1>1 DEF KnownOf
<1> HIDE DEF h
<1>7. EndBefore(h, f.index + f.len)
  <2> SUFFICES ASSUME NEW k \in DOMAIN h
               PROVE  h[k].index + h[k].len <= f.index + f.len
    BY DEF EndBefore
  <2>1. k < Len(h) \/ k = Len(h)
    BY <1>4
  <2> QED BY <1>2, <1>4, <1>6, <2>1
<1>8. Holds(commandBuffer', h)
  <2> SUFFICES ASSUME NEW k \in DOMAIN h, NEW j \in 1 .. h[k].len
               PROVE  commandBuffer'[h[k].index + j - 1] = h[k].payload[j]
    BY DEF Holds
  <2> DEFINE i == h[k].index + j - 1
  <2>1. h[k].index \in Nat /\ h[k].len \in Nat /\ j \in Nat /\ j >= 1 /\ j <= h[k].len
    BY <1>4
  <2>2. CASE k < Len(h)
    <3>1. h[k].index + h[k].len <= f.index /\ commandBuffer[i] = h[k].payload[j]
      BY <1>6, <2>2
    <3>2. i \in Nat /\ i < f.index
      BY <1>2, <2>1, <3>1
    <3>3. i \in Memory
      BY <1>2, <1>5, <3>2 DEF Memory
    <3>4. f.len > 0 => stored(f)[i] = commandBuffer[i]
      BY <1>2, <3>2, <3>3 DEF stored
    <3> QED BY <1>5, <3>1, <3>4
  <2>3. CASE k = Len(h)
    <3>1. h[k] = f
      BY <1>4, <2>3
    <3>2. f.len > 0 /\ i \in Nat /\ f.index <= i /\ i < f.index + f.len
          /\ i - f.index + 1 = j
      BY <1>2, <2>1, <3>1
    <3>3. i \in Memory
      BY <1>2, <1>5, <3>2 DEF Memory
    <3>4. stored(f)[i] = f.payload[j]
      BY <1>2, <3>2, <3>3 DEF stored
    <3> QED BY <1>5, <3>1, <3>2, <3>4
  <2> QED BY <1>4, <2>2, <2>3
<1> QED BY <1>2, <1>3, <1>7, <1>8 DEF Fits, h

LEMMA HandleIncomingKeeps ==
  ASSUME IInv, NEW f \in Fragments, HandleIncoming(f)
  PROVE  IInv'
<1> DEFINE a == checked(f)
           h == received'
           writes == ~a.dropCurrent /\ f.len > 0
           b == [a EXCEPT !.nextIndex = plus(f.index, f.len)]
<1>1. /\ h \in Seq(Fragments) /\ h # <<>> /\ Last(h) = f
      /\ Judged(a, h, f) /\ reports' = IF InOrder(h) THEN 0 ELSE 1
  BY HandledIsJudged
<1>2. /\ f.index \in Nat /\ f.len \in Nat /\ f.total \in Nat
      /\ f.payload \in Seq(Byte)
  BY FragmentFacts
<1>3. ~a.dropCurrent =>
        /\ Len(f.payload) = f.len /\ f.index + f.len <= f.total
        /\ f.total = h[1].total /\ f.total <= MaxCommandBytes
        /\ plus(f.index, f.len) = f.index + f.len
        /\ EndBefore(h, f.index + f.len) /\ Holds(commandBuffer', h)
  BY KeptIsStored DEF Fits
<1>4. /\ commandBuffer' = IF writes THEN stored(f) ELSE commandBuffer
      /\ assembly' = IF finalChunk(f) THEN idle ELSE IF writes THEN b ELSE a
      /\ handedOn' = IF finalChunk(f) /\ ~a.dropCurrent
                     THEN <<[i \in 1 .. f.total |-> commandBuffer'[i - 1]]>>
                     ELSE <<>>
  BY DEF HandleIncoming, resetAssembly
<1>5. finalChunk(f) <=> EndsMessage(Last(h))
  BY <1>1, FinalIsEnd
<1>6. /\ a \in AssemblyType /\ a.assembling /\ a.rejectReported = a.dropCurrent
      /\ a.dropCurrent <=> ~InOrder(h)
      /\ ~a.dropCurrent => KnownOf(a, h, f)
  BY <1>1 DEF Judged, AssemblyType
<1>7. /\ SizeRange \in Nat /\ MaxCommandBytes \in Nat /\ MaxCommandBytes < SizeRange
      /\ Sizes = 0 .. SizeRange - 1
  BY SizeFacts DEF Sizes
<1>8. /\ idle \in AssemblyType /\ ~idle.assembling /\ idle.nextIndex = 0
  BY SizeFacts, MetadataIsKnown DEF idle, AssemblyType
<1> HIDE DEF a, h
<1>9. /\ b.assembling /\ b.dropCurrent = a.dropCurrent
      /\ b.rejectReported = a.dropCurrent /\ b.expectedTotal = a.expectedTotal
      /\ b.metadata = a.metadata /\ b.nextIndex = plus(f.index, f.len)
      /\ plus(f.index, f.len) \in Sizes => b \in AssemblyType
  BY <1>6 DEF AssemblyType
<1> HIDE DEF b
<1>10. assembly' \in AssemblyType
       /\ (~assembly'.dropCurrent => assembly'.nextIndex <= MaxCommandBytes)
  <2>1. CASE finalChunk(f)
    BY <1>4, <1>7, <1>8, <2>1
  <2>2. CASE ~finalChunk(f) /\ writes
    <3>1. f.index + f.len \in Sizes /\ f.index + f.len <= MaxCommandBytes
      BY <1>2, <1>3, <1>7, <2>2
    <3> QED BY <1>3, <1>4, <1>9, <2>2, <3>1
  <2>3. CASE ~finalChunk(f) /\ ~writes
    <3>1. ~a.dropCurrent => a.nextIndex = f.index /\ f.index <= MaxCommandBytes
      BY <1>2, <1>3, <1>6, <1>7 DEF KnownOf
    <3> QED BY <1>4, <1>6, <2>3, <3>1
  <2> QED BY <2>1, <2>2, <2>3
<1>11. commandBuffer' \in [Memory -> Byte \cup {Untouched}]
  <2>1. commandBuffer \in [Memory -> Byte \cup {Untouched}]
    BY DEF IInv, TypeOK
  <2>2. CASE writes
    <3>1. ASSUME NEW i \in Memory, f.index <= i, i < f.index + f.len
          PROVE  f.payload[i - f.index + 1] \in Byte
      <4>1. i \in Nat
        BY <3>1, SizeFacts DEF Memory
      <4>2. i - f.index + 1 \in 1 .. f.len
        BY <1>2, <3>1, <4>1
      <4> QED BY <1>2, <1>3, <2>2, <4>2
    <3>2. stored(f) \in [Memory -> Byte \cup {Untouched}]
      BY <2>1, <3>1 DEF stored
    <3> QED BY <1>4, <2>2, <3>2
  <2> QED BY <1>4, <2>1, <2>2
<1>12. TypeOK'
  <2>1. handedOn' = <<>> \/ Len(handedOn') = 1
    BY <1>4
  <2>2. reports' \in Nat
    BY <1>1
  <2> QED BY <1>1, <1>10, <1>11, <2>1, <2>2 DEF TypeOK, AssemblyType, h
<1>13. AssemblyInv'
  <2>1. finalChunk(f) => assembly' = idle
    BY <1>4
  <2>2. ~finalChunk(f) => /\ assembly'.assembling
                          /\ assembly'.dropCurrent = a.dropCurrent
                          /\ assembly'.rejectReported = a.dropCurrent
    BY <1>4, <1>6, <1>9
  <2> QED BY <1>1, <1>5, <1>6, <1>8, <2>1, <2>2 DEF AssemblyInv, h
<1>14. ProgressInv'
  <2> SUFFICES ASSUME assembly'.assembling, ~assembly'.dropCurrent
               PROVE  /\ assembly'.expectedTotal = h[1].total
                      /\ assembly'.metadata = h[1].meta
                      /\ assembly'.nextIndex = Last(h).index + Last(h).len
                      /\ EndBefore(h, assembly'.nextIndex)
                      /\ Holds(commandBuffer', h)
    BY DEF ProgressInv, h
  <2>1. ~finalChunk(f)
    BY <1>4, <1>8
  <2>2. ~a.dropCurrent
    BY <1>4, <1>9, <2>1
  <2>3. assembly'.expectedTotal = a.expectedTotal /\ assembly'.metadata = a.metadata
    BY <1>4, <1>9, <2>1
  <2>4. a.nextIndex = f.index /\ a.expectedTotal = h[1].total /\ a.metadata = h[1].meta
    BY <1>6, <2>2 DEF KnownOf
  <2>5. assembly'.nextIndex = f.index + f.len
    BY <1>2, <1>3, <1>4, <1>9, <2>1, <2>2, <2>4
  <2> QED BY <1>1, <1>3, <2>2, <2>3, <2>4, <2>5
<1>15. HandedOnWhole'
  <2>1. handedOn' # <<>> <=> finalChunk(f) /\ ~a.dropCurrent
    BY <1>4
  <2>2. Whole(h) <=> finalChunk(f) /\ ~a.dropCurrent
    BY <1>1, <1>5, <1>6 DEF Whole, Last
  <2>3. ASSUME handedOn' # <<>>
        PROVE  /\ Len(handedOn'[1]) = h[1].total
               /\ \A k \in DOMAIN h : \A j \in 1 .. h[k].len :
                    handedOn'[1][h[k].index + j] = h[k].payload[j]
    <3> DEFINE command == [i \in 1 .. f.total |-> commandBuffer'[i - 1]]
    <3>1. handedOn'[1] = command
      BY <1>4, <2>1, <2>3
    <3>2. Len(command) = f.total
      BY <1>2
    <3>3. \A n \in 1 .. f.total : command[n] = commandBuffer'[n - 1]
      OBVIOUS
    <3> HIDE DEF command
    <3>4. f.index + f.len = f.total
      BY <1>1, <1>5, <2>1, <2>3 DEF EndsMessage
    <3>5. ASSUME NEW k \in DOMAIN h, NEW j \in 1 .. h[k].len
          PROVE  command[h[k].index + j] = h[k].payload[j]
      <4>1. h[k] \in Fragments
        BY <1>1
      <4>2. h[k].index \in Nat /\ h[k].len \in Nat
        BY <4>1, FragmentFacts
      <4>3. h[k].index + h[k].len <= f.total
        BY <1>3, <2>1, <2>3, <3>4 DEF EndBefore
      <4>4. h[k].index + j \in 1 .. f.total
        BY <1>2, <4>2, <4>3
      <4>5. commandBuffer'[h[k].index + j - 1] = h[k].payload[j]
        BY <1>3, <2>1, <2>3 DEF Holds
      <4>6. command[h[k].index + j] = commandBuffer'[h[k].index + j - 1]
        <5>1. (h[k].index + j) - 1 = h[k].index + j - 1
          BY <4>2
        <5> QED BY <3>3, <4>4, <5>1
      <4> QED BY <4>5, <4>6
    <3> QED BY <1>3, <2>1, <2>3, <3>1, <3>2, <3>5
  <2> QED BY <2>1, <2>2, <2>3 DEF HandedOnWhole, h
<1>16. ReportedOnce'
  BY <1>1 DEF ReportedOnce, h
<1>17. BufferIsEnough'
  <2> SUFFICES ASSUME NEW i \in Memory, i >= MaxCommandBytes
               PROVE  commandBuffer'[i] = Untouched
    BY DEF BufferIsEnough, Memory
  <2>1. commandBuffer[i] = Untouched /\ i \in Nat
    BY SizeFacts DEF IInv, BufferIsEnough, Memory
  <2>2. writes => stored(f)[i] = commandBuffer[i]
    <3>1. writes => ~(i < f.index + f.len)
      BY <1>2, <1>3, <1>7, <2>1
    <3> QED BY <3>1 DEF stored
  <2> QED BY <1>4, <2>1, <2>2
<1> QED BY <1>12, <1>13, <1>14, <1>15, <1>16, <1>17 DEF IInv

LEMMA NothingReceived ==
  ASSUME assembly = idle, handedOn = <<>>, received = <<>>, reports = 0,
         commandBuffer \in [Memory -> Byte \cup {Untouched}], BufferIsEnough
  PROVE  IInv
<1>1. idle \in AssemblyType /\ ~idle.assembling /\ idle.nextIndex = 0
  BY SizeFacts, MetadataIsKnown DEF idle, AssemblyType
<1>2. TypeOK
  BY <1>1, SizeFacts DEF TypeOK, AssemblyType
<1>3. AssemblyInv /\ ProgressInv
  BY <1>1 DEF AssemblyInv, ProgressInv
<1>4. HandedOnWhole /\ ReportedOnce
  BY DEF HandedOnWhole, ReportedOnce, Whole
<1> QED BY <1>2, <1>3, <1>4 DEF IInv

LEMMA InitEstablishes ==
  ASSUME Init PROVE IInv
<1>1. commandBuffer \in [Memory -> Byte \cup {Untouched}] /\ BufferIsEnough
  BY DEF Init, BufferIsEnough
<1> QED BY <1>1, NothingReceived DEF Init

LEMMA ResetKeeps ==
  ASSUME IInv, Reset PROVE IInv'
<1>1. /\ assembly' = idle /\ handedOn' = <<>> /\ received' = <<>> /\ reports' = 0
      /\ commandBuffer' = commandBuffer
  BY DEF Reset, resetAssembly
<1>2. idle \in AssemblyType /\ ~idle.assembling /\ idle.nextIndex = 0
  BY SizeFacts, MetadataIsKnown DEF idle, AssemblyType
<1>3. TypeOK'
  BY <1>1, <1>2, SizeFacts DEF IInv, TypeOK, AssemblyType
<1>4. AssemblyInv' /\ ProgressInv'
  BY <1>1, <1>2 DEF AssemblyInv, ProgressInv
<1>5. HandedOnWhole' /\ ReportedOnce' /\ BufferIsEnough'
  BY <1>1 DEF IInv, HandedOnWhole, ReportedOnce, BufferIsEnough, Whole
<1> QED BY <1>3, <1>4, <1>5 DEF IInv

LEMMA StutterKeeps ==
  ASSUME IInv, UNCHANGED vars PROVE IInv'
<1>1. /\ assembly' = assembly /\ handedOn' = handedOn /\ received' = received
      /\ reports' = reports /\ commandBuffer' = commandBuffer
  BY DEF vars
<1> QED BY <1>1 DEF IInv, TypeOK, AssemblyInv, ProgressInv, HandedOnWhole,
                    ReportedOnce, BufferIsEnough

(* The invariant holds in every reachable state, whatever arrives.         *)
THEOREM Invariance == Spec => []IInv
<1>1. IInv /\ [Next]_vars => IInv'
  BY HandleIncomingKeeps, ResetKeeps, StutterKeeps DEF Next
<1> QED BY <1>1, InitEstablishes, PTL DEF Spec

(* The assembly's variables keep their types, and while a message is not   *)
(* refused the next byte has its place in commandBuffer_.                  *)
THEOREM TypeCorrect == Spec => []TypeOK
<1>1. IInv => TypeOK
  BY DEF IInv
<1> QED BY <1>1, Invariance, PTL

(* Whatever fragments arrive in whatever order, what is handed to the      *)
(* application is the bytes of one message, complete and in order, and     *)
(* every such message is handed on with its last fragment.                 *)
THEOREM CommandsAreWhole == Spec => []HandedOnWhole
<1>1. IInv => HandedOnWhole
  BY DEF IInv
<1> QED BY <1>1, Invariance, PTL

(* A refused message is reported exactly once, any other never.            *)
THEOREM RejectionsReportedOnce == Spec => []ReportedOnce
<1>1. IInv => ReportedOnce
  BY DEF IInv
<1> QED BY <1>1, Invariance, PTL

(* No sequence of fragments makes memcpy() write behind commandBuffer_,    *)
(* whatever their index and length: the sums do not wrap.                  *)
THEOREM BufferNeverOverrun == Spec => []BufferIsEnough
<1>1. IInv => BufferIsEnough
  BY DEF IInv
<1> QED BY <1>1, Invariance, PTL
===============================================================================
