--------------------------- MODULE CommandAssembly ----------------------------
(***************************************************************************)
(* The inbound command envelope: handleIncoming() of                       *)
(* src/mqtt_runtime_adapter.cpp assembles the fragments of a message in a  *)
(* fixed buffer and hands the whole on, or refuses it.  Fragments come in  *)
(* any order: the last of a message that a lost connection has cut, the    *)
(* first of one after the middle of another.                               *)
(*                                                                         *)
(* An operator marked "Mutant" is not part of the model: it is the one     *)
(* after it with a plausible mistake, which a property must notice.        *)
(***************************************************************************)
EXTENDS Naturals, Sequences

CONSTANTS
  MaxCommandBytes,    \* kMaxCommandPayloadBytes
  MemoryBytes,        \* commandBuffer_ and what lies behind it
  SizeRange,          \* std::size_t counts modulo this
  Byte, Untouched,    \* what a byte of memory may hold
  PacketId,
  Fragments,          \* what the client may call back with
  MaxFragments        \* bound: fragments of one message

Metadata == [qos : 0 .. 2, dup : BOOLEAN, retain : BOOLEAN, packetId : PacketId]

Sizes == 0 .. SizeRange - 1

ASSUME AssemblyAssumption ==
  /\ SizeRange \in Nat
  /\ MaxCommandBytes \in Sizes
  /\ MemoryBytes \in Nat /\ MemoryBytes > MaxCommandBytes
  /\ 0 \in PacketId
  /\ Untouched \notin Byte

(* A payload holds len bytes, or is a null pointer: empty although len > 0.*)
ASSUME FragmentAssumption ==
  /\ Fragments \subseteq [index : Sizes, len : Sizes, total : Sizes,
                          payload : Seq(Byte), meta : Metadata]
  /\ \A f \in Fragments : Len(f.payload) = f.len \/ f.payload = <<>>

VARIABLES
  assembly,         \* assembling_ ... metadata_
  commandBuffer,    \* commandBuffer_ and what lies behind it
  handedOn,         \* what the last call handed on: nothing, or one command
  received,         \* ghost: the fragments of the current message
  reports           \* ghost: how often its rejection was reported

vars == <<assembly, commandBuffer, handedOn, received, reports>>

Memory == 0 .. MemoryBytes - 1

TypeOK ==
  /\ assembly \in [assembling : BOOLEAN, dropCurrent : BOOLEAN,
                   rejectReported : BOOLEAN, expectedTotal : Sizes,
                   nextIndex : Sizes, metadata : Metadata]
  /\ ~assembly.dropCurrent => assembly.nextIndex <= MaxCommandBytes
  /\ commandBuffer \in [Memory -> Byte \cup {Untouched}]
  /\ handedOn = <<>> \/ Len(handedOn) = 1
  /\ received \in Seq(Fragments)
  /\ reports \in Nat

-------------------------------------------------------------------------------
(* The policies.                                                           *)
(* Mutant: does not look at the length.                                    *)
validateFlags(f) == ~f.meta.retain /\ f.meta.qos <= 1

validateEnvelope(f) ==
  ~f.meta.retain /\ f.meta.qos <= 1 /\ f.total <= MaxCommandBytes

(* std::size_t addition.                                                   *)
plus(a, b) == (a + b) % SizeRange

(* Mutant: does not ask where the fragment belongs.                        *)
anyChunkInside(a, f) ==
  /\ f.total = a.expectedTotal
  /\ f.index <= f.total /\ f.len <= f.total - f.index

(* Mutant: the end of the fragment may wrap around.                        *)
isChunkSequenceWrapping(a, f) ==
  /\ f.total = a.expectedTotal /\ f.index = a.nextIndex
  /\ plus(f.index, f.len) <= f.total

isChunkSequenceValid(a, f) ==
  /\ f.total = a.expectedTotal /\ f.index = a.nextIndex
  /\ f.index <= f.total /\ f.len <= f.total - f.index

metadataMatches(a, f) == f.meta = a.metadata

finalChunk(f) ==
  /\ f.index <= f.total /\ f.len <= f.total - f.index
  /\ plus(f.index, f.len) = f.total

-------------------------------------------------------------------------------
(* handleIncoming(), step by step.                                         *)
noMetadata == [qos |-> 0, dup |-> FALSE, retain |-> FALSE, packetId |-> 0]

idle ==
  [assembling |-> FALSE, dropCurrent |-> FALSE, rejectReported |-> FALSE,
   expectedTotal |-> 0, nextIndex |-> 0, metadata |-> noMetadata]

rejected(a) == [a EXCEPT !.dropCurrent = TRUE, !.rejectReported = TRUE]

(* Mutant: the next message finds the last one's rejection.                *)
resetWithoutReport(a) == [idle EXCEPT !.rejectReported = a.rejectReported]

resetAssembly(a) == idle

started(a, f) ==
  [assembling |-> TRUE, dropCurrent |-> a.dropCurrent,
   rejectReported |-> a.rejectReported, expectedTotal |-> f.total,
   nextIndex |-> a.nextIndex, metadata |-> f.meta]

(* A first fragment starts a message; so does a stray one, but badly.      *)
begun(f) ==
  IF f.index = 0
  THEN LET a == started(resetAssembly(assembly), f)
       IN  IF validateEnvelope(f) THEN a ELSE rejected(a)
  ELSE IF assembly.assembling THEN assembly
  ELSE rejected([assembly EXCEPT !.assembling = TRUE, !.expectedTotal = f.total,
                                 !.nextIndex = f.index])

checked(f) ==
  LET a == begun(f)
      acceptable == /\ metadataMatches(a, f)
                    /\ isChunkSequenceValid(a, f)
                    /\ f.len > 0 => f.payload # <<>>
  IN  IF a.dropCurrent \/ acceptable THEN a ELSE rejected(a)

stored(f) ==
  [i \in Memory |-> IF f.index <= i /\ i < f.index + f.len
                    THEN f.payload[i - f.index + 1] ELSE commandBuffer[i]]

reported(f) ==
  checked(f).rejectReported
    /\ ~(IF f.index = 0 THEN resetAssembly(assembly) ELSE assembly).rejectReported

(* Whether a fragment begins a message, as seen from outside.              *)
EndsMessage(f) == f.index + f.len = f.total

Begins(f) ==
  f.index = 0 \/ received = <<>> \/ EndsMessage(received[Len(received)])

HandleIncoming(f) ==
  LET a == checked(f)
      writes == ~a.dropCurrent /\ f.len > 0
  IN  /\ ~Begins(f) => Len(received) < MaxFragments
      /\ commandBuffer' = IF writes THEN stored(f) ELSE commandBuffer
      /\ assembly' = IF finalChunk(f) THEN resetAssembly(a)
                     ELSE IF writes THEN [a EXCEPT !.nextIndex = plus(f.index, f.len)]
                     ELSE a
      /\ handedOn' = IF finalChunk(f) /\ ~a.dropCurrent
                     THEN <<[i \in 1 .. f.total |-> commandBuffer'[i - 1]]>>
                     ELSE <<>>
      /\ received' = IF Begins(f) THEN <<f>> ELSE Append(received, f)
      /\ reports' = (IF Begins(f) THEN 0 ELSE reports)
                    + (IF reported(f) THEN 1 ELSE 0)

(* The disconnect callback, forceDisconnect(), abortTransition(): what is  *)
(* left of a message belongs to none.                                      *)
Reset ==
  /\ assembly' = resetAssembly(assembly)
  /\ handedOn' = <<>>
  /\ received' = <<>>
  /\ reports' = 0
  /\ UNCHANGED commandBuffer

Init ==
  /\ assembly = idle
  /\ commandBuffer = [i \in Memory |-> Untouched]
  /\ handedOn = <<>> /\ received = <<>> /\ reports = 0

Next == (\E f \in Fragments : HandleIncoming(f)) \/ Reset

Spec == Init /\ [][Next]_vars

-------------------------------------------------------------------------------
(* What a message is, in terms of its fragments alone.                     *)

(* The fragments so far may be the beginning of a command.                 *)
InOrder(h) ==
  /\ h[1].index = 0 /\ validateEnvelope(h[1])
  /\ \A k \in DOMAIN h :
       /\ h[k].total = h[1].total /\ h[k].meta = h[1].meta
       /\ h[k].index + h[k].len <= h[k].total
       /\ Len(h[k].payload) = h[k].len
       /\ k > 1 => h[k].index = h[k - 1].index + h[k - 1].len

Whole(h) == h # <<>> /\ InOrder(h) /\ EndsMessage(h[Len(h)])

(* docs/MQTT_RUNTIME_ADAPTER_DESIGN.md:99-109: a command is handed on when *)
(* its last fragment has come, if all of them were in order, of one        *)
(* message and allowed, and it is made of their bytes; nothing else is.    *)
HandedOnWhole ==
  /\ handedOn # <<>> <=> Whole(received)
  /\ handedOn # <<>> =>
       /\ Len(handedOn[1]) = received[1].total
       /\ \A k \in DOMAIN received : \A j \in 1 .. received[k].len :
            handedOn[1][received[k].index + j] = received[k].payload[j]

(* A message that is not in order is reported as soon as that shows, and   *)
(* once only, however many fragments of it follow; others never are.       *)
ReportedOnce ==
  received # <<>> => reports = IF InOrder(received) THEN 0 ELSE 1

(* No fragment, whatever its index and length, writes behind the buffer.   *)
BufferIsEnough ==
  \A i \in Memory : i >= MaxCommandBytes => commandBuffer[i] = Untouched
===============================================================================
