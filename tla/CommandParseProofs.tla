-------------------------- MODULE CommandParseProofs --------------------------
(***************************************************************************)
(* The number of minutes for every text, every limit and every width of    *)
(* the integers.                                                           *)
(***************************************************************************)
EXTENDS CommandParse, TLAPS

-------------------------------------------------------------------------------
(* While the code reads, its value is the exact one; once it has given up, *)
(* no rest of the text can prove it wrong.                                 *)
ReadingInv ==
  ~ended =>
    /\ outcome # "accepted" /\ minutes = 0 /\ requestedSeconds = 0
    /\ exact > 0 => length > 0
    /\ outcome = "reading" => plain /\ value = exact
    /\ outcome = "refused" => ~plain \/ exact > maxMinutes \/ maxMinutes = 0

IInv == TypeOK /\ ReadingInv /\ ParsedExactly /\ RequestWithinLimit

-------------------------------------------------------------------------------
(* The limits.                                                             *)

LEMMA LimitFacts ==
  ASSUME maxSeconds \in UInt
  PROVE  /\ Modulus \in Nat /\ Modulus > 0
         /\ maxMinutes \in Nat /\ maxMinutes < Modulus
         /\ \A m \in Nat : m <= maxMinutes => m * SecondsPerMinute <= maxSeconds
<1>1. /\ Modulus \in Nat /\ Modulus > 0 /\ maxSeconds \in Nat /\ maxSeconds < Modulus
      /\ SecondsPerMinute \in Nat /\ SecondsPerMinute > 0
  BY ParseAssumption DEF UInt
<1>2. /\ maxMinutes \in Int
      /\ maxMinutes * SecondsPerMinute <= maxSeconds
      /\ maxSeconds < maxMinutes * SecondsPerMinute + SecondsPerMinute
  BY <1>1 DEF maxMinutes
<1> HIDE DEF maxMinutes
<1>3. maxMinutes >= 0
  BY <1>1, <1>2
<1>4. maxMinutes <= maxMinutes * SecondsPerMinute
  BY <1>1, <1>2, <1>3
<1>5. ASSUME NEW m \in Nat, m <= maxMinutes
      PROVE  m * SecondsPerMinute <= maxSeconds
  <2>1. PICK k \in Nat : maxMinutes = m + k
    <3>1. maxMinutes - m \in Nat /\ maxMinutes = m + (maxMinutes - m)
      BY <1>2, <1>3, <1>5
    <3> QED BY <3>1
  <2>2. k * SecondsPerMinute >= 0
    BY <1>1
  <2>3. maxMinutes * SecondsPerMinute = m * SecondsPerMinute + k * SecondsPerMinute
    BY <1>1, <2>1
  <2> QED BY <1>1, <1>2, <1>5, <2>2, <2>3
<1> QED BY <1>1, <1>2, <1>3, <1>4, <1>5

LEMMA SmallIsExact ==
  ASSUME NEW n \in Nat, n < Modulus, Modulus \in Nat
  PROVE  n % Modulus = n
  OBVIOUS

(* The test before the next digit is exact, and nothing after it wraps.    *)
LEMMA TooLargeIsExact ==
  ASSUME NEW v \in Nat, NEW d \in Digit, NEW m \in Nat
  PROVE  (d > m \/ v > (m - d) \div 10) <=> v * 10 + d > m
  BY DEF Digit

LEMMA DigitIsAdded ==
  ASSUME NEW v \in Nat, NEW d \in Digit, maxSeconds \in UInt
  PROVE  /\ tooLarge(v, d) <=> v * 10 + d > maxMinutes
         /\ ~tooLarge(v, d) => plus(times(v, 10), d) = v * 10 + d
<1>1. Modulus \in Nat /\ maxMinutes \in Nat /\ maxMinutes < Modulus
  BY LimitFacts
<1>2. tooLarge(v, d) <=> v * 10 + d > maxMinutes
  BY <1>1, TooLargeIsExact DEF tooLarge
<1>3. ASSUME ~tooLarge(v, d) PROVE plus(times(v, 10), d) = v * 10 + d
  <2>1. v * 10 \in Nat /\ v * 10 + d \in Nat /\ v * 10 + d < Modulus /\ v * 10 < Modulus
    BY <1>1, <1>2, <1>3 DEF Digit
  <2>2. times(v, 10) = v * 10
    BY <1>1, <2>1, SmallIsExact DEF times
  <2> QED BY <1>1, <2>1, <2>2, SmallIsExact DEF plus
<1> QED BY <1>2, <1>3

-------------------------------------------------------------------------------
(* The steps.                                                              *)

LEMMA InitEstablishes ==
  ASSUME Init PROVE IInv
<1>1. maxMinutes \in Nat /\ Modulus \in Nat /\ Modulus > 0
  BY LimitFacts DEF Init
<1> QED BY <1>1 DEF Init, IInv, TypeOK, UInt, ReadingInv, ParsedExactly,
                    RequestWithinLimit

LEMMA CallKeeps ==
  ASSUME IInv, Call PROVE IInv'
<1>1. maxMinutes \in Nat /\ Modulus \in Nat /\ Modulus > 0
  BY LimitFacts DEF IInv, TypeOK
<1>2. maxMinutes' = maxMinutes
  BY DEF Call, maxMinutes
<1>3. /\ ended' = FALSE /\ length' = 0 /\ plain' = TRUE /\ exact' = 0
      /\ value' = 0 /\ minutes' = 0 /\ requestedSeconds' = 0
      /\ outcome' = IF maxMinutes = 0 THEN "refused" ELSE "reading"
      /\ maxSeconds' = maxSeconds
  BY DEF Call
<1>4. TypeOK'
  <2>1. 0 \in UInt /\ maxSeconds' \in UInt
    BY <1>1, <1>3 DEF IInv, TypeOK, UInt
  <2>2. value' \in UInt /\ minutes' \in UInt /\ requestedSeconds' \in UInt
    BY <1>3, <2>1
  <2>3. value' <= maxMinutes'
    BY <1>1, <1>2, <1>3
  <2>4. outcome' \in {"reading", "refused", "accepted"}
    BY <1>3
  <2>5. ended' \in BOOLEAN /\ plain' \in BOOLEAN /\ length' \in Nat /\ exact' \in Nat
    BY <1>3
  <2> QED BY <2>1, <2>2, <2>3, <2>4, <2>5 DEF TypeOK
<1>5. ReadingInv' /\ ParsedExactly' /\ RequestWithinLimit'
  BY <1>1, <1>2, <1>3 DEF ReadingInv, ParsedExactly, RequestWithinLimit
<1> QED BY <1>4, <1>5 DEF IInv

LEMMA CharacterKeeps ==
  ASSUME IInv, NEW c \in Character, ReadDigit(c) \/ ReadOther(c) \/ LeaveUnread(c)
  PROVE  IInv'
<1>1. /\ maxMinutes \in Nat /\ maxMinutes < Modulus /\ Modulus \in Nat
      /\ maxMinutes' = maxMinutes
  BY LimitFacts DEF IInv, TypeOK, ReadDigit, ReadOther, LeaveUnread, Seen, maxMinutes
<1>2. /\ ~ended /\ ended' = ended /\ length' = length + 1
      /\ plain' = (plain /\ c \in Digit)
      /\ exact' = IF c \in Digit THEN exact * 10 + c ELSE exact
      /\ maxSeconds' = maxSeconds /\ minutes' = minutes
      /\ requestedSeconds' = requestedSeconds
  BY DEF ReadDigit, ReadOther, LeaveUnread, Seen
<1>3. /\ maxSeconds \in UInt /\ value \in Nat /\ minutes \in UInt
      /\ requestedSeconds \in UInt /\ length \in Nat /\ exact \in Nat
      /\ value <= maxMinutes /\ ended \in BOOLEAN /\ plain \in BOOLEAN
      /\ value \in UInt
  BY DEF IInv, TypeOK, UInt
<1>4. exact' \in Nat /\ exact' >= exact
  BY <1>2, <1>3 DEF Digit
<1>5. /\ value' \in Nat /\ value' <= maxMinutes
      /\ outcome' \in {"reading", "refused"}
      /\ outcome' = "reading" => plain' /\ value' = exact'
      /\ outcome' = "refused" => ~plain' \/ exact' > maxMinutes \/ maxMinutes = 0
  <2>1. CASE ReadDigit(c)
    <3>1. outcome = "reading" /\ c \in Digit /\ plain /\ value = exact
      BY <1>2, <2>1 DEF ReadDigit, IInv, ReadingInv
    <3>2. /\ tooLarge(value, c) <=> value * 10 + c > maxMinutes
          /\ ~tooLarge(value, c) => plus(times(value, 10), c) = value * 10 + c
      BY <1>3, <3>1, DigitIsAdded
    <3>3. exact' = value * 10 + c /\ plain'
      BY <1>2, <3>1
    <3>4. CASE tooLarge(value, c)
      <4>1. outcome' = "refused" /\ value' = value
        BY <2>1, <3>4 DEF ReadDigit
      <4> QED BY <1>3, <3>2, <3>3, <3>4, <4>1
    <3>5. CASE ~tooLarge(value, c)
      <4>1. outcome' = "reading" /\ value' = value * 10 + c
        BY <2>1, <3>1, <3>2, <3>5 DEF ReadDigit
      <4>2. value * 10 + c \in Nat /\ value * 10 + c <= maxMinutes
        BY <1>1, <1>3, <3>1, <3>2, <3>5 DEF Digit
      <4> QED BY <3>3, <4>1, <4>2
    <3> QED BY <3>4, <3>5
  <2>2. CASE ReadOther(c)
    BY <1>2, <1>3, <2>2 DEF ReadOther
  <2>3. CASE LeaveUnread(c)
    <3>1. /\ outcome = "refused" /\ outcome' = outcome /\ value' = value
          /\ ~plain \/ exact > maxMinutes \/ maxMinutes = 0
      BY <1>2, <2>3 DEF LeaveUnread, IInv, ReadingInv
    <3> QED BY <1>1, <1>2, <1>3, <1>4, <3>1
  <2> QED BY <2>1, <2>2, <2>3
<1>6. TypeOK'
  <2>1. value' \in UInt
    BY <1>1, <1>5 DEF UInt
  <2> QED BY <1>1, <1>2, <1>3, <1>4, <1>5, <2>1 DEF TypeOK
<1>7. ReadingInv'
  <2>1. minutes = 0 /\ requestedSeconds = 0
    BY <1>2 DEF IInv, ReadingInv
  <2> QED BY <1>1, <1>2, <1>3, <1>5, <2>1 DEF ReadingInv
<1>8. ParsedExactly' /\ RequestWithinLimit'
  BY <1>2, <1>7 DEF ParsedExactly, RequestWithinLimit, ReadingInv
<1> QED BY <1>6, <1>7, <1>8 DEF IInv

LEMMA EndOfTextKeeps ==
  ASSUME IInv, EndOfText PROVE IInv'
<1>1. /\ maxMinutes \in Nat /\ maxMinutes < Modulus /\ Modulus \in Nat
      /\ \A m \in Nat : m <= maxMinutes => m * SecondsPerMinute <= maxSeconds
  BY LimitFacts DEF IInv, TypeOK
<1>2. /\ ~ended /\ ended' /\ ended' \in BOOLEAN
      /\ maxSeconds' = maxSeconds /\ value' = value /\ length' = length
      /\ plain' = plain /\ exact' = exact /\ maxMinutes' = maxMinutes
  BY DEF EndOfText, maxMinutes
<1>3. /\ maxSeconds \in Nat /\ maxSeconds < Modulus /\ value \in Nat
      /\ value <= maxMinutes /\ exact \in Nat /\ length \in Nat
      /\ outcome \in {"reading", "refused"}
      /\ minutes = 0 /\ requestedSeconds = 0
      /\ SecondsPerMinute \in Nat /\ SecondsPerMinute > 0
      /\ exact > 0 => length > 0
      /\ outcome = "reading" => plain /\ value = exact
      /\ outcome = "refused" => ~plain \/ exact > maxMinutes \/ maxMinutes = 0
  BY <1>2, ParseAssumption DEF IInv, TypeOK, UInt, ReadingInv
<1>4. CASE isAccepted
  <2>1. /\ outcome = "reading" /\ value # 0
        /\ outcome' = "accepted" /\ minutes' = value
        /\ requestedSeconds' = times(value, SecondsPerMinute)
    BY <1>4 DEF EndOfText, isAccepted
  <2>2. value * SecondsPerMinute \in Nat /\ value * SecondsPerMinute <= maxSeconds
    BY <1>1, <1>3
  <2>3. requestedSeconds' = value * SecondsPerMinute
    BY <1>1, <1>3, <2>1, <2>2, SmallIsExact DEF times
  <2>4. ParsedExactly'
    BY <1>2, <1>3, <2>1 DEF ParsedExactly
  <2>5. RequestWithinLimit'
    BY <1>2, <1>3, <2>1, <2>2, <2>3 DEF RequestWithinLimit
  <2>6. requestedSeconds' \in UInt
    BY <1>1, <1>3, <2>2, <2>3 DEF UInt
  <2>7. TypeOK'
    BY <1>2, <2>1, <2>6 DEF IInv, TypeOK
  <2> QED BY <1>2, <2>4, <2>5, <2>7 DEF IInv, ReadingInv
<1>5. CASE ~isAccepted
  <2>1. /\ outcome = "reading" => value = 0
        /\ outcome' = "refused" /\ minutes' = 0 /\ requestedSeconds' = 0
    BY <1>3, <1>5 DEF EndOfText, isAccepted
  <2>2. ~(plain /\ length > 0 /\ 0 < exact /\ exact <= maxMinutes)
    BY <1>1, <1>3, <2>1
  <2>3. ParsedExactly' /\ RequestWithinLimit'
    BY <1>2, <2>1, <2>2 DEF ParsedExactly, RequestWithinLimit
  <2>4. 0 \in UInt
    BY <1>1, <1>3 DEF UInt
  <2>5. TypeOK'
    BY <1>2, <2>1, <2>4 DEF IInv, TypeOK
  <2> QED BY <1>2, <2>3, <2>5 DEF IInv, ReadingInv
<1> QED BY <1>4, <1>5

LEMMA StutterKeeps ==
  ASSUME IInv, UNCHANGED vars PROVE IInv'
<1>1. /\ maxSeconds' = maxSeconds /\ value' = value /\ minutes' = minutes
      /\ requestedSeconds' = requestedSeconds /\ outcome' = outcome
      /\ ended' = ended /\ length' = length /\ plain' = plain /\ exact' = exact
      /\ maxMinutes' = maxMinutes
  BY DEF vars, maxMinutes
<1> QED BY <1>1 DEF IInv, TypeOK, ReadingInv, ParsedExactly, RequestWithinLimit

(* The invariant holds in every reachable state, whatever the text.        *)
THEOREM Invariance == Spec => []IInv
<1>1. IInv /\ [Next]_vars => IInv'
  BY CallKeeps, EndOfTextKeeps, CharacterKeeps, StutterKeeps DEF Next
<1> QED BY <1>1, InitEstablishes, PTL DEF Spec

(* parsePositiveDecimal()'s value stays within the limit all along.        *)
THEOREM TypeCorrect == Spec => []TypeOK
<1>1. IInv => TypeOK
  BY DEF IInv
<1> QED BY <1>1, Invariance, PTL

(* A text of any length is accepted if and only if it is a number from 1   *)
(* to the limit, and its exact value is what comes out: no overflow can    *)
(* make a large number look like a small one.                              *)
THEOREM TextsAreParsedExactly == Spec => []ParsedExactly
<1>1. IInv => ParsedExactly
  BY DEF IInv
<1> QED BY <1>1, Invariance, PTL

(* "laist_X" never asks the pump for more than MAX_PUMP_SECONDS.           *)
THEOREM RequestsStayWithinLimit == Spec => []RequestWithinLimit
<1>1. IInv => RequestWithinLimit
  BY DEF IInv
<1> QED BY <1>1, Invariance, PTL
===============================================================================
