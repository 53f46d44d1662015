--------------------------- MODULE HttpParserProofs ---------------------------
(***************************************************************************)
(* Proofs about HttpParser, for a receive buffer, memory behind it and     *)
(* requests of any length, and any bytes in them, NUL included: a string   *)
(* may end inside the request, behind it, behind the buffer, or nowhere.   *)
(***************************************************************************)
EXTENDS HttpParser, FiniteSetTheorems, WellFoundedInduction, TLAPS

-----------------------------------------------------------------------------
(***************************************************************************)
(* Least positions.                                                        *)
(***************************************************************************)
LEMMA MinIs ==
  ASSUME NEW S \in SUBSET Nat, NEW x \in S, \A y \in S : x <= y
  PROVE  Min(S) = x
<1>1. \E z \in S : \A y \in S : z <= y
  OBVIOUS
<1>2. Min(S) \in S /\ \A y \in S : Min(S) <= y
  BY <1>1, Zenon DEF Min
<1>3. Min(S) \in Nat /\ x \in Nat /\ Min(S) <= x /\ x <= Min(S)
  BY <1>2
<1> HIDE DEF Min
<1> QED
  BY <1>3

LEMMA MinExists ==
  ASSUME NEW S \in SUBSET Nat, S # {}
  PROVE  Min(S) \in S /\ \A y \in S : Min(S) <= y
<1>1. PICK x \in S : \A y \in S : <<y, x>> \notin OpToRel(<, Nat)
  BY NatLessThanWellFounded, WFMin
<1>2. ASSUME NEW y \in S
      PROVE  x <= y
  <2>1. y < x => <<y, x>> \in OpToRel(<, Nat)
    BY DEF OpToRel
  <2>2. ~(y < x) /\ y \in Nat /\ x \in Nat
    BY <1>1, <2>1, Zenon
  <2> QED
    BY <2>2
<1>3. Min(S) = x
  BY <1>2, MinIs
<1> QED
  BY <1>2, <1>3

\* A string ends at the first NUL, if there is one.
LEMMA StringEnds ==
  ASSUME NEW buf \in Memory, Terminated(buf)
  PROVE  /\ strlen(buf) \in 0..MemoryLength - 1
         /\ buf[strlen(buf)] = NUL
         /\ \A k \in 0..strlen(buf) - 1 : buf[k] # NUL
<1> DEFINE S == {k \in Position : buf[k] = NUL}
<1>1. S \in SUBSET Nat /\ S # {}
  BY ParserAssumption DEF Terminated, Position
<1>2. Min(S) \in S /\ \A y \in S : Min(S) <= y
  BY <1>1, MinExists
<1>3. strlen(buf) = Min(S)
  BY DEF strlen
<1>4. \A k \in Position : k \notin S => buf[k] # NUL
  OBVIOUS
<1> HIDE DEF S
<1>5. strlen(buf) \in Position /\ buf[strlen(buf)] = NUL
  BY <1>2, <1>3 DEF S
<1>6. ASSUME NEW k \in 0..strlen(buf) - 1
      PROVE  buf[k] # NUL
  <2>1. k \in Position /\ k < Min(S) /\ Min(S) \in Nat
    BY <1>1, <1>2, <1>3, <1>5, ParserAssumption DEF Position
  <2>2. k \notin S
    BY <1>1, <1>2, <2>1
  <2> QED
    BY <1>4, <2>1, <2>2
<1> QED
  BY <1>5, <1>6 DEF Position

-----------------------------------------------------------------------------
(***************************************************************************)
(* The url field, by where the first two spaces are.                       *)
(***************************************************************************)
\* No space among the bytes from position from to position to.
Clear(from, to) == \A k \in from..to : recv_buf[k] # SPACE

\* f is the first space, and g the one after it.
FirstSpace(f)     == f \in Nat /\ recv_buf[f] = SPACE /\ Clear(0, f - 1)
SecondSpace(f, g) == /\ FirstSpace(f) /\ g \in Nat /\ f < g
                     /\ recv_buf[g] = SPACE /\ Clear(f + 1, g - 1)

LEMMA SpacesFinite ==
  ASSUME NEW n \in Nat
  PROVE  Spaces(n) \in SUBSET Nat /\ IsFiniteSet(Spaces(n)) /\ Cardinality(Spaces(n)) \in Nat
<1>1. Spaces(n) \in SUBSET (0..n - 1) /\ IsFiniteSet(0..n - 1)
  BY FS_Interval DEF Spaces
<1> QED
  BY <1>1, FS_Subset, FS_CardinalityType

LEMMA FewSpaces ==
  ASSUME NEW n \in Nat, Clear(0, n - 1) \/ \E f \in Nat : FirstSpace(f) /\ Clear(f + 1, n - 1)
  PROVE  Cardinality(Spaces(n)) < 2
<1>1. CASE Clear(0, n - 1)
  <2>1. Spaces(n) = {}
    BY <1>1 DEF Spaces, Clear
  <2> QED
    BY <2>1, FS_EmptySet
<1>2. CASE \E f \in Nat : FirstSpace(f) /\ Clear(f + 1, n - 1)
  <2>1. PICK f \in Nat : FirstSpace(f) /\ Clear(f + 1, n - 1)
    BY <1>2
  <2>2. Spaces(n) \in SUBSET {f}
    BY <2>1 DEF FirstSpace, Spaces, Clear
  <2>3. IsFiniteSet({f}) /\ Cardinality({f}) = 1
    BY FS_Singleton
  <2>4. Cardinality(Spaces(n)) <= 1
    BY <2>2, <2>3, FS_Subset
  <2> QED
    BY <2>4, SpacesFinite
<1> QED
  BY <1>1, <1>2

LEMMA NoUrl ==
  ASSUME NEW n \in Nat, Clear(0, n - 1) \/ \E f \in Nat : FirstSpace(f) /\ Clear(f + 1, n - 1)
  PROVE  UrlField(n) = UNSET
BY FewSpaces DEF UrlField

LEMMA UrlFound ==
  ASSUME NEW n \in Nat, NEW f, NEW g, SecondSpace(f, g), g < n
  PROVE  UrlField(n) = Bytes(recv_buf, f, g - f) /\ ~(Cardinality(Spaces(n)) < 2)
<1>1. f \in Nat /\ g \in Nat /\ f \in Spaces(n) /\ g \in Spaces(n) /\ f # g
  BY DEF SecondSpace, FirstSpace, Spaces
<1>2. \A k \in Spaces(n) : f <= k
  BY <1>1 DEF SecondSpace, FirstSpace, Spaces, Clear
<1>3. Min(Spaces(n)) = f
  BY <1>1, <1>2, SpacesFinite, MinIs
<1>4. \A k \in Spaces(n) \ {f} : g <= k
  BY <1>1, <1>2 DEF SecondSpace, Spaces, Clear
<1>5. Min(Spaces(n) \ {f}) = g
  BY <1>1, <1>4, SpacesFinite, MinIs
<1>6. ~(Cardinality(Spaces(n)) < 2)
  <2>1. IsFiniteSet({f}) /\ Cardinality({f}) = 1
    BY FS_Singleton
  <2>2. Cardinality({f} \cup {g}) = 2
    <3> DEFINE S == {f}
    <3>1. IsFiniteSet(S) /\ Cardinality(S) = 1 /\ g \notin S
      BY <1>1, <2>1
    <3> HIDE DEF S
    <3>2. Cardinality(S \cup {g}) = Cardinality(S) + 1
      BY <3>1, FS_AddElement
    <3> QED
      BY <3>1, <3>2 DEF S
  <2>3. {f} \cup {g} \in SUBSET Spaces(n)
    BY <1>1
  <2>4. Cardinality({f} \cup {g}) <= Cardinality(Spaces(n))
    BY <2>3, SpacesFinite, FS_Subset
  <2> QED
    BY <2>2, <2>4, SpacesFinite
<1> QED
  BY <1>3, <1>5, <1>6 DEF UrlField

-----------------------------------------------------------------------------
(***************************************************************************)
(* The inductive invariant: what the parser knows of the bytes before i.   *)
(***************************************************************************)
FieldRead ==
  /\ state = 0 => start = 0 /\ url = UNSET /\ Clear(0, i - 1)
  /\ state = 1 => url = UNSET /\ start < i /\ FirstSpace(start) /\ Clear(start + 1, i - 1)
  /\ state = 2 => \E f \in Nat : /\ SecondSpace(f, start) /\ start < i
                                 /\ url = Bytes(recv_buf, f, start - f)

ParserInv ==
  /\ TypeOK
  /\ i \in Nat /\ start \in Nat
  /\ pc # "recv" => FieldRead
  /\ pc = "done" => Terminated(recv_buf) /\ i = strlen(recv_buf)

LEMMA InitParser == Init => ParserInv
BY ParserAssumption DEF Init, ParserInv, TypeOK

LEMMA RecvKeeps ==
  ASSUME ParserInv, Recv
  PROVE  ParserInv'
<1>1. PICK data \in Strings, others \in [BufferLength..MemoryLength - 1 -> Char] :
        /\ recv_buf' = [k \in Position |->
             CASE k < Len(data)     -> data[k + 1]
               [] k >= BufferLength -> others[k]
               [] OTHER             -> recv_buf[k]]
        /\ length' = Len(data)
  BY DEF Recv
<1>2. PICK n \in 1..MaxRequest : data \in [1..n -> Char]
  BY DEF Strings
<1>3. Len(data) = n /\ n \in 1..BufferLength /\ \A k \in 1..n : data[k] \in Char
  BY <1>2, ParserAssumption
<1>4. recv_buf' \in Memory
  <2> SUFFICES ASSUME NEW k \in Position
               PROVE  (CASE k < Len(data)     -> data[k + 1]
                         [] k >= BufferLength -> others[k]
                         [] OTHER             -> recv_buf[k]) \in Char
    BY <1>1 DEF Memory
  <2>1. k \in Nat /\ k <= MemoryLength - 1 /\ recv_buf[k] \in Char
    BY ParserAssumption DEF Position, ParserInv, TypeOK, Memory
  <2>2. CASE k < n
    BY <1>3, <2>1, <2>2, ParserAssumption
  <2>3. CASE k >= BufferLength
    BY <1>3, <2>1, <2>3, ParserAssumption
  <2>4. CASE ~(k < n) /\ ~(k >= BufferLength)
    BY <1>3, <2>1, <2>4, ParserAssumption
  <2> QED
    BY <2>2, <2>3, <2>4
<1>5. /\ pc' = "parse" /\ i' = 0 /\ start' = 0 /\ state' = 0 /\ url' = UNSET
      /\ length' = n /\ n \in 0..MaxRequest
  BY <1>1, <1>2, <1>3, ParserAssumption DEF Recv
<1>6. Terminated(recv_buf)' => i' <= strlen(recv_buf)'
  <2> DEFINE buf == recv_buf'
  <2>1. Terminated(buf) => strlen(buf) \in 0..MemoryLength - 1
    BY <1>4, StringEnds
  <2> QED
    BY <1>5, <2>1, ParserAssumption
<1> QED
  BY <1>4, <1>5, <1>6 DEF ParserInv, TypeOK, FieldRead, Clear

\* At a position inside the string, of which the next one still is or ends it.
LEMMA Inside ==
  ASSUME ParserInv, InString
  PROVE  /\ i \in Nat /\ start \in Nat /\ start <= i /\ state \in 0..2 /\ FieldRead
         /\ strlen(recv_buf) \in 0..MemoryLength - 1 /\ i + 1 <= strlen(recv_buf)
         /\ i < MemoryLength /\ MemoryLength \in Nat
<1>1. strlen(recv_buf) \in 0..MemoryLength - 1
  BY StringEnds DEF ParserInv, TypeOK, InString
<1> QED
  BY <1>1, ParserAssumption DEF ParserInv, TypeOK, InString

LEMMA BytesLength ==
  ASSUME NEW buf, NEW from, NEW len \in Nat
  PROVE  Len(Bytes(buf, from, len)) = len
<1> DEFINE S == {buf[from + k - 1] : k \in 1..len}
<1>1. Bytes(buf, from, len) \in [1..len -> S]
  BY DEF Bytes
<1> HIDE DEF S
<1> QED
  BY <1>1

LEMMA ParseKeeps ==
  ASSUME ParserInv, EndOfMethod \/ EndOfUrl \/ NextByte
  PROVE  ParserInv'
<1>1. /\ InString /\ pc = "parse" /\ i' = i + 1
      /\ UNCHANGED <<recv_buf, length, pc>>
  BY DEF EndOfMethod, EndOfUrl, NextByte, AtSpace, InString
<1>2. /\ i \in Nat /\ start \in Nat /\ start <= i /\ state \in 0..2 /\ FieldRead
      /\ strlen(recv_buf) \in 0..MemoryLength - 1 /\ i + 1 <= strlen(recv_buf)
      /\ i < MemoryLength /\ MemoryLength \in Nat
  BY <1>1, Inside
<1>3. strlen(recv_buf)' = strlen(recv_buf)
  BY <1>1
<1> SUFFICES /\ start' \in Nat /\ start' <= i' /\ state' \in 0..2
             /\ url' = UNSET \/ Len(url') \in 1..MemoryLength
             /\ FieldRead'
  BY <1>1, <1>2, <1>3 DEF ParserInv, TypeOK
<1>4. CASE EndOfMethod
  <2>1. /\ state = 0 /\ state' = 1 /\ start' = i /\ url' = url /\ recv_buf[i] = SPACE
    BY <1>4 DEF EndOfMethod, AtSpace
  <2>2. url = UNSET /\ Clear(0, i - 1)
    BY <1>2, <2>1 DEF FieldRead
  <2> QED
    BY <1>1, <1>2, <2>1, <2>2 DEF FieldRead, FirstSpace, Clear
<1>5. CASE EndOfUrl
  <2>1. /\ state = 1 /\ state' = 2 /\ start' = i /\ recv_buf[i] = SPACE
        /\ url' = Bytes(recv_buf, start, i - start)
    BY <1>5 DEF EndOfUrl, AtSpace, ParseUrl
  <2>2. start < i /\ FirstSpace(start) /\ Clear(start + 1, i - 1)
    BY <1>2, <2>1 DEF FieldRead
  <2>3. SecondSpace(start, i)
    BY <1>2, <2>1, <2>2 DEF SecondSpace
  <2>4. Len(url') \in 1..MemoryLength
    <3>1. i - start \in 1..MemoryLength
      BY <1>2, <2>2
    <3> QED
      BY <2>1, <3>1, BytesLength
  <2> QED
    BY <1>1, <1>2, <2>1, <2>3, <2>4 DEF FieldRead, SecondSpace, FirstSpace, Clear
<1>6. CASE NextByte
  <2>1. /\ UNCHANGED <<start, state, url>> /\ (recv_buf[i] = SPACE => state = 2)
    BY <1>6 DEF NextByte
  <2>2. url' = UNSET \/ Len(url') \in 1..MemoryLength
    BY <2>1 DEF ParserInv, TypeOK
  <2>3. CASE state = 0
    BY <1>1, <1>2, <2>1, <2>2, <2>3 DEF FieldRead, Clear
  <2>4. CASE state = 1
    BY <1>1, <1>2, <2>1, <2>2, <2>4 DEF FieldRead, FirstSpace, Clear
  <2>5. CASE state = 2
    BY <1>1, <1>2, <2>1, <2>2, <2>5 DEF FieldRead, SecondSpace, FirstSpace, Clear
  <2> QED
    BY <1>2, <2>3, <2>4, <2>5
<1> QED
  BY <1>4, <1>5, <1>6

LEMMA NextParser == ParserInv /\ [Next]_vars => ParserInv'
<1> SUFFICES ASSUME ParserInv, [Next]_vars
             PROVE  ParserInv'
  OBVIOUS
<1>1. CASE Recv
  BY <1>1, RecvKeeps
<1>2. CASE EndOfMethod \/ EndOfUrl \/ NextByte
  BY <1>2, ParseKeeps
<1>3. CASE Overrun \/ Finish \/ Return \/ UNCHANGED vars
  <2>1. UNCHANGED <<recv_buf, length, i, start, state, url>>
    BY <1>3 DEF Overrun, Finish, Return, vars
  <2>2. /\ pc' \in {"recv", "parse", "done", "crashed"} /\ (pc' # "recv" => pc # "recv")
        /\ (pc' = "parse" => pc = "parse")
        /\ (pc' = "done" => Terminated(recv_buf) /\ i = strlen(recv_buf))
    BY <1>3 DEF Overrun, Finish, Return, vars, ParserInv, TypeOK
  <2>3. FieldRead => FieldRead'
    BY <2>1 DEF FieldRead, SecondSpace, FirstSpace, Clear
  <2> QED
    BY <2>1, <2>2, <2>3 DEF ParserInv, TypeOK
<1> QED
  BY <1>1, <1>2, <1>3 DEF Next, Crashed

-----------------------------------------------------------------------------
\* The parser knows the spaces before its position, whatever the buffer holds.
THEOREM ParserInvariance == Spec => []ParserInv
  BY InitParser, NextParser, PTL DEF Spec

\* Types; the parser stays inside the string, where there is one.
THEOREM ParserTypes == Spec => []TypeOK
<1>1. ParserInv => TypeOK
  BY DEF ParserInv
<1> QED
  BY <1>1, ParserInvariance, PTL

LEMMA DoneFacts ==
  ASSUME ParserInv, pc = "done"
  PROVE  url = UrlField(strlen(recv_buf))
<1>1. /\ FieldRead /\ i = strlen(recv_buf) /\ i \in Nat /\ state \in 0..2 /\ start \in Nat
  BY DEF ParserInv, TypeOK
<1>2. CASE state = 0
  BY <1>1, <1>2, NoUrl DEF FieldRead
<1>3. CASE state = 1
  BY <1>1, <1>3, NoUrl DEF FieldRead
<1>4. CASE state = 2
  BY <1>1, <1>4, UrlFound DEF FieldRead
<1> QED
  BY <1>1, <1>2, <1>3, <1>4

\* The url is the field between the first two spaces of the string.
THEOREM UrlCorrect == Spec => []UrlIsSecondField
<1>1. ParserInv => UrlIsSecondField
  BY DoneFacts DEF UrlIsSecondField
<1> QED
  BY <1>1, ParserInvariance, PTL

\* What the parser can see of a request lies within the string it is run over, and
\* is all of the string if it is less than the request.
LEMMA RequestInString ==
  ASSUME ParserInv, pc = "done"
  PROVE  /\ RequestLength \in Nat /\ RequestLength <= length /\ length \in Nat
         /\ RequestLength <= i /\ (RequestLength < length => RequestLength = i)
<1> DEFINE S == {length} \cup {k \in 0..length - 1 : recv_buf[k] = NUL}
<1>1. length \in Nat /\ length <= MemoryLength /\ MemoryLength \in Nat
  BY ParserAssumption DEF ParserInv, TypeOK
<1>2. S \in SUBSET Nat /\ length \in S
  BY <1>1
<1>3. RequestLength \in S /\ \A y \in S : RequestLength <= y
  <2>1. RequestLength = Min(S)
    BY DEF RequestLength
  <2> HIDE DEF S
  <2> QED
    BY <1>2, <2>1, MinExists
<1>4. /\ i \in Nat /\ i \in 0..MemoryLength - 1 /\ recv_buf[i] = NUL
      /\ \A k \in 0..i - 1 : recv_buf[k] # NUL
  BY StringEnds DEF ParserInv, TypeOK
<1>5. RequestLength \in Nat /\ RequestLength <= length
  BY <1>2, <1>3
<1>6. RequestLength <= i
  <2>1. CASE i < length
    <3>1. i \in S
      BY <1>1, <1>4, <2>1
    <3> QED
      BY <1>3, <3>1
  <2>2. CASE ~(i < length)
    BY <1>1, <1>4, <1>5, <2>2
  <2> QED
    BY <2>1, <2>2
<1>7. RequestLength < length => RequestLength = i
  <2> SUFFICES ASSUME RequestLength < length PROVE ~(RequestLength < i)
    BY <1>4, <1>5, <1>6
  <2>1. recv_buf[RequestLength] = NUL
    BY <1>1, <1>3
  <2> QED
    BY <1>4, <1>5, <2>1
<1> QED
  BY <1>1, <1>5, <1>6, <1>7

\* A request that has its second space, or a NUL, is parsed from its own bytes alone,
\* of whatever length and bytes it is and whatever is behind it.
THEOREM RequestsAreOwn == Spec => []CompleteRequestsAreOwn
<1> DEFINE n == RequestLength
<1>1. ASSUME ParserInv, pc = "done", Cardinality(Spaces(n)) >= 2
      PROVE  url = UrlField(n)
  <2>1. /\ FieldRead /\ i \in Nat /\ state \in 0..2 /\ start \in Nat
        /\ n \in Nat /\ n <= i
    BY <1>1, RequestInString DEF ParserInv, TypeOK
  <2> HIDE DEF n
  <2>2. ~(Cardinality(Spaces(n)) < 2)
    BY <1>1, <2>1, SpacesFinite
  <2>3. ~Clear(0, n - 1) /\ ~\E f \in Nat : FirstSpace(f) /\ Clear(f + 1, n - 1)
    <3>1. CASE Clear(0, n - 1) \/ \E f \in Nat : FirstSpace(f) /\ Clear(f + 1, n - 1)
      <4>1. Cardinality(Spaces(n)) < 2
        BY <2>1, <3>1, FewSpaces
      <4> QED
        BY <2>2, <4>1
    <3> QED
      BY <3>1
  <2>4. state = 2
    <3>1. state # 0
      BY <2>1, <2>3 DEF FieldRead, Clear
    <3>2. state # 1
      BY <2>1, <2>3 DEF FieldRead, Clear
    <3> QED
      BY <2>1, <3>1, <3>2
  <2>5. PICK f \in Nat : SecondSpace(f, start) /\ url = Bytes(recv_buf, f, start - f)
    BY <2>1, <2>4 DEF FieldRead
  <2>6. start < n
    <3> SUFFICES ASSUME ~(start < n) PROVE FALSE
      OBVIOUS
    <3>1. Clear(f + 1, n - 1)
      BY <2>1, <2>5 DEF SecondSpace, Clear
    <3> QED
      BY <2>3, <2>5, <3>1 DEF SecondSpace
  <2> QED
    BY <2>1, <2>5, <2>6, UrlFound
<1>2. ASSUME ParserInv, pc = "done", n < length
      PROVE  url = UrlField(n)
  <2>1. n = strlen(recv_buf)
    BY <1>2, RequestInString DEF ParserInv
  <2> QED
    BY <1>2, <2>1, DoneFacts
<1>3. ParserInv => CompleteRequestsAreOwn
  BY <1>1, <1>2 DEF CompleteRequestsAreOwn
<1> QED
  BY <1>3, ParserInvariance, PTL
=============================================================================
