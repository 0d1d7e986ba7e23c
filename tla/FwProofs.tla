------------------------------ MODULE FwProofs ------------------------------
(***************************************************************************)
(* The receiver's buffer arithmetic, for every buffer size, every checksum *)
(* and whatever is on the line; the order and integrity of the server's    *)
(* responses; the success of a query on idle lines; the server as the      *)
(* memory of FwService; and whose answer a call of the tool takes.         *)
(***************************************************************************)
EXTENDS FwTool, SequenceTheorems, WellFoundedInduction, TLAPS

-----------------------------------------------------------------------------
(* The least of a few numbers. *)

(* The smaller of two numbers. *)
LEMMA MinOfTwo ==
  ASSUME NEW a \in Nat, NEW b \in Nat
  PROVE  Min({a, b}) = IF a <= b THEN a ELSE b
  <1>1. \A y \in {a, b} : (IF a <= b THEN a ELSE b) <= y
    OBVIOUS
  <1>2. \A x \in {a, b} : (\A y \in {a, b} : x <= y) => x = (IF a <= b THEN a ELSE b)
    OBVIOUS
  <1> QED BY <1>1, <1>2 DEF Min

(* Some of the numbers 1 to 4 have a smallest one. *)
LEMMA MinOfFour ==
  ASSUME NEW S \in SUBSET (1 .. 4), S # {}
  PROVE  Min(S) \in S
  <1>0. \A y \in S : y \in Int /\ (y = 1 \/ y = 2 \/ y = 3 \/ y = 4)
    OBVIOUS
  <1>1. \E x \in S : \A y \in S : x <= y
    <2>1. CASE 1 \in S
      BY <1>0, <2>1
    <2>2. CASE 1 \notin S /\ 2 \in S
      BY <1>0, <2>2
    <2>3. CASE 1 \notin S /\ 2 \notin S /\ 3 \in S
      BY <1>0, <2>3
    <2>4. CASE 1 \notin S /\ 2 \notin S /\ 3 \notin S
      <3> PICK x \in S : TRUE
        OBVIOUS
      <3>1. x = 4 /\ \A y \in S : y = 4
        BY <1>0, <2>4
      <3> QED BY <3>1
    <2> QED BY <2>1, <2>2, <2>3, <2>4
  <1> QED BY <1>1 DEF Min

-----------------------------------------------------------------------------
(* Headers. *)

(* What is read from symbols is a header. *)
LEMMA HeaderOfType ==
  ASSUME NEW bytes \in Seq(Symbol), Len(bytes) >= 3, TypesOf(bytes[1]) # {}
  PROVE  HeaderOf(bytes) \in Headers
  <1>1. (CHOOSE t \in TypesOf(bytes[1]) : TRUE) \in DOMAIN FrameType
    BY DEF TypesOf
  <1>2. bytes[2] \in Nat /\ bytes[3] \in Nat
    BY DEF Symbol
  <1> QED BY <1>1, <1>2 DEF HeaderOf, Headers

(* What a full header buffer is read as: the marker is at its beginning,   *)
(* or further behind and what precedes it is dropped.                      *)
LEMMA ReadHeaderResult ==
  ASSUME NEW got \in Seq(Symbol), Len(got) = HeaderSize
  PROVE  /\ ReadHeader(got).result = "Ok" => ReadHeader(got).header \in Headers
         /\ ReadHeader(got).result = "InsufficientLength" => ReadHeader(got).offset \in 1 .. 3
  <1> DEFINE I    == {i \in 1 .. Len(got) : got[i] = Marker}
             at   == IF I # {} THEN Min(I) ELSE 0
             rest == SubSeq(got, at + 1, Len(got))
  <1>0. I \in SUBSET (1 .. 4)
    BY DEF HeaderSize
  <1> HIDE DEF I
  <1>1. at \in 0 .. 4
    <2>1. CASE I = {}
      BY <2>1
    <2>2. CASE I # {}
      <3>1. Min(I) \in I
        BY <1>0, <2>2, MinOfFour
      <3>2. Min(I) \in 1 .. 4
        BY <1>0, <3>1
      <3> QED BY <2>2, <3>2
    <2> QED BY <2>1, <2>2
  <1>2. rest \in Seq(Symbol) /\ Len(rest) = 4 - at
    <2> HIDE DEF at
    <2>1. Len(got) = 4
      BY DEF HeaderSize
    <2>2. rest \in Seq(Symbol) /\ Len(rest) = IF at + 1 <= 4 THEN 4 - (at + 1) + 1 ELSE 0
      <3>1. \A i \in at + 1 .. 4 : got[i] \in Symbol
        <4> TAKE i \in at + 1 .. 4
        <4>1. i \in 1 .. Len(got)
          BY <1>1, <2>1
        <4> QED BY <4>1, ElementOfSeq
      <3>2. at + 1 \in Int /\ 4 \in Int
        BY <1>1
      <3>3. rest = SubSeq(got, at + 1, 4)
        BY <2>1
      <3> HIDE DEF rest
      <3> QED BY <3>1, <3>2, <3>3, SubSeqProperties
    <2> QED BY <1>1, <2>2
  <1>3. ReadHeader(got) =
           IF at = 0 THEN [result |-> "NoFrameMarker", offset |-> Len(got)]
           ELSE IF Len(rest) < HeaderSize - 1 THEN [result |-> "InsufficientLength", offset |-> at - 1]
           ELSE IF TypesOf(rest[1]) = {} THEN [result |-> "InvalidFrameType", offset |-> at - 1]
           ELSE [result |-> "Ok", offset |-> at - 1 + HeaderSize, header |-> HeaderOf(rest)]
    BY DEF ReadHeader, SelectInSeq, I
  <1> HIDE DEF at, rest
  <1>4. CASE at = 0
    BY <1>3, <1>4
  <1>5. CASE at # 0 /\ Len(rest) < HeaderSize - 1
    BY <1>1, <1>2, <1>3, <1>5 DEF HeaderSize
  <1>6. CASE at # 0 /\ ~(Len(rest) < HeaderSize - 1) /\ TypesOf(rest[1]) = {}
    BY <1>3, <1>6
  <1>7. CASE at # 0 /\ ~(Len(rest) < HeaderSize - 1) /\ TypesOf(rest[1]) # {}
    <2>1. HeaderOf(rest) \in Headers
      <3>1. Len(rest) >= 3
        BY <1>1, <1>2, <1>7 DEF HeaderSize
      <3> QED BY <1>2, <1>7, <3>1, HeaderOfType
    <2>2. ReadHeader(got) = [result |-> "Ok", offset |-> at - 1 + HeaderSize, header |-> HeaderOf(rest)]
      BY <1>3, <1>7
    <2> QED BY <2>1, <2>2
  <1> QED BY <1>4, <1>5, <1>6, <1>7
-----------------------------------------------------------------------------
(* The inductive invariant: in each state of the receiver, there is        *)
(* something left to read, and the header is one this state is for.        *)
GoodReceiver(r) ==
    /\ r \in [mode : {"Header", "Payload", "Discard"}, got : Seq(Symbol),
              header : Headers, discarded : Nat]
    /\ Len(r.got) <= BufferSize
    /\ r.mode = "Header"  => Len(r.got) < HeaderSize
    /\ r.mode = "Payload" => /\ r.header.length <= BufferSize - CrcSize
                             /\ Len(r.got) < r.header.length + CrcSize
    /\ r.mode = "Discard" => /\ r.header.length > BufferSize - CrcSize
                             /\ r.got = <<>>
                             /\ r.discarded < r.header.length + CrcSize

ReceiverInv == GoodReceiver(receiver) /\ line \in Seq(Symbol)

(* The header of no frame is one. *)
LEMMA NoHeaderType == NoHeader \in Headers
  BY DEF NoHeader, Headers, FrameType

(* A receiver that reads a header is good. *)
LEMMA HeaderState ==
  ASSUME NEW got \in Seq(Symbol), Len(got) < HeaderSize
  PROVE  GoodReceiver(Header(got))
  BY NoHeaderType, ReceiverAssumption DEF GoodReceiver, Header, HeaderSize

(* A receiver that reads a payload is good. *)
LEMMA PayloadState ==
  ASSUME NEW h \in Headers, NEW got \in Seq(Symbol),
         h.length <= BufferSize - CrcSize, Len(got) < h.length + CrcSize
  PROVE  GoodReceiver(Payload(h, got))
  <1>1. h.length \in Nat /\ Len(got) \in Nat
    BY DEF Headers
  <1>2. Len(got) <= BufferSize
    BY <1>1, ReceiverAssumption DEF CrcSize
  <1> QED BY <1>2 DEF GoodReceiver, Payload

(* A receiver that discards a frame is good. *)
LEMMA DiscardState ==
  ASSUME NEW h \in Headers, NEW n \in Nat,
         h.length > BufferSize - CrcSize, n < h.length + CrcSize
  PROVE  GoodReceiver(Discard(h, n))
  <1>1. <<>> \in Seq(Symbol) /\ Len(<<>>) <= BufferSize
    BY ReceiverAssumption DEF HeaderSize
  <1> QED BY <1>1 DEF GoodReceiver, Discard

(* A new receiver is good. *)
LEMMA NewReceiverState == GoodReceiver(NewReceiver)
  <1>1. <<>> \in Seq(Symbol) /\ Len(<<>>) < HeaderSize
    BY DEF HeaderSize
  <1> QED BY <1>1, HeaderState DEF NewReceiver

-----------------------------------------------------------------------------
(* One read. *)

(* A full header buffer leads to a good state. *)
LEMMA HeaderReadIsGood ==
  ASSUME NEW got \in Seq(Symbol), Len(got) = HeaderSize
  PROVE  GoodReceiver(HeaderRead(got))
  <1> DEFINE r == ReadHeader(got)
  <1>1. CASE r.result = "Ok"
    <2>1. r.header \in Headers
      BY <1>1, ReadHeaderResult
    <2>2. r.header.length \in Nat /\ 0 \in Nat /\ <<>> \in Seq(Symbol) /\ Len(<<>>) = 0
      BY <2>1 DEF Headers
    <2>3. CASE r.header.length > BufferSize - CrcSize
      <3>1. HeaderRead(got) = Discard(r.header, 0)
        BY <1>1, <2>3 DEF HeaderRead
      <3>2. 0 < r.header.length + CrcSize
        BY <2>2 DEF CrcSize
      <3> HIDE DEF r
      <3> QED BY <2>1, <2>2, <2>3, <3>1, <3>2, DiscardState
    <2>4. CASE ~(r.header.length > BufferSize - CrcSize)
      <3>1. HeaderRead(got) = Payload(r.header, <<>>)
        BY <1>1, <2>4 DEF HeaderRead
      <3>2. 0 < r.header.length + CrcSize /\ r.header.length <= BufferSize - CrcSize
        BY <2>2, <2>4, ReceiverAssumption DEF CrcSize
      <3> HIDE DEF r
      <3> QED BY <2>1, <2>2, <3>1, <3>2, PayloadState
    <2> QED BY <2>3, <2>4
  <1>2. CASE r.result = "InsufficientLength"
    <2>1. r.offset \in 1 .. 3
      BY <1>2, ReadHeaderResult
    <2> DEFINE rest == SubSeq(got, r.offset + 1, Len(got))
    <2>2. HeaderRead(got) = Header(rest)
      BY <1>2 DEF HeaderRead
    <2>3. \A i \in r.offset + 1 .. Len(got) : got[i] \in Symbol
      <3> TAKE i \in r.offset + 1 .. Len(got)
      <3>1. i \in 1 .. Len(got)
        BY <2>1 DEF HeaderSize
      <3> QED BY <3>1, ElementOfSeq
    <2>4. r.offset + 1 \in Int /\ Len(got) \in Int
      BY <2>1
    <2>5. rest \in Seq(Symbol) /\ Len(rest) = IF r.offset + 1 <= Len(got) THEN Len(got) - (r.offset + 1) + 1 ELSE 0
      BY <2>3, <2>4, SubSeqProperties
    <2>6. Len(rest) < HeaderSize
      BY <2>1, <2>5 DEF HeaderSize
    <2> HIDE DEF rest
    <2> QED BY <2>2, <2>5, <2>6, HeaderState
  <1>3. CASE r.result # "Ok" /\ r.result # "InsufficientLength"
    <2>1. HeaderRead(got) = NewReceiver
      BY <1>3 DEF HeaderRead, NewReceiver
    <2> QED BY <2>1, NewReceiverState
  <1> QED BY <1>1, <1>2, <1>3

(* What a good receiver asks for is there to be read and fits.             *)
LEMMA WantedFits ==
  ASSUME NEW r, GoodReceiver(r)
  PROVE  Wanted(r) \in Nat /\ Wanted(r) > 0 /\ Offset(r) + Wanted(r) <= BufferSize
  <1> USE ReceiverAssumption DEF HeaderSize, CrcSize
  <1>1. r.mode \in {"Header", "Payload", "Discard"} /\ Len(r.got) \in Nat
    BY DEF GoodReceiver
  <1>2. r.header.length \in Nat /\ r.discarded \in Nat
    BY DEF GoodReceiver, Headers
  <1>3. CASE r.mode = "Header"
    BY <1>1, <1>3 DEF GoodReceiver, Wanted, Offset
  <1>4. CASE r.mode = "Payload"
    BY <1>1, <1>2, <1>4 DEF GoodReceiver, Wanted, Offset
  <1>5. CASE r.mode = "Discard"
    <2>1. r.header.length + CrcSize - r.discarded \in Nat \ {0}
      BY <1>2, <1>5 DEF GoodReceiver
    <2>2. Wanted(r) = IF r.header.length + CrcSize - r.discarded <= BufferSize
                      THEN r.header.length + CrcSize - r.discarded ELSE BufferSize
      <3> DEFINE left == r.header.length + CrcSize - r.discarded
      <3>1. Wanted(r) = Min({left, BufferSize})
        BY <1>5 DEF Wanted
      <3>2. left \in Nat
        BY <2>1
      <3> HIDE DEF left
      <3>3. Min({left, BufferSize}) = IF left <= BufferSize THEN left ELSE BufferSize
        BY <3>2, MinOfTwo
      <3> QED BY <3>1, <3>3 DEF left
    <2> QED BY <1>5, <2>1, <2>2 DEF Offset
  <1> QED BY <1>1, <1>3, <1>4, <1>5

(* A read leaves the receiver good: when it is not complete, something is  *)
(* missing still.  A discarding receiver counts only its last read, which  *)
(* never is all of a frame that exceeds the buffer: it does not leave.     *)
LEMMA ReceivedIsGood ==
  ASSUME NEW r, GoodReceiver(r), NEW chunk \in Seq(Symbol),
         Len(chunk) \in 1 .. Wanted(r)
  PROVE  GoodReceiver(Received(r, chunk).receiver)
  <1> DEFINE got   == r.got \o chunk
             total == Offset(r) + Len(chunk)
  <1>1. r.mode \in {"Header", "Payload", "Discard"} /\ r.got \in Seq(Symbol) /\ r.header \in Headers
    BY DEF GoodReceiver
  <1>2. got \in Seq(Symbol) /\ Len(got) = Len(r.got) + Len(chunk)
    BY <1>1, ConcatProperties
  <1>3. r.header.length \in Nat /\ Len(r.got) \in Nat /\ Len(chunk) \in Nat
    BY <1>1 DEF Headers
  <1>4. Offset(r) + Wanted(r) <= BufferSize /\ Wanted(r) \in Nat
    BY WantedFits
  <1>5. CASE r.mode = "Header"
    <2>1. Received(r, chunk).receiver = IF total = HeaderSize THEN HeaderRead(got) ELSE Header(got)
      BY <1>5 DEF Received, None
    <2>2. total = Len(got) /\ Len(got) <= HeaderSize
      BY <1>2, <1>3, <1>5 DEF Offset, Wanted, HeaderSize
    <2> HIDE DEF got, total
    <2>3. CASE total = HeaderSize
      BY <1>2, <2>1, <2>2, <2>3, HeaderReadIsGood
    <2>4. CASE total # HeaderSize
      <3>1. Len(got) < HeaderSize
        BY <1>2, <2>2, <2>4 DEF HeaderSize
      <3> QED BY <1>2, <2>1, <2>4, <3>1, HeaderState
    <2> QED BY <2>3, <2>4
  <1>6. CASE r.mode = "Payload"
    <2>1. Received(r, chunk).receiver =
             IF total = r.header.length + CrcSize THEN NewReceiver ELSE Payload(r.header, got)
      BY <1>6 DEF Received, None
    <2>2. total = Len(got) /\ Len(got) <= r.header.length + CrcSize
      BY <1>2, <1>3, <1>6 DEF Offset, Wanted, CrcSize
    <2>3. r.header.length <= BufferSize - CrcSize
      BY <1>6 DEF GoodReceiver
    <2> HIDE DEF got, total
    <2>4. CASE total = r.header.length + CrcSize
      BY <2>1, <2>4, NewReceiverState
    <2>5. CASE total # r.header.length + CrcSize
      <3> DEFINE wanted == r.header.length + CrcSize
      <3>0. wanted \in Nat /\ Len(got) \in Nat
        BY <1>2, <1>3 DEF CrcSize
      <3> HIDE DEF wanted
      <3>1. Len(got) < wanted
        BY <2>2, <2>5, <3>0 DEF wanted
      <3> USE DEF wanted
      <3> QED BY <1>1, <1>2, <2>1, <2>3, <2>5, <3>1, PayloadState
    <2> QED BY <2>4, <2>5
  <1>7. CASE r.mode = "Discard"
    <2>1. Received(r, chunk).receiver =
             IF total = r.header.length + CrcSize THEN NewReceiver ELSE Discard(r.header, total)
      BY <1>7 DEF Received, None
    <2>2. r.header.length > BufferSize - CrcSize
      BY <1>7 DEF GoodReceiver
    <2>3. total \in Nat /\ total < r.header.length + CrcSize
      BY <1>3, <1>4, <1>7, <2>2, ReceiverAssumption DEF Offset, CrcSize
    <2> HIDE DEF total
    <2>4. total # r.header.length + CrcSize
      BY <1>3, <2>3 DEF CrcSize
    <2> QED BY <1>1, <2>1, <2>2, <2>3, <2>4, DiscardState
  <1> QED BY <1>1, <1>5, <1>6, <1>7

-----------------------------------------------------------------------------
(* The invariant. *)

(* The invariant gives the properties. *)
LEMMA InvImplies == ReceiverInv => TypeOK /\ ReadFits
  BY WantedFits DEF ReceiverInv, GoodReceiver, TypeOK, ReadFits

(* A new receiver and any line: the invariant holds. *)
LEMMA InitInv == receiver = NewReceiver /\ line \in Lines => ReceiverInv
  BY NewReceiverState, ReceiverAssumption DEF ReceiverInv

(* A read keeps the invariant. *)
LEMMA ReceiveInv ==
  ASSUME ReceiverInv, NEW n, Receive(n)
  PROVE  ReceiverInv'
  <1> DEFINE chunk == SubSeq(line, 1, n)
             rest  == SubSeq(line, n + 1, Len(line))
  <1>1. GoodReceiver(receiver) /\ line \in Seq(Symbol)
    BY DEF ReceiverInv
  <1>2. n \in 1 .. Wanted(receiver) /\ n <= Len(line)
    BY DEF Receive
  <1>3. n \in 1 .. Len(line)
    BY <1>1, <1>2, WantedFits
  <1>4. chunk \in Seq(Symbol) /\ Len(chunk) = n
    <2>1. \A i \in 1 .. n : line[i] \in Symbol
      BY <1>1, <1>3, ElementOfSeq
    <2>2. 1 \in Int /\ n \in Int /\ 1 <= n
      BY <1>3
    <2>3. Len(chunk) = n - 1 + 1 /\ chunk \in Seq(Symbol)
      BY <2>1, <2>2, SubSeqProperties
    <2> QED BY <2>2, <2>3
  <1>5. rest \in Seq(Symbol)
    <2>1. \A i \in n + 1 .. Len(line) : line[i] \in Symbol
      <3> TAKE i \in n + 1 .. Len(line)
      <3>1. i \in 1 .. Len(line)
        BY <1>1, <1>3
      <3> QED BY <1>1, <3>1, ElementOfSeq
    <2>2. n + 1 \in Int /\ Len(line) \in Int
      BY <1>1, <1>3
    <2> QED BY <2>1, <2>2, SubSeqProperties
  <1>6. receiver' = Received(receiver, chunk).receiver /\ line' = rest
    BY DEF Receive
  <1> HIDE DEF chunk, rest
  <1>7. Len(chunk) \in 1 .. Wanted(receiver)
    BY <1>2, <1>4
  <1>8. GoodReceiver(Received(receiver, chunk).receiver)
    BY <1>1, <1>4, <1>7, ReceivedIsGood
  <1>9. GoodReceiver(receiver')
    BY <1>6, <1>8
  <1> QED BY <1>5, <1>6, <1>9 DEF ReceiverInv, GoodReceiver

(* Whatever leaves receiver and line alone keeps it. *)
LEMMA StutterInv == ReceiverInv /\ UNCHANGED <<receiver, line>> => ReceiverInv'
  BY DEF ReceiverInv, GoodReceiver

(***************************************************************************)
(* Whatever is on the line and however it is cut, the receiver is in one   *)
(* of its states and never reads past its buffer, nor asks for nothing.    *)
(***************************************************************************)
THEOREM ReceiverCorrect == Spec => [](TypeOK /\ ReadFits)
  <1>1. Init => ReceiverInv
    BY InitInv DEF Init
  <1>2. ReceiverInv /\ [Next]_vars => ReceiverInv'
    BY ReceiveInv, StutterInv DEF Next, vars
  <1> QED BY <1>1, <1>2, InvImplies, PTL DEF Spec

(***************************************************************************)
(* The same in the server, whose steps read from the line or leave the     *)
(* receiver alone.                                                         *)
(***************************************************************************)
THEOREM ServerReceiverCorrect == ServerSpec => [](TypeOK /\ ReadFits)
  <1>1. ServerInit => ReceiverInv
    BY InitInv DEF ServerInit
  <1>2. ReceiverInv /\ [Process]_serverVars => ReceiverInv'
    <2> SUFFICES ASSUME ReceiverInv, [Process]_serverVars PROVE ReceiverInv'
      OBVIOUS
    <2>1. CASE \E k \in 1 .. Len(pending) - 1 : WritePending(k)
      BY <2>1, StutterInv DEF WritePending
    <2>2. CASE Idle
      BY <2>2, StutterInv DEF Idle
    <2>3. CASE \E n \in 1 .. BufferSize : ReadSome(n)
      <3> PICK n \in 1 .. BufferSize : ReadSome(n)
        BY <2>3
      <3>1. Receive(n)
        BY DEF ReadSome
      <3> QED BY <3>1, ReceiveInv
    <2>4. CASE UNCHANGED serverVars
      BY <2>4, StutterInv DEF serverVars
    <2> QED BY <2>1, <2>2, <2>3, <2>4 DEF Process
  <1> QED BY <1>1, <1>2, InvImplies, PTL DEF ServerSpec

-----------------------------------------------------------------------------
(* A sequence of sequences, flattened.                                     *)

(* Induction over the natural numbers, for a set of them.                  *)
LEMMA NaturalsFromZero ==
  ASSUME NEW T, 0 \in T, \A n \in Nat : n \in T => n + 1 \in T
  PROVE  Nat \subseteq T
  <1> DEFINE M == Nat \ T
             R == {s \in Nat \X Nat : s[1] < s[2]}
  <1>1. IsWellFoundedOn(R, Nat)
    BY NatLessThanWellFounded DEF OpToRel
  <1>2. \A x, y \in Nat : x < y => <<x, y>> \in R
    OBVIOUS
  <1> HIDE DEF R
  <1> SUFFICES ASSUME M # {} PROVE FALSE
    OBVIOUS
  <1>3. M \subseteq Nat
    OBVIOUS
  <1> HIDE DEF M
  <1>4. PICK x \in M : \A y \in M : ~(<<y, x>> \in R)
    BY <1>1, <1>3, WFMin
  <1> USE DEF M
  <1>5. x \in Nat /\ x \notin T /\ x # 0
    OBVIOUS
  <1>6. x - 1 \in Nat /\ x - 1 < x /\ (x - 1) + 1 = x
    BY <1>5
  <1>7. x - 1 \notin T
    BY <1>5, <1>6
  <1>8. <<x - 1, x>> \in R
    BY <1>2, <1>5, <1>6
  <1> QED BY <1>4, <1>6, <1>7, <1>8

(* f[i] is the first i elements of ss one after the other, for i up to n.  *)
Flattens(f, ss, n) == f = [i \in 1 .. n |-> IF i = 1 THEN ss[i] ELSE f[i - 1] \o ss[i]]

(* There is one such function, *)
LEMMA FlattenExists == \A ss : \A n \in Nat : \E f : Flattens(f, ss, n)
  <1> SUFFICES ASSUME NEW ss PROVE \A n \in Nat : \E f : Flattens(f, ss, n)
    OBVIOUS
  <1> DEFINE T == {n \in Nat : \E f : Flattens(f, ss, n)}
  <1>1. 0 \in T
    <2>1. Flattens([i \in 1 .. 0 |-> ss[i]], ss, 0)
      BY DEF Flattens
    <2> QED BY <2>1
  <1>2. ASSUME NEW n \in Nat, n \in T PROVE n + 1 \in T
    <2>1. PICK f : Flattens(f, ss, n)
      BY <1>2
    <2> DEFINE g == [i \in 1 .. n + 1 |-> IF i = 1 THEN ss[i] ELSE f[i - 1] \o ss[i]]
    <2>2. \A i \in 1 .. n : f[i] = IF i = 1 THEN ss[i] ELSE f[i - 1] \o ss[i]
      BY <2>1 DEF Flattens
    <2>3. \A i \in 1 .. n + 1 : i # 1 => i - 1 \in 1 .. n /\ i - 1 \in 1 .. n + 1
      OBVIOUS
    <2>4. \A i \in 1 .. n : g[i] = f[i]
      <3>1. \A i \in 1 .. n : i \in 1 .. n + 1
        OBVIOUS
      <3> QED BY <2>2, <3>1
    <2>5. \A i \in 1 .. n + 1 : g[i] = IF i = 1 THEN ss[i] ELSE g[i - 1] \o ss[i]
      BY <2>3, <2>4
    <2>6. g = [i \in 1 .. n + 1 |-> g[i]]
      OBVIOUS
    <2> HIDE DEF g
    <2>7. g = [i \in 1 .. n + 1 |-> IF i = 1 THEN ss[i] ELSE g[i - 1] \o ss[i]]
      BY <2>5, <2>6
    <2>8. Flattens(g, ss, n + 1)
      BY <2>7 DEF Flattens
    <2> QED BY <2>8
  <1> HIDE DEF T
  <1>3. Nat \subseteq T
    BY <1>1, <1>2, NaturalsFromZero
  <1> QED BY <1>3 DEF T

(* and what it gives depends on those first elements only. *)
LEMMA FlattenUnique ==
  ASSUME NEW ss, NEW tt, NEW m \in Nat, NEW n \in Nat, m <= n,
         \A i \in 1 .. m : ss[i] = tt[i],
         NEW f, Flattens(f, ss, m), NEW g, Flattens(g, tt, n)
  PROVE  \A i \in 1 .. m : f[i] = g[i]
  <1> DEFINE T == {i \in Nat : i \in 1 .. m => f[i] = g[i]}
  <1>1. 0 \in T
    OBVIOUS
  <1>2. ASSUME NEW i \in Nat, i \in T PROVE i + 1 \in T
    <2> SUFFICES ASSUME i + 1 \in 1 .. m PROVE f[i + 1] = g[i + 1]
      OBVIOUS
    <2>1. i + 1 \in 1 .. n /\ (i + 1) - 1 = i /\ (i + 1 # 1 => i \in 1 .. m)
      OBVIOUS
    <2>2. f[i + 1] = IF i + 1 = 1 THEN ss[i + 1] ELSE f[(i + 1) - 1] \o ss[i + 1]
      BY DEF Flattens
    <2>3. g[i + 1] = IF i + 1 = 1 THEN tt[i + 1] ELSE g[(i + 1) - 1] \o tt[i + 1]
      BY <2>1 DEF Flattens
    <2> QED BY <1>2, <2>1, <2>2, <2>3
  <1> HIDE DEF T
  <1>3. Nat \subseteq T
    BY <1>1, <1>2, NaturalsFromZero
  <1> QED BY <1>3 DEF T

(* The last element of what is flattened comes last. *)
LEMMA FlattenAppended ==
  ASSUME NEW S, NEW ss \in Seq(S), NEW x \in S
  PROVE  FlattenSeq(Append(ss, x)) = IF ss = <<>> THEN x ELSE FlattenSeq(ss) \o x
  <1> DEFINE n == Len(ss)
             tt == Append(ss, x)
             Flat(s) == CHOOSE f : Flattens(f, s, Len(s))
  <1>1. n \in Nat /\ Len(tt) = n + 1 /\ tt[n + 1] = x /\ \A i \in 1 .. n : ss[i] = tt[i]
    OBVIOUS
  <1>2. \A s \in Seq(S) : Flattens(Flat(s), s, Len(s))
    <2> SUFFICES ASSUME NEW s \in Seq(S) PROVE Flattens(Flat(s), s, Len(s))
      OBVIOUS
    <2>1. Len(s) \in Nat
      OBVIOUS
    <2> QED BY <2>1, FlattenExists
  <1>3. \A s \in Seq(S) : Len(s) # 0 => FlattenSeq(s) = Flat(s)[Len(s)]
    BY DEF FlattenSeq, Flattens
  <1>4. tt \in Seq(S)
    OBVIOUS
  <1> HIDE DEF tt, Flat, n
  <1>5. Flattens(Flat(tt), tt, n + 1)
    BY <1>1, <1>2, <1>4
  <1>6. FlattenSeq(tt) = Flat(tt)[n + 1]
    BY <1>1, <1>3, <1>4
  <1>7. Flat(tt)[n + 1] = IF n + 1 = 1 THEN tt[n + 1] ELSE Flat(tt)[(n + 1) - 1] \o tt[n + 1]
    <2>1. n + 1 \in 1 .. n + 1
      BY <1>1
    <2> QED BY <1>5, <2>1 DEF Flattens
  <1>8. CASE ss = <<>>
    BY <1>1, <1>6, <1>7, <1>8 DEF n, tt
  <1>9. CASE ss # <<>>
    <2>1. n \in 1 .. n /\ n # 0 /\ n + 1 # 1 /\ (n + 1) - 1 = n /\ n <= n + 1 /\ n + 1 \in Nat
      BY <1>1, <1>9 DEF n
    <2>2. FlattenSeq(ss) = Flat(ss)[n] /\ Flattens(Flat(ss), ss, n)
      BY <1>2, <1>3, <2>1 DEF n
    <2>3. \A i \in 1 .. n : Flat(ss)[i] = Flat(tt)[i]
      BY <1>1, <1>5, <2>1, <2>2, FlattenUnique
    <2>4. FlattenSeq(tt) = FlattenSeq(ss) \o x
      BY <1>1, <1>6, <1>7, <2>1, <2>2, <2>3
    <2> QED BY <1>9, <2>4 DEF tt
  <1> QED BY <1>8, <1>9

-----------------------------------------------------------------------------
(* Responses.                                                              *)

IsSeq(s) == \E S : s \in Seq(S)

(* Sequences of anything put together are a sequence. *)
LEMMA ConcatIsSeq ==
  ASSUME NEW s, NEW t, IsSeq(s), IsSeq(t)
  PROVE  \E S : s \in Seq(S) /\ t \in Seq(S) /\ s \o t \in Seq(S)
  <1>1. PICK S : s \in Seq(S)
    BY DEF IsSeq
  <1>2. PICK T : t \in Seq(T)
    BY DEF IsSeq
  <1>3. s \in Seq(S \cup T) /\ t \in Seq(S \cup T)
    BY <1>1, <1>2
  <1> QED BY <1>3, ConcatProperties

(* The frame a read completes has the payload its header says. *)
LEMMA FrameReceived ==
  ASSUME NEW r, GoodReceiver(r), NEW chunk \in Seq(Symbol), Received(r, chunk).result = "Ok"
  PROVE  LET f == Received(r, chunk).frame
         IN  /\ f.payload \in Seq(Symbol) /\ Len(f.payload) = f.header.length
             /\ f.header = r.header /\ f.header \in Headers
  <1> DEFINE got   == r.got \o chunk
             total == Offset(r) + Len(chunk)
             read  == ReadFramePayload(r.header, got)
  <1>0. r.mode \in {"Header", "Payload", "Discard"} /\ r.got \in Seq(Symbol) /\ r.header \in Headers
    BY DEF GoodReceiver
  <1>1. \A q : None(q).result = "None"
    BY DEF None
  <1>2. r.mode = "Payload" /\ total = r.header.length + CrcSize
        /\ Received(r, chunk) = [receiver |-> NewReceiver, result |-> read.result, frame |-> read.frame]
    BY <1>0, <1>1 DEF Received
  <1>3. got \in Seq(Symbol)
    BY <1>0, ConcatProperties
  <1> HIDE DEF got
  <1> DEFINE h == r.header
             payload == SubSeq(got, 1, h.length)
  <1>4. read.result = "Ok"
    BY <1>2
  <1>5. h.length \in Nat /\ Len(got) \in Nat
    BY <1>0, <1>3 DEF Headers
  <1>6. Len(got) >= h.length + CrcSize /\ read.frame = [header |-> h, payload |-> payload]
    BY <1>4, <1>5 DEF ReadFramePayload, CrcSize
  <1>7. payload \in Seq(Symbol) /\ Len(payload) = h.length
    <2>1. \A i \in 1 .. h.length : i \in 1 .. Len(got)
      BY <1>3, <1>5, <1>6 DEF CrcSize
    <2>2. \A i \in 1 .. h.length : got[i] \in Symbol
      BY <1>3, <2>1, ElementOfSeq
    <2>3. 1 \in Int /\ h.length \in Int
      BY <1>5
    <2>4. payload \in Seq(Symbol)
          /\ Len(payload) = IF 1 <= h.length THEN h.length - 1 + 1 ELSE 0
      BY <2>2, <2>3, SubSeqProperties
    <2> QED BY <1>5, <2>4
  <1> HIDE DEF payload
  <1> QED BY <1>0, <1>2, <1>6, <1>7

(* A frame with a sequence for its payload is encoded as a sequence. *)
LEMMA EncodeIsSeq ==
  ASSUME NEW type, NEW response, NEW number, NEW payload, IsSeq(payload)
  PROVE  IsSeq(Encode(Frame(type, response, number, payload)))
  <1> DEFINE f == Frame(type, response, number, payload)
  <1>1. PICK S : payload \in Seq(S)
    BY DEF IsSeq
  <1>2. f.payload = payload /\ f.header.length = Len(payload)
    BY DEF Frame
  <1>3. SubSeq(f.payload, 1, f.header.length) = payload
    BY <1>1, <1>2, SubSeqFull
  <1> DEFINE bytes == HeaderBytes(f.header)
             check == <<Crc(f.header, payload)>>
  <1>4. Encode(f) = bytes \o payload \o check
    BY <1>3 DEF Encode
  <1>5. IsSeq(bytes)
    <2>1. \A a, b, c, d : <<a, b, c, d>> \in Seq({a, b, c, d})
      OBVIOUS
    <2> QED BY <2>1 DEF IsSeq, HeaderBytes
  <1>6. IsSeq(check)
    <2>1. \A a : <<a>> \in Seq({a})
      OBVIOUS
    <2> QED BY <2>1 DEF IsSeq
  <1>7. IsSeq(payload)
    BY <1>1 DEF IsSeq
  <1> HIDE DEF bytes, check, f
  <1>8. IsSeq(bytes \o payload)
    BY <1>5, <1>7, ConcatIsSeq DEF IsSeq
  <1>9. IsSeq(bytes \o payload \o check)
    BY <1>6, <1>8, ConcatIsSeq DEF IsSeq
  <1> QED BY <1>4, <1>9 DEF f

(* Every response is encoded as a sequence. *)
LEMMA ResponseIsSeq ==
  ASSUME NEW f, f.header \in Headers, f.payload \in Seq(Symbol), Len(f.payload) = f.header.length,
         LengthOk(f)
  PROVE  IsSeq(Encode(ResponseTo(f)))
  <1> DEFINE n == f.header.number
  <1>0. f.header.type \in {"QueryVersion", "ReadMemory", "WriteMemory", "Run"}
    BY DEF Headers, FrameType
  <1>1. IsSeq(<<>>) /\ \A a, b : IsSeq(<<a>>) /\ IsSeq(<<a, b>>)
    <2>1. <<>> \in Seq({}) /\ \A a, b : <<a>> \in Seq({a}) /\ <<a, b>> \in Seq({a, b})
      OBVIOUS
    <2> QED BY <2>1 DEF IsSeq
  <1>2. \A number, code : IsSeq(Encode(ErrorResponse(number, code)))
    BY <1>1, EncodeIsSeq DEF ErrorResponse
  <1>3. CASE f.header.response
    BY <1>2, <1>3 DEF ResponseTo
  <1>4. CASE ~f.header.response /\ f.header.type = "QueryVersion"
    <2>1. ResponseTo(f) = Frame("QueryVersion", TRUE, n, <<Version, MaxPayload>>)
      BY <1>4 DEF ResponseTo
    <2> QED BY <1>1, <2>1, EncodeIsSeq
  <1>5. CASE ~f.header.response /\ f.header.type = "ReadMemory"
    <2>1. ResponseTo(f) = ReadMemory(n, f.payload[1], f.payload[2])
      BY <1>5 DEF ResponseTo
    <2>2. Len(f.payload) = 2
      BY <1>5 DEF LengthOk
    <2>3. f.payload[2] \in Nat
      BY <2>2, ElementOfSeq DEF Symbol
    <2> DEFINE data == [i \in 1 .. f.payload[2] |-> mem[f.payload[1] + i - 1]]
    <2>4. \E S : data \in [1 .. f.payload[2] -> S]
      <3> DEFINE S == {data[i] : i \in 1 .. f.payload[2]}
      <3>1. data \in [1 .. f.payload[2] -> S]
        OBVIOUS
      <3> QED BY <3>1
    <2> HIDE DEF data
    <2>5. \E S : data \in Seq(S)
      BY <2>3, <2>4, SeqDef
    <2>6. IsSeq(data)
      BY <2>5 DEF IsSeq
    <2> USE DEF data
    <2> QED BY <1>2, <2>1, <2>6, EncodeIsSeq DEF ReadMemory
  <1>6. CASE ~f.header.response /\ f.header.type = "WriteMemory"
    <2>1. ResponseTo(f) = WriteMemory(n, f.payload[1], Tail(f.payload))
      BY <1>6 DEF ResponseTo
    <2> QED BY <1>1, <1>2, <2>1, EncodeIsSeq DEF WriteMemory
  <1>7. CASE ~f.header.response /\ f.header.type = "Run"
    <2>1. ResponseTo(f) = Frame("Run", TRUE, n, <<>>)
      BY <1>7 DEF ResponseTo
    <2> QED BY <1>1, <2>1, EncodeIsSeq
  <1> QED BY <1>0, <1>3, <1>4, <1>5, <1>6, <1>7

(***************************************************************************)
(* The line and what is pending are sequences, and so is what was          *)
(* answered: all that []AnswersWhole needs besides itself.                 *)
(***************************************************************************)
AreSequences == IsSeq(down) /\ IsSeq(pending) /\ IsSeq(answered)
AnswersInv == ReceiverInv /\ AreSequences /\ AnswersWhole

(* Writing some or all of what is pending moves it from here to there. *)
LEMMA WrittenOn ==
  ASSUME IsSeq(down), IsSeq(pending), NEW k \in Nat, k <= Len(pending)
  PROVE  LET s == SubSeq(pending, 1, k)
             t == SubSeq(pending, k + 1, Len(pending))
         IN  IsSeq(down \o s) /\ IsSeq(t) /\ (down \o s) \o t = down \o pending
  <1> DEFINE s == SubSeq(pending, 1, k)
             t == SubSeq(pending, k + 1, Len(pending))
  <1>1. PICK S : down \in Seq(S) /\ pending \in Seq(S)
    BY ConcatIsSeq
  <1>2. Len(pending) \in Nat /\ \A i \in 1 .. Len(pending) : pending[i] \in S
    BY <1>1, ElementOfSeq
  <1>3. s \in Seq(S)
    <2>1. 1 \in Int /\ k \in Int /\ \A i \in 1 .. k : pending[i] \in S
      BY <1>2
    <2> QED BY <2>1, SubSeqProperties
  <1>4. t \in Seq(S)
    <2>1. k + 1 \in Int /\ Len(pending) \in Int /\ \A i \in k + 1 .. Len(pending) : pending[i] \in S
      BY <1>2
    <2> QED BY <2>1, SubSeqProperties
  <1>5. s \o t = pending
    <2>1. SubSeq(pending, 1, Len(pending)) = pending
      BY <1>1, SubSeqFull
    <2>2. 1 \in 1 .. Len(pending) + 1 /\ k \in 1 - 1 .. Len(pending) /\ Len(pending) \in k .. Len(pending)
      BY <1>2
    <2> QED BY <1>1, <2>1, <2>2, ConcatAdjacentSubSeq
  <1> HIDE DEF s, t
  <1>6. (down \o s) \o t = down \o (s \o t) /\ down \o s \in Seq(S)
    <2>1. (down \o s) \o t = down \o (s \o t)
      <3> DEFINE d == down
      <3>1. d \in Seq(S)
        BY <1>1
      <3> HIDE DEF d
      <3>2. (d \o s) \o t = d \o (s \o t)
        BY <1>3, <1>4, <3>1, ConcatAssociative, SMTT(30)
      <3> QED BY <3>2 DEF d
    <2>2. down \o s \in Seq(S)
      BY <1>1, <1>3, ConcatProperties
    <2> QED BY <2>1, <2>2
  <1> QED BY <1>4, <1>5, <1>6 DEF s, t, IsSeq

(* Before the first request nothing is written. *)
LEMMA InitAnswers == ServerInit => AnswersInv
  <1> SUFFICES ASSUME ServerInit PROVE AnswersInv
    OBVIOUS
  <1>1. IsSeq(<<>>)
    <2>1. <<>> \in Seq({})
      OBVIOUS
    <2> QED BY <2>1 DEF IsSeq
  <1>2. down = <<>> /\ pending = <<>> /\ answered = <<>> /\ ReceiverInv
    BY InitInv DEF ServerInit
  <1>3. FlattenSeq([i \in DOMAIN answered |-> Encode(answered[i])]) = <<>>
    BY <1>2 DEF FlattenSeq
  <1> QED BY <1>1, <1>2, <1>3 DEF AnswersInv, AreSequences, AnswersWhole

(* A step that answers nothing only writes. *)
LEMMA WriteKeepsAnswers ==
  ASSUME AnswersInv, ReceiverInv', answered' = answered, NEW k \in Nat, k <= Len(pending),
         down' = down \o SubSeq(pending, 1, k), pending' = SubSeq(pending, k + 1, Len(pending))
  PROVE  AnswersInv'
  BY WrittenOn DEF AnswersInv, AreSequences, AnswersWhole

(* And so does one that writes all. *)
LEMMA FlushKeepsAnswers ==
  ASSUME AnswersInv, ReceiverInv', answered' = answered, Flush(<<>>)
  PROVE  AnswersInv'
  <1>1. PICK S : pending \in Seq(S)
    BY DEF AnswersInv, AreSequences, IsSeq
  <1> DEFINE k == Len(pending)
  <1>2. k \in Nat /\ k <= Len(pending)
    BY <1>1
  <1>3. SubSeq(pending, 1, k) = pending /\ SubSeq(pending, k + 1, Len(pending)) = <<>>
    BY <1>1, <1>2, SubSeqFull, SubSeqEmpty
  <1>4. down' = down \o SubSeq(pending, 1, k) /\ pending' = SubSeq(pending, k + 1, Len(pending))
    BY <1>3 DEF Flush
  <1> HIDE DEF k
  <1> QED BY <1>2, <1>4, WriteKeepsAnswers

(* A response joins the others behind what is written and pending. *)
LEMMA RespondKeepsAnswers ==
  ASSUME AnswersInv, ReceiverInv', NEW response, IsSeq(Encode(response)),
         Flush(Encode(response)), answered' = Append(answered, response)
  PROVE  AnswersInv'
  <1> DEFINE new == Encode(response)
             frames == [i \in DOMAIN answered |-> Encode(answered[i])]
             frames1 == [i \in DOMAIN answered' |-> Encode(answered'[i])]
  <1>1. PICK A : answered \in Seq(A)
    BY DEF AnswersInv, AreSequences, IsSeq
  <1>2. IsSeq(answered')
    <2>1. answered \in Seq(A \cup {response})
      BY <1>1
    <2>2. Append(answered, response) \in Seq(A \cup {response})
      BY <2>1
    <2> QED BY <2>2 DEF IsSeq
  <1>3. PICK S : down \in Seq(S) /\ pending \in Seq(S) /\ down \o pending \in Seq(S)
    BY ConcatIsSeq DEF AnswersInv, AreSequences
  <1>4. down' = down \o pending /\ pending' = new
    BY DEF Flush
  <1>5. IsSeq(down') /\ IsSeq(pending')
    BY <1>3, <1>4 DEF IsSeq
  <1>6. frames1 = Append(frames, new)
    <2>1. Len(answered) \in Nat /\ DOMAIN answered = 1 .. Len(answered)
          /\ DOMAIN answered' = 1 .. Len(answered) + 1
          /\ \A i \in 1 .. Len(answered) : answered'[i] = answered[i]
          /\ answered'[Len(answered) + 1] = response
      BY <1>1
    <2>2. frames = [i \in 1 .. Len(answered) |-> Encode(answered[i])]
      BY <2>1
    <2>3. frames1 = [i \in 1 .. Len(answered) + 1 |->
                        IF i = Len(answered) + 1 THEN new ELSE Encode(answered[i])]
      <3>1. \A i \in 1 .. Len(answered) + 1 : i = Len(answered) + 1 \/ i \in 1 .. Len(answered)
        BY <2>1
      <3>2. Len(answered) + 1 \notin 1 .. Len(answered)
        BY <2>1
      <3>3. \A i \in 1 .. Len(answered) + 1 :
               Encode(answered'[i]) = IF i = Len(answered) + 1 THEN new ELSE Encode(answered[i])
        BY <2>1, <3>1, <3>2
      <3> QED BY <2>1, <3>3
    <2>4. frames \in Seq(Range(frames)) /\ Len(frames) = Len(answered)
      BY <2>1, <2>2, SeqDef DEF Range
    <2> QED BY <2>1, <2>2, <2>3, <2>4
  <1>7. \E T : frames \in Seq(T) /\ new \in T
    <2>1. Len(answered) \in Nat /\ DOMAIN answered = 1 .. Len(answered)
      BY <1>1
    <2> DEFINE T == {Encode(answered[i]) : i \in DOMAIN answered} \cup {new}
    <2>2. frames \in [1 .. Len(answered) -> T]
      BY <2>1
    <2> HIDE DEF frames, T
    <2>3. frames \in Seq(T)
      BY <2>1, <2>2, SeqDef
    <2> QED BY <2>3 DEF T
  <1>8. FlattenSeq(frames1) = IF frames = <<>> THEN new ELSE FlattenSeq(frames) \o new
    BY <1>6, <1>7, FlattenAppended
  <1>9. down \o pending = FlattenSeq(frames)
    BY DEF AnswersInv, AnswersWhole
  <1>10. frames = <<>> => down \o pending = <<>>
    BY <1>9 DEF FlattenSeq
  <1>11. (<<>> \o new) = new
    BY DEF IsSeq
  <1>12. (down \o pending) \o new = FlattenSeq(frames1)
    BY <1>8, <1>9, <1>10, <1>11
  <1> QED BY <1>2, <1>4, <1>5, <1>12 DEF AnswersInv, AreSequences, AnswersWhole

(* Every step of the server keeps the invariant. *)
LEMMA ProcessKeepsAnswers == AnswersInv /\ [Process]_serverVars => AnswersInv'
  <1> SUFFICES ASSUME AnswersInv, [Process]_serverVars PROVE AnswersInv'
    OBVIOUS
  <1>0. ReceiverInv
    BY DEF AnswersInv
  <1>1. ASSUME NEW k \in 1 .. Len(pending) - 1, WritePending(k) PROVE AnswersInv'
    <2>1. PICK S : pending \in Seq(S)
      BY DEF AnswersInv, AreSequences, IsSeq
    <2>2. k \in Nat /\ k <= Len(pending)
      BY <2>1
    <2>3. ReceiverInv' /\ answered' = answered
          /\ down' = down \o SubSeq(pending, 1, k) /\ pending' = SubSeq(pending, k + 1, Len(pending))
      BY <1>0, <1>1, StutterInv DEF WritePending
    <2> QED BY <2>2, <2>3, WriteKeepsAnswers
  <1>2. CASE Idle
    BY <1>0, <1>2, StutterInv, FlushKeepsAnswers DEF Idle
  <1>3. ASSUME NEW n \in 1 .. BufferSize, ReadSome(n) PROVE AnswersInv'
    <2> DEFINE chunk == SubSeq(line, 1, n)
               r     == Received(receiver, chunk)
    <2>1. Receive(n) /\ ReceiverInv'
      BY <1>0, <1>3, ReceiveInv DEF ReadSome
    <2>2. ReadOn(r) \/ Respond(r) \/ Panic(r)
      BY <1>3 DEF ReadSome
    <2>3. chunk \in Seq(Symbol)
      <3>1. n \in Nat /\ n <= Len(line) /\ line \in Seq(Symbol)
        BY <1>0, <2>1, ReceiverAssumption DEF Receive, ReceiverInv
      <3>2. 1 \in Int /\ n \in Int /\ \A i \in 1 .. n : i \in 1 .. Len(line)
        BY <3>1
      <3>3. \A i \in 1 .. n : line[i] \in Symbol
        BY <3>1, <3>2, ElementOfSeq
      <3> QED BY <3>2, <3>3, SubSeqProperties
    <2> HIDE DEF chunk, r
    <2>4. CASE ReadOn(r) \/ Panic(r)
      BY <2>1, <2>4, FlushKeepsAnswers DEF ReadOn, Panic
    <2>5. CASE Respond(r)
      <3>1. r.result = "Ok" /\ LengthOk(r.frame)
        BY <2>5 DEF Respond, Accepted
      <3>2. /\ r.frame.payload \in Seq(Symbol) /\ Len(r.frame.payload) = r.frame.header.length
            /\ r.frame.header \in Headers
        BY <1>0, <2>3, <3>1, FrameReceived DEF r, ReceiverInv
      <3>3. IsSeq(Encode(ResponseTo(r.frame)))
        BY <3>1, <3>2, ResponseIsSeq
      <3>4. Flush(Encode(ResponseTo(r.frame))) /\ answered' = Append(answered, ResponseTo(r.frame))
        BY <2>5 DEF Respond
      <3> QED BY <2>1, <3>3, <3>4, RespondKeepsAnswers
    <2> QED BY <2>2, <2>4, <2>5
  <1>4. CASE UNCHANGED serverVars
    <2>1. ReceiverInv' /\ down' = down /\ pending' = pending /\ answered' = answered
      BY <1>0, <1>4, StutterInv DEF serverVars
    <2> QED BY <2>1 DEF AnswersInv, AreSequences, AnswersWhole
  <1> QED BY <1>1, <1>2, <1>3, <1>4 DEF Process

(***************************************************************************)
(* The server's responses go out whole, once and in order, however the     *)
(* writer and the reader cut them, for every buffer and memory size, every *)
(* checksum and whatever is on the line.                                   *)
(***************************************************************************)
THEOREM AnswersCorrect == ServerSpec => []AnswersWhole
  <1>1. ServerInit => AnswersInv
    BY InitAnswers
  <1>2. AnswersInv /\ [Process]_serverVars => AnswersInv'
    BY ProcessKeepsAnswers
  <1>3. AnswersInv => AnswersWhole
    BY DEF AnswersInv
  <1> QED BY <1>1, <1>2, <1>3, PTL DEF ServerSpec

-----------------------------------------------------------------------------
(* Parts of a sequence.                                                    *)

(* What is behind the first a elements, up to the b-th.                    *)
Part(s, a, b) == SubSeq(s, a + 1, b)

(* Its elements. *)
LEMMA PartElements ==
    ASSUME NEW S, NEW s \in Seq(S), NEW a \in 0 .. Len(s), NEW b \in a .. Len(s)
    PROVE  /\ Part(s, a, b) \in Seq(S) /\ Len(Part(s, a, b)) = b - a
           /\ \A i \in 1 .. b - a : Part(s, a, b)[i] = s[a + i]
  <1>1. a + 1 \in Int /\ b \in Int /\ \A i \in a + 1 .. b : s[i] \in S
    <2>1. \A i \in a + 1 .. b : i \in 1 .. Len(s)
      OBVIOUS
    <2> QED
      BY <2>1, ElementOfSeq
  <1>2. /\ SubSeq(s, a + 1, b) \in Seq(S)
        /\ Len(SubSeq(s, a + 1, b)) = IF a + 1 <= b THEN b - (a + 1) + 1 ELSE 0
        /\ \A i \in 1 .. b - (a + 1) + 1 : SubSeq(s, a + 1, b)[i] = s[(a + 1) + i - 1]
    BY <1>1, SubSeqProperties
  <1>3. b - (a + 1) + 1 = b - a /\ \A i \in 1 .. b - a : (a + 1) + i - 1 = a + i
    OBVIOUS
  <1>4. Len(Part(s, a, b)) = b - a
    BY <1>2 DEF Part
  <1>5. \A i \in 1 .. b - a : Part(s, a, b)[i] = s[a + i]
    BY <1>2, <1>3, Zenon DEF Part
  <1> QED
    BY <1>2, <1>4, <1>5 DEF Part

(* Adjacent parts are one. *)
LEMMA PartsJoin ==
    ASSUME NEW S, NEW s \in Seq(S),
           NEW a \in 0 .. Len(s), NEW b \in a .. Len(s), NEW c \in b .. Len(s)
    PROVE  Part(s, a, b) \o Part(s, b, c) = Part(s, a, c)
  <1>1. a + 1 \in 1 .. Len(s) + 1 /\ b \in (a + 1) - 1 .. Len(s) /\ c \in b .. Len(s)
    OBVIOUS
  <1> QED
    BY <1>1, ConcatAdjacentSubSeq DEF Part

(* A part read in two. *)
LEMMA PartSplits ==
    ASSUME NEW S, NEW s \in Seq(S),
           NEW a \in 0 .. Len(s), NEW c \in a .. Len(s), NEW m \in 0 .. c - a
    PROVE  /\ SubSeq(Part(s, a, c), 1, m) = Part(s, a, a + m)
           /\ SubSeq(Part(s, a, c), m + 1, Len(Part(s, a, c))) = Part(s, a + m, c)
  <1> DEFINE t == Part(s, a, c)
  <1>1. t \in Seq(S) /\ Len(t) = c - a /\ \A i \in 1 .. c - a : t[i] = s[a + i]
    BY PartElements
  <1>2. 0 + m \in 0 .. Len(s) /\ a + m \in a .. c /\ a + m \in a .. Len(s) /\ a + m \in 0 .. Len(s)
        /\ c \in a + m .. Len(s)
    OBVIOUS
  <1> HIDE DEF t
  <1>3. /\ Part(t, 0, m) \in Seq(S) /\ Len(Part(t, 0, m)) = m - 0
        /\ \A i \in 1 .. m - 0 : Part(t, 0, m)[i] = t[0 + i]
    <2>1. 0 \in 0 .. Len(t) /\ m \in 0 .. Len(t)
      BY <1>1
    <2> QED
      BY <1>1, <2>1, PartElements, ZenonT(60)
  <1>4. /\ Part(t, m, c - a) \in Seq(S) /\ Len(Part(t, m, c - a)) = (c - a) - m
        /\ \A i \in 1 .. (c - a) - m : Part(t, m, c - a)[i] = t[m + i]
    <2>1. m \in 0 .. Len(t) /\ c - a \in m .. Len(t)
      BY <1>1
    <2> QED
      BY <1>1, <2>1, PartElements, ZenonT(60)
  <1>5. /\ Part(s, a, a + m) \in Seq(S) /\ Len(Part(s, a, a + m)) = (a + m) - a
        /\ \A i \in 1 .. (a + m) - a : Part(s, a, a + m)[i] = s[a + i]
    BY <1>2, PartElements
  <1>6. /\ Part(s, a + m, c) \in Seq(S) /\ Len(Part(s, a + m, c)) = c - (a + m)
        /\ \A i \in 1 .. c - (a + m) : Part(s, a + m, c)[i] = s[(a + m) + i]
    BY <1>2, PartElements
  <1>7. Part(t, 0, m) = Part(s, a, a + m)
    <2>1. Len(Part(t, 0, m)) = m /\ Len(Part(s, a, a + m)) = m
      BY <1>3, <1>5
    <2>2. \A i \in 1 .. m : Part(t, 0, m)[i] = Part(s, a, a + m)[i]
      <3> TAKE i \in 1 .. m
      <3>1. Part(t, 0, m)[i] = t[i]
        BY <1>3
      <3>2. t[i] = s[a + i]
        BY <1>1
      <3>3. Part(s, a, a + m)[i] = s[a + i]
        BY <1>5
      <3> QED
        BY <3>1, <3>2, <3>3
    <2> HIDE DEF t
    <2> QED
      BY <1>3, <1>5, <2>1, <2>2, SeqEqual
  <1>8. Part(t, m, c - a) = Part(s, a + m, c)
    <2>1. Len(Part(t, m, c - a)) = c - a - m /\ Len(Part(s, a + m, c)) = c - a - m
      BY <1>4, <1>6
    <2>2. \A i \in 1 .. c - a - m : Part(t, m, c - a)[i] = Part(s, a + m, c)[i]
      <3> TAKE i \in 1 .. c - a - m
      <3>1. Part(t, m, c - a)[i] = t[m + i]
        BY <1>4
      <3>2. t[m + i] = s[a + (m + i)]
        BY <1>1
      <3>3. Part(s, a + m, c)[i] = s[(a + m) + i]
        BY <1>6
      <3>4. a + (m + i) = (a + m) + i
        OBVIOUS
      <3> QED
        BY <3>1, <3>2, <3>3, <3>4
    <2> QED
      BY <1>4, <1>6, <2>1, <2>2, SeqEqual
  <1>9. 0 + 1 = 1
    OBVIOUS
  <1> QED
    BY <1>1, <1>7, <1>8, <1>9 DEF Part, t

-----------------------------------------------------------------------------
(* A query on its way. *)

(* A query and the answer to it, symbol by symbol.                         *)
QueryHeader(n)  == [type |-> "QueryVersion", response |-> FALSE, number |-> n, length |-> 0]
AnswerHeader(n) == [type |-> "QueryVersion", response |-> TRUE, number |-> n, length |-> 2]
Query(n)  == <<Marker, 0, n, 0, Crc(QueryHeader(n), <<>>)>>
Answer(n) == <<Marker, Response, n, 2, Version, MaxPayload,
               Crc(AnswerHeader(n), <<Version, MaxPayload>>)>>

(* They are sequences. *)
LEMMA Frames ==
    ASSUME NEW n
    PROVE  \E S : Query(n) \in Seq(S) /\ Answer(n) \in Seq(S) /\ Len(Query(n)) = 5 /\ Len(Answer(n)) = 7
  <1> DEFINE S == {Marker, 0, 2, n, Response, Version, MaxPayload, Crc(QueryHeader(n), <<>>),
                   Crc(AnswerHeader(n), <<Version, MaxPayload>>)}
             q == Crc(QueryHeader(n), <<>>)
             a == Crc(AnswerHeader(n), <<Version, MaxPayload>>)
  <1>1. Marker \in S /\ 0 \in S /\ n \in S /\ Response \in S /\ 2 \in S /\ Version \in S
        /\ MaxPayload \in S /\ q \in S /\ a \in S
    OBVIOUS
  <1>2. Query(n) = <<Marker, 0, n, 0, q>> /\ Answer(n) = <<Marker, Response, n, 2, Version, MaxPayload, a>>
    BY DEF Query, Answer
  <1> HIDE DEF S, q, a
  <1>3. <<Marker, 0, n, 0, q>> \in Seq(S) /\ Len(<<Marker, 0, n, 0, q>>) = 5
    BY <1>1
  <1>4. /\ <<Marker, Response, n, 2, Version, MaxPayload, a>> \in Seq(S)
        /\ Len(<<Marker, Response, n, 2, Version, MaxPayload, a>>) = 7
    BY <1>1
  <1> QED
    BY <1>2, <1>3, <1>4

(* A header behind a marker at the beginning. *)
LEMMA MarkerFirst ==
    ASSUME NEW S, NEW bytes \in Seq(S), Len(bytes) >= HeaderSize, bytes[1] = Marker,
           TypesOf(bytes[2]) = {"QueryVersion"}
    PROVE  ReadHeader(bytes) =
              [result |-> "Ok", offset |-> HeaderSize,
               header |-> [type |-> "QueryVersion", response |-> bytes[2] >= Response,
                           number |-> bytes[3], length |-> bytes[4]]]
  <1> DEFINE I    == {i \in 1 .. Len(bytes) : bytes[i] = Marker}
             at   == IF I # {} THEN Min(I) ELSE 0
             rest == SubSeq(bytes, at + 1, Len(bytes))
  <1>1. 1 \in I /\ \A i \in I : i \in Nat /\ 1 <= i
    BY DEF HeaderSize
  <1> HIDE DEF I
  <1>2. at = 1
    <2>1. Min(I) = 1
      BY <1>1 DEF Min
    <2> QED
      BY <1>1, <2>1
  <1>3. ReadHeader(bytes) =
           IF at = 0 THEN [result |-> "NoFrameMarker", offset |-> Len(bytes)]
           ELSE IF Len(rest) < HeaderSize - 1 THEN [result |-> "InsufficientLength", offset |-> at - 1]
           ELSE IF TypesOf(rest[1]) = {} THEN [result |-> "InvalidFrameType", offset |-> at - 1]
           ELSE [result |-> "Ok", offset |-> at - 1 + HeaderSize, header |-> HeaderOf(rest)]
    BY DEF ReadHeader, SelectInSeq, I
  <1>4. rest = Part(bytes, 1, Len(bytes))
    BY <1>2 DEF Part
  <1>5. Len(bytes) \in Nat /\ 1 \in 0 .. Len(bytes) /\ Len(bytes) \in 1 .. Len(bytes) /\ Len(bytes) >= 4
    BY DEF HeaderSize
  <1>6. Len(rest) = Len(bytes) - 1 /\ \A i \in 1 .. Len(bytes) - 1 : rest[i] = bytes[1 + i]
    <2>1. /\ Len(Part(bytes, 1, Len(bytes))) = Len(bytes) - 1
          /\ \A i \in 1 .. Len(bytes) - 1 : Part(bytes, 1, Len(bytes))[i] = bytes[1 + i]
      BY <1>5, PartElements, ZenonT(60)
    <2> QED
      BY <1>4, <2>1
  <1> HIDE DEF at, rest
  <1>7. rest[1] = bytes[2] /\ rest[2] = bytes[3] /\ rest[3] = bytes[4]
    BY <1>5, <1>6
  <1>8. HeaderOf(rest) = [type |-> "QueryVersion", response |-> bytes[2] >= Response,
                          number |-> bytes[3], length |-> bytes[4]]
    <2>1. (CHOOSE t \in TypesOf(rest[1]) : TRUE) = "QueryVersion"
      BY <1>7
    <2> QED
      BY <1>7, <2>1 DEF HeaderOf
  <1>9. ~(Len(rest) < HeaderSize - 1) /\ TypesOf(rest[1]) # {} /\ at # 0 /\ at - 1 + HeaderSize = HeaderSize
    <2>1. TypesOf(rest[1]) # {}
      BY <1>7
    <2>2. ~(Len(rest) < HeaderSize - 1)
      BY <1>5, <1>6 DEF HeaderSize
    <2> QED
      BY <1>2, <2>1, <2>2 DEF HeaderSize
  <1> QED
    BY <1>3, <1>8, <1>9

(* The types of the two frames. *)
LEMMA QueryTypes == TypesOf(0) = {"QueryVersion"} /\ TypesOf(Response) = {"QueryVersion"}
  BY DEF TypesOf, FrameType, Response

(* Header, payload and checksum of an answer, one behind the other. *)
LEMMA FrameOfSeven ==
    ASSUME NEW b1, NEW b2, NEW b3, NEW b4, NEW p1, NEW p2, NEW crc
    PROVE  <<b1, b2, b3, b4>> \o <<p1, p2>> \o <<crc>> = <<b1, b2, b3, b4, p1, p2, crc>>
  <1> DEFINE S == {b1, b2, b3, b4, p1, p2, crc}
             h == <<b1, b2, b3, b4>>
             p == <<p1, p2>>
             c == <<crc>>
             f == <<b1, b2, b3, b4, p1, p2, crc>>
  <1>1. h \in Seq(S) /\ Len(h) = 4 /\ h[1] = b1 /\ h[2] = b2 /\ h[3] = b3 /\ h[4] = b4
    OBVIOUS
  <1>2. p \in Seq(S) /\ Len(p) = 2 /\ p[1] = p1 /\ p[2] = p2
    OBVIOUS
  <1>3. c \in Seq(S) /\ Len(c) = 1 /\ c[1] = crc
    OBVIOUS
  <1>4. /\ f \in Seq(S) /\ Len(f) = 7 /\ f[1] = b1 /\ f[2] = b2 /\ f[3] = b3 /\ f[4] = b4
        /\ f[5] = p1 /\ f[6] = p2 /\ f[7] = crc
    OBVIOUS
  <1> HIDE DEF S, h, p, c, f
  <1>5. /\ h \o p \in Seq(S) /\ Len(h \o p) = Len(h) + Len(p)
        /\ \A i \in 1 .. Len(h) + Len(p) :
              (h \o p)[i] = IF i <= Len(h) THEN h[i] ELSE p[i - Len(h)]
    BY <1>1, <1>2, ConcatProperties
  <1>6. (h \o p)[1] = b1 /\ (h \o p)[2] = b2 /\ (h \o p)[3] = b3 /\ (h \o p)[4] = b4
        /\ (h \o p)[5] = p1 /\ (h \o p)[6] = p2 /\ Len(h \o p) = 6
    BY <1>1, <1>2, <1>5
  <1> DEFINE u == h \o p
             g == u \o c
  <1>7. u \in Seq(S) /\ Len(u) = 6 /\ u[1] = b1 /\ u[2] = b2 /\ u[3] = b3 /\ u[4] = b4
        /\ u[5] = p1 /\ u[6] = p2
    BY <1>5, <1>6
  <1> HIDE DEF u
  <1>8. g[1] = b1 /\ g[2] = b2 /\ g[3] = b3 /\ g[4] = b4 /\ g[5] = p1 /\ g[6] = p2 /\ g[7] = crc
        /\ Len(g) = 7 /\ g \in Seq(S)
    <2>1. /\ u \o c \in Seq(S) /\ Len(u \o c) = Len(u) + Len(c)
          /\ \A i \in 1 .. Len(u) + Len(c) :
                (u \o c)[i] = IF i <= Len(u) THEN u[i] ELSE c[i - Len(u)]
      BY <1>3, <1>7, ConcatProperties
    <2> QED
      BY <1>3, <1>7, <2>1
  <1> HIDE DEF g
  <1>9. \A i \in 1 .. 7 : i = 1 \/ i = 2 \/ i = 3 \/ i = 4 \/ i = 5 \/ i = 6 \/ i = 7
    OBVIOUS
  <1>10. \A i \in 1 .. Len(g) : g[i] = f[i]
    BY <1>4, <1>8, <1>9
  <1>11. g = f
    BY <1>4, <1>8, <1>10, SeqEqual
  <1> QED
    BY <1>11 DEF f, g, u, h, p, c

(* And of a query, which has no payload. *)
LEMMA FrameOfFive ==
    ASSUME NEW b1, NEW b2, NEW b3, NEW b4, NEW crc
    PROVE  <<b1, b2, b3, b4>> \o <<>> \o <<crc>> = <<b1, b2, b3, b4, crc>>
  <1> DEFINE S == {b1, b2, b3, b4, crc}
             h == <<b1, b2, b3, b4>>
             c == <<crc>>
             f == <<b1, b2, b3, b4, crc>>
             g == h \o c
  <1>1. h \in Seq(S) /\ Len(h) = 4 /\ h[1] = b1 /\ h[2] = b2 /\ h[3] = b3 /\ h[4] = b4
    OBVIOUS
  <1>2. c \in Seq(S) /\ Len(c) = 1 /\ c[1] = crc
    OBVIOUS
  <1>3. /\ f \in Seq(S) /\ Len(f) = 5 /\ f[1] = b1 /\ f[2] = b2 /\ f[3] = b3 /\ f[4] = b4
        /\ f[5] = crc
    OBVIOUS
  <1> HIDE DEF S, h, c, f
  <1>4. h \o <<>> = h
    BY <1>1, ConcatEmptySeq
  <1>5. /\ g \in Seq(S) /\ Len(g) = Len(h) + Len(c)
        /\ \A i \in 1 .. Len(h) + Len(c) : g[i] = IF i <= Len(h) THEN h[i] ELSE c[i - Len(h)]
    BY <1>1, <1>2, ConcatProperties
  <1> HIDE DEF g
  <1>6. g[1] = b1 /\ g[2] = b2 /\ g[3] = b3 /\ g[4] = b4 /\ g[5] = crc /\ Len(g) = 5
    BY <1>1, <1>2, <1>5
  <1>7. \A i \in 1 .. 5 : i = 1 \/ i = 2 \/ i = 3 \/ i = 4 \/ i = 5
    OBVIOUS
  <1>8. \A i \in 1 .. Len(g) : g[i] = f[i]
    BY <1>3, <1>6, <1>7
  <1>9. g = f
    BY <1>3, <1>5, <1>6, <1>8, SeqEqual
  <1> QED
    BY <1>4, <1>9 DEF f, g, h, c

(* The part of the query that is read as its header. *)
LEMMA QueryRead ==
    ASSUME NEW n
    PROVE  HeaderRead(Part(Query(n), 0, 4)) = Payload(QueryHeader(n), <<>>)
  <1> DEFINE got == Part(Query(n), 0, 4)
  <1>1. PICK S : Query(n) \in Seq(S) /\ Len(Query(n)) = 5
    BY Frames
  <1>2. got \in Seq(S) /\ Len(got) = 4 /\ \A i \in 1 .. 4 : got[i] = Query(n)[i]
    <2>1. 0 \in 0 .. Len(Query(n)) /\ 4 \in 0 .. Len(Query(n))
      BY <1>1
    <2>2. /\ got \in Seq(S) /\ Len(got) = 4 - 0
          /\ \A i \in 1 .. 4 - 0 : got[i] = Query(n)[0 + i]
      BY <1>1, <2>1, PartElements
    <2> HIDE DEF got
    <2> QED
      BY <2>2
  <1>3. Query(n)[1] = Marker /\ Query(n)[2] = 0 /\ Query(n)[3] = n /\ Query(n)[4] = 0
    BY DEF Query
  <1> HIDE DEF got
  <1>4. got[1] = Marker /\ got[2] = 0 /\ got[3] = n /\ got[4] = 0
    BY <1>2, <1>3
  <1>5. ReadHeader(got) = [result |-> "Ok", offset |-> HeaderSize,
                           header |-> [type |-> "QueryVersion", response |-> got[2] >= Response,
                                       number |-> got[3], length |-> got[4]]]
    <2>1. Len(got) >= HeaderSize /\ TypesOf(got[2]) = {"QueryVersion"}
      BY <1>2, <1>4, QueryTypes DEF HeaderSize
    <2> QED
      BY <1>2, <1>4, <2>1, MarkerFirst
  <1>6. (0 >= Response) = FALSE
    BY DEF Response
  <1>7. ReadHeader(got).result = "Ok" /\ ReadHeader(got).header = QueryHeader(n)
    <2>1. ReadHeader(got) = [result |-> "Ok", offset |-> HeaderSize,
                             header |-> [type |-> "QueryVersion", response |-> 0 >= Response,
                                         number |-> n, length |-> 0]]
      BY <1>4, <1>5
    <2>2. ReadHeader(got) = [result |-> "Ok", offset |-> HeaderSize, header |-> QueryHeader(n)]
      BY <1>6, <2>1, Zenon DEF QueryHeader
    <2> QED
      BY <2>2
  <1>8. ~(QueryHeader(n).length > BufferSize - CrcSize)
    BY ReceiverAssumption DEF QueryHeader, CrcSize, HeaderSize
  <1> QED
    BY <1>7, <1>8 DEF HeaderRead, got

(* With its checksum it is a request that is answered. *)
LEMMA QueryAnswered ==
    ASSUME NEW n
    PROVE  LET r == Received(Payload(QueryHeader(n), <<>>), Part(Query(n), 4, 5))
           IN  /\ r.receiver = NewReceiver
               /\ Accepted(r) /\ ~Panics(r.frame)
               /\ Encode(ResponseTo(r.frame)) = Answer(n)
  <1> DEFINE h     == QueryHeader(n)
             crc   == Crc(h, <<>>)
             frame == [header |-> h, payload |-> <<>>]
             r     == Received(Payload(h, <<>>), <<crc>>)
  <1>1. Part(Query(n), 4, 5) = <<crc>>
    <2>1. PICK S : Query(n) \in Seq(S) /\ Len(Query(n)) = 5
      BY Frames
    <2>2. 4 \in 0 .. Len(Query(n)) /\ 5 \in 4 .. Len(Query(n))
      BY <2>1
    <2>3. /\ Part(Query(n), 4, 5) \in Seq(S) /\ Len(Part(Query(n), 4, 5)) = 5 - 4
          /\ \A i \in 1 .. 5 - 4 : Part(Query(n), 4, 5)[i] = Query(n)[4 + i]
      BY <2>1, <2>2, PartElements, ZenonT(60)
    <2>4. Len(Part(Query(n), 4, 5)) = 1 /\ Part(Query(n), 4, 5)[1] = Query(n)[5]
      BY <2>3
    <2>5. Query(n)[5] = crc
      BY DEF Query
    <2> HIDE DEF crc
    <2> QED
      BY <2>3, <2>4, <2>5
  <1>2. r = [receiver |-> NewReceiver, result |-> "Ok", frame |-> frame]
    <2>1. h.length = 0 /\ (<<>> \o <<crc>>) = <<crc>> /\ Len(<<crc>>) = 1 /\ <<crc>>[1] = crc
      BY DEF QueryHeader
    <2>2. SubSeq(<<crc>>, 1, 0) = <<>>
      BY SubSeqEmpty
    <2>3. ReadFramePayload(h, <<crc>>) = [result |-> "Ok", frame |-> frame]
      <3> DEFINE c == <<crc>>
      <3>1. SubSeq(c, 1, h.length) = <<>> /\ ~(Len(c) < h.length + CrcSize) /\ c[h.length + 1] = crc
        BY <2>1, <2>2 DEF CrcSize
      <3>2. ReadFramePayload(h, c) =
               IF Len(c) < h.length + CrcSize THEN [result |-> "InsufficientLength", frame |-> NoFrame]
               ELSE IF c[h.length + 1] # Crc(h, SubSeq(c, 1, h.length))
                    THEN [result |-> "CrcMismatch", frame |-> NoFrame]
               ELSE [result |-> "Ok", frame |-> [header |-> h, payload |-> SubSeq(c, 1, h.length)]]
        BY DEF ReadFramePayload
      <3> HIDE DEF h, c
      <3>3. crc = Crc(h, SubSeq(c, 1, h.length))
        BY <3>1, Zenon
      <3> HIDE DEF crc
      <3>4. ReadFramePayload(h, c) = [result |-> "Ok", frame |-> [header |-> h, payload |-> SubSeq(c, 1, h.length)]]
        BY <3>1, <3>2, <3>3, Zenon
      <3> QED
        BY <3>1, <3>4, Zenon DEF c
    <2> HIDE DEF crc, h, frame
    <2>4. Received(Payload(h, <<>>), <<crc>>) =
             IF 0 + 1 = h.length + CrcSize
             THEN [receiver |-> NewReceiver, result |-> ReadFramePayload(h, <<crc>>).result,
                   frame |-> ReadFramePayload(h, <<crc>>).frame]
             ELSE None(Payload(h, <<crc>>))
      BY <2>1 DEF Received, Payload, Offset
    <2> QED
      BY <2>1, <2>3, <2>4 DEF CrcSize
  <1>3. frame.header = h /\ h.type = "QueryVersion" /\ h.response = FALSE /\ h.number = n /\ h.length = 0
    BY DEF QueryHeader
  <1>4. Accepted(r)
    <2> HIDE DEF frame, h, r
    <2>1. r.result = "Ok" /\ r.frame = frame
      BY <1>2
    <2>2. LengthOk(frame)
      BY <1>3 DEF LengthOk
    <2> QED
      BY <2>1, <2>2 DEF Accepted
  <1>5. ~Panics(frame)
    BY <1>3 DEF Panics
  <1>6. ResponseTo(frame) = [header |-> AnswerHeader(n), payload |-> <<Version, MaxPayload>>]
    BY <1>3 DEF ResponseTo, Frame, AnswerHeader
  <1>7. Encode(ResponseTo(frame)) = Answer(n)
    <2> DEFINE a == Crc(AnswerHeader(n), <<Version, MaxPayload>>)
    <2>1. AnswerHeader(n).length = 2 /\ SubSeq(<<Version, MaxPayload>>, 1, 2) = <<Version, MaxPayload>>
      <3>1. <<Version, MaxPayload>> \in Seq({Version, MaxPayload}) /\ Len(<<Version, MaxPayload>>) = 2
        OBVIOUS
      <3>2. SubSeq(<<Version, MaxPayload>>, 1, Len(<<Version, MaxPayload>>)) = <<Version, MaxPayload>>
        BY <3>1, SubSeqFull, Zenon
      <3> QED
        BY <3>1, <3>2 DEF AnswerHeader
    <2>2. HeaderBytes(AnswerHeader(n)) = <<Marker, Response, n, 2>>
      BY DEF HeaderBytes, AnswerHeader, FrameType, Response
    <2>3. Encode(ResponseTo(frame)) = <<Marker, Response, n, 2>> \o <<Version, MaxPayload>> \o <<a>>
      <3> DEFINE f == ResponseTo(frame)
      <3>1. f.header = AnswerHeader(n) /\ f.payload = <<Version, MaxPayload>>
        BY <1>6
      <3>2. Encode(f) = HeaderBytes(f.header) \o SubSeq(f.payload, 1, f.header.length)
                          \o <<Crc(f.header, SubSeq(f.payload, 1, f.header.length))>>
        BY DEF Encode
      <3> HIDE DEF f
      <3>3. SubSeq(f.payload, 1, f.header.length) = <<Version, MaxPayload>>
        BY <2>1, <3>1, Zenon
      <3>4. Encode(f) = <<Marker, Response, n, 2>> \o <<Version, MaxPayload>> \o <<a>>
        BY <2>2, <3>1, <3>2, <3>3, Zenon
      <3> QED
        BY <3>4 DEF f
    <2>4. Answer(n) = <<Marker, Response, n, 2, Version, MaxPayload, a>>
      BY DEF Answer
    <2> HIDE DEF a, frame
    <2> QED
      BY <2>3, <2>4, FrameOfSeven
  <1> HIDE DEF frame, r
  <1>8. r.receiver = NewReceiver /\ r.frame = frame
    BY <1>2
  <1> QED
    BY <1>1, <1>4, <1>5, <1>7, <1>8 DEF r

-----------------------------------------------------------------------------
(* The client reads the answer. *)

(* Both sides read frames in the same way. *)
LEMMA SameFrames ==
    /\ \A bytes : Client!ReadFrame(bytes) = ReadFrame(bytes)
    /\ \A byte : Client!TypesOf(byte) = TypesOf(byte)
    /\ \A f : Client!LengthOk(f) = LengthOk(f)
    /\ Client!HeaderSize = HeaderSize /\ Client!CrcSize = CrcSize
  <1>1. \A byte : Client!TypesOf(byte) = TypesOf(byte)
    BY DEF Client!TypesOf, TypesOf, Client!FrameType, FrameType, Client!Response, Response
  <1>2. \A bytes : Client!HeaderOf(bytes) = HeaderOf(bytes)
    BY <1>1 DEF Client!HeaderOf, HeaderOf, Client!Response, Response
  <1>3. \A bytes : Client!ReadHeader(bytes) = ReadHeader(bytes)
    <2> TAKE bytes
    <2> DEFINE I    == {i \in 1 .. Len(bytes) : bytes[i] = Marker}
               at   == IF I # {} THEN Min(I) ELSE 0
               rest == SubSeq(bytes, at + 1, Len(bytes))
    <2>1. ReadHeader(bytes) =
             IF at = 0 THEN [result |-> "NoFrameMarker", offset |-> Len(bytes)]
             ELSE IF Len(rest) < HeaderSize - 1 THEN [result |-> "InsufficientLength", offset |-> at - 1]
             ELSE IF TypesOf(rest[1]) = {} THEN [result |-> "InvalidFrameType", offset |-> at - 1]
             ELSE [result |-> "Ok", offset |-> at - 1 + HeaderSize, header |-> HeaderOf(rest)]
      BY DEF ReadHeader, SelectInSeq
    <2>2. Client!ReadHeader(bytes) =
             IF at = 0 THEN [result |-> "NoFrameMarker", offset |-> Len(bytes)]
             ELSE IF Len(rest) < HeaderSize - 1 THEN [result |-> "InsufficientLength", offset |-> at - 1]
             ELSE IF Client!TypesOf(rest[1]) = {} THEN [result |-> "InvalidFrameType", offset |-> at - 1]
             ELSE [result |-> "Ok", offset |-> at - 1 + HeaderSize, header |-> Client!HeaderOf(rest)]
      BY DEF Client!ReadHeader, Client!SelectInSeq, Client!Min, Min, Client!Marker, Marker,
         Client!HeaderSize, HeaderSize
    <2> HIDE DEF at, rest
    <2> QED
      BY <1>1, <1>2, <2>1, <2>2
  <1>4. \A h, bytes : Client!ReadFramePayload(h, bytes) = ReadFramePayload(h, bytes)
    BY DEF Client!ReadFramePayload, ReadFramePayload, Client!CrcSize, CrcSize,
       Client!NoFrame, NoFrame, Client!NoHeader, NoHeader
  <1>5. \A bytes : Client!ReadFrame(bytes) = ReadFrame(bytes)
    BY <1>3, <1>4 DEF Client!ReadFrame, ReadFrame, Client!NoFrame, NoFrame, Client!NoHeader, NoHeader
  <1>6. \A f : Client!LengthOk(f) = LengthOk(f)
    BY DEF Client!LengthOk, LengthOk
  <1> QED
    BY <1>1, <1>5, <1>6 DEF Client!HeaderSize, HeaderSize, Client!CrcSize, CrcSize

(* The answer is read as the frame it was made from. *)
LEMMA AnswerRead ==
    ASSUME NEW n
    PROVE  ReadFrame(Answer(n)) =
              [result |-> "Ok",
               frame |-> [header |-> AnswerHeader(n), payload |-> <<Version, MaxPayload>>]]
  <1> DEFINE A == Answer(n)
             h == AnswerHeader(n)
             p == <<Version, MaxPayload>>
             b == Part(A, 4, 7)
  <1>1. PICK S : A \in Seq(S) /\ Len(A) = 7
    BY Frames
  <1>2. /\ A[1] = Marker /\ A[2] = Response /\ A[3] = n /\ A[4] = 2 /\ A[5] = Version
        /\ A[6] = MaxPayload /\ A[7] = Crc(h, p)
    BY DEF Answer
  <1> HIDE DEF A
  <1>3. ReadHeader(A) = [result |-> "Ok", offset |-> HeaderSize, header |-> h]
    <2>1. Len(A) >= HeaderSize /\ A[1] = Marker /\ TypesOf(A[2]) = {"QueryVersion"}
      BY <1>1, <1>2, QueryTypes DEF HeaderSize
    <2>2. ReadHeader(A) = [result |-> "Ok", offset |-> HeaderSize,
                           header |-> [type |-> "QueryVersion", response |-> A[2] >= Response,
                                       number |-> A[3], length |-> A[4]]]
      BY <1>1, <2>1, MarkerFirst
    <2>3. ReadHeader(A) = [result |-> "Ok", offset |-> HeaderSize,
                           header |-> [type |-> "QueryVersion", response |-> Response >= Response,
                                       number |-> n, length |-> 2]]
      BY <1>2, <2>2
    <2>4. (Response >= Response) = TRUE
      BY DEF Response
    <2> QED
      BY <2>3, <2>4, Zenon DEF AnswerHeader
  <1>4. b \in Seq(S) /\ Len(b) = 3 /\ b[3] = Crc(h, p)
    <2>1. 4 \in 0 .. Len(A) /\ 7 \in 4 .. Len(A)
      BY <1>1
    <2>2. b \in Seq(S) /\ Len(b) = 7 - 4 /\ \A i \in 1 .. 7 - 4 : b[i] = A[4 + i]
      BY <1>1, <2>1, PartElements, ZenonT(60)
    <2> HIDE DEF b, h, p
    <2> QED
      BY <1>2, <2>2
  <1>5. SubSeq(b, 1, 2) = p
    <2>1. 4 \in 0 .. Len(A) /\ 7 \in 4 .. Len(A) /\ 6 \in 4 .. Len(A) /\ 2 \in 0 .. 7 - 4 /\ 4 + 2 = 6
      BY <1>1
    <2>2. SubSeq(b, 1, 2) = Part(A, 4, 4 + 2)
      BY <1>1, <2>1, PartSplits
    <2>3. Part(A, 4, 6) \in Seq(S) /\ Len(Part(A, 4, 6)) = 6 - 4
          /\ \A i \in 1 .. 6 - 4 : Part(A, 4, 6)[i] = A[4 + i]
      BY <1>1, <2>1, PartElements
    <2> DEFINE q == Part(A, 4, 6)
    <2>4. q \in Seq(S) /\ Len(q) = 2 /\ q[1] = Version /\ q[2] = MaxPayload
      BY <1>2, <2>3
    <2> HIDE DEF q
    <2>5. q = p
      BY <2>4
    <2> QED
      BY <2>1, <2>2, <2>5 DEF q
  <1>6. ReadFramePayload(h, b) = [result |-> "Ok", frame |-> [header |-> h, payload |-> p]]
    <2>1. h.length = 2
      BY DEF AnswerHeader
    <2> HIDE DEF h, b
    <2>2. SubSeq(b, 1, h.length) = p
      BY <1>5, <2>1, Zenon
    <2>3. ~(Len(b) < h.length + CrcSize) /\ b[h.length + 1] = b[3]
      BY <1>4, <2>1 DEF CrcSize
    <2>4. b[h.length + 1] = Crc(h, SubSeq(b, 1, h.length))
      BY <1>4, <2>2, <2>3, Zenon
    <2> QED
      BY <2>2, <2>3, <2>4, Zenon DEF ReadFramePayload
  <1>7. SubSeq(A, HeaderSize + 1, Len(A)) = b
    BY <1>1 DEF Part, HeaderSize
  <1> HIDE DEF h, b, p
  <1>8. ReadFrame(A) = ReadFramePayload(h, SubSeq(A, HeaderSize + 1, Len(A)))
    BY <1>3 DEF ReadFrame
  <1> QED
    BY <1>6, <1>7, <1>8 DEF A, h, p

(* A query that waits for its answer and has got so much of it.            *)
Waiting(n, mode, got) == [mode |-> mode, type |-> "QueryVersion", number |-> n, got |-> got]

(* It is what the call waits for. *)
LEMMA AnswerAccepted ==
    ASSUME NEW n, NEW mode
    PROVE  Client!Result(Waiting(n, mode, Answer(n))) = "Ok"
  <1> DEFINE c == Waiting(n, mode, Answer(n))
             f == [header |-> AnswerHeader(n), payload |-> <<Version, MaxPayload>>]
  <1>1. Client!ReadFrame(c.got) = [result |-> "Ok", frame |-> f]
    BY SameFrames, AnswerRead DEF Waiting
  <1>2. f.header.type = "QueryVersion" /\ f.header.response = TRUE /\ f.header.length = 2
        /\ f.header.number = n
    BY DEF AnswerHeader
  <1>3. c.number = n /\ c.type = "QueryVersion"
    BY DEF Waiting
  <1> HIDE DEF c, f
  <1>4. Client!LengthOk(f)
    BY <1>2, SameFrames DEF LengthOk
  <1>5. Client!Answers(f, c)
    BY <1>2, <1>3 DEF Client!Answers
  <1> QED
    BY <1>1, <1>4, <1>5 DEF Client!Result, c

(* How much of the answer a call still asks for. *)
LEMMA AnswerMissing ==
    ASSUME NEW n, NEW i \in 0 .. 6
    PROVE  Client!Missing(Waiting(n, IF i < 4 THEN "Header" ELSE "Payload", Part(Answer(n), 0, i)))
              = IF i < 4 THEN 4 - i ELSE 7 - i
  <1> DEFINE A == Answer(n)
             got == Part(A, 0, i)
             c == Waiting(n, IF i < 4 THEN "Header" ELSE "Payload", got)
  <1>1. PICK S : A \in Seq(S) /\ Len(A) = 7
    BY Frames
  <1>2. A[4] = 2
    BY DEF Answer
  <1> HIDE DEF A
  <1>3. got \in Seq(S) /\ Len(got) = i /\ \A j \in 1 .. i : got[j] = A[j]
    <2>1. 0 \in 0 .. Len(A) /\ i \in 0 .. Len(A)
      BY <1>1
    <2>2. got \in Seq(S) /\ Len(got) = i - 0 /\ \A j \in 1 .. i - 0 : got[j] = A[0 + j]
      BY <1>1, <2>1, PartElements
    <2> HIDE DEF got
    <2> QED
      BY <2>2
  <1>4. c.mode = (IF i < 4 THEN "Header" ELSE "Payload") /\ c.got = got
    BY DEF Waiting
  <1> SUFFICES Client!Missing(c) = IF i < 4 THEN 4 - i ELSE 7 - i
    BY DEF A
  <1> HIDE DEF c, got
  <1>5. CASE i < 4
    BY <1>3, <1>4, <1>5 DEF Client!Missing, Client!HeaderSize
  <1>6. CASE ~(i < 4)
    <2>1. got # <<>> /\ Tail(got) \in Seq(S) /\ Len(Tail(got)) = i - 1 /\ Tail(got)[3] = got[4]
      <3>1. got # <<>>
        BY <1>3, <1>6
      <3>2. /\ Tail(got) \in Seq(S) /\ Len(Tail(got)) = Len(got) - 1
            /\ \A j \in 1 .. Len(Tail(got)) : Tail(got)[j] = got[j + 1]
        BY <1>3, <3>1, HeadTailProperties
      <3>3. 3 \in 1 .. Len(Tail(got))
        BY <1>3, <1>6, <3>2
      <3> QED
        BY <1>3, <3>1, <3>2, <3>3
    <2>2. got[4] = 2
      BY <1>2, <1>3, <1>6
    <2>3. Client!HeaderOf(Tail(got)).length = 2
      BY <2>1, <2>2 DEF Client!HeaderOf
    <2> QED
      BY <1>3, <1>4, <1>6, <2>3 DEF Client!Missing, Client!HeaderSize, Client!CrcSize
  <1> QED
    BY <1>5, <1>6

-----------------------------------------------------------------------------
(* A query made when nothing is left of the calls before.  Where it is:    *)
(* in its header, before its checksum, answered.                           *)

HeaderArrives(n, k) ==
    /\ receiver = Header(Part(Query(n), 0, k)) /\ line = Part(Query(n), k, 5)
    /\ pending = <<>> /\ down = <<>> /\ call = Waiting(n, "Header", <<>>)
ChecksumArrives(n) ==
    /\ receiver = Payload(QueryHeader(n), <<>>) /\ line = Part(Query(n), 4, 5)
    /\ pending = <<>> /\ down = <<>> /\ call = Waiting(n, "Header", <<>>)
AnswerArrives(n, i, j) ==
    /\ receiver = NewReceiver /\ line = <<>>
    /\ down = Part(Answer(n), i, j) /\ pending = Part(Answer(n), j, 7)
    /\ call = Waiting(n, IF i < 4 THEN "Header" ELSE "Payload", Part(Answer(n), 0, i))

OnItsWay(n) ==
    \/ \E k \in 0 .. 3 : HeaderArrives(n, k)
    \/ ChecksumArrives(n)
    \/ \E i \in 0 .. 6 : \E j \in i .. 7 : AnswerArrives(n, i, j)

QuietInv ==
    /\ quiet => outcome # "Err"
    /\ quiet /\ call.mode # "Idle" => OnItsWay(call.number)

(* All calls are queries. *)
QueriesOnly == \A r \in Requests : r = [type |-> "QueryVersion", payload |-> <<>>]

(* The symbols a query is sent as. *)
LEMMA QuerySent ==
    ASSUME NEW r, NEW n, r.type = "QueryVersion", r.payload = <<>>
    PROVE  Client!Sent(Client!RequestFrame(r, n)) = Query(n)
  <1> DEFINE crc == Crc(QueryHeader(n), <<>>)
             f == Client!Frame(r.type, FALSE, n, r.payload)
  <1>1. r.type = "QueryVersion" /\ r.payload = <<>>
    OBVIOUS
  <1>2. Client!RequestFrame(r, n) = f /\ f = [header |-> QueryHeader(n), payload |-> <<>>]
    BY <1>1 DEF Client!RequestFrame, Client!Frame, QueryHeader
  <1>3. Client!Sent(f) = Query(n)
    <2>1. SubSeq(<<>>, 1, 0) = <<>>
      BY SubSeqEmpty
    <2>2. Client!HeaderBytes(QueryHeader(n)) = <<Marker, 0, n, 0>>
      BY DEF Client!HeaderBytes, QueryHeader, Client!FrameType, Client!Marker, Marker
    <2> DEFINE w == <<Marker, 0, n, 0>> \o <<>> \o <<crc>>
    <2>3. Client!Sent(f) = SubSeq(w, 1, 5)
      <3>1. f.header = QueryHeader(n) /\ f.payload = <<>> /\ QueryHeader(n).length = 0
        <4>1. QueryHeader(n).length = 0
          BY DEF QueryHeader
        <4> HIDE DEF f
        <4> QED
          BY <1>2, <4>1
      <3>2. Client!WriteFrame(f, 5) =
               SubSeq(Client!HeaderBytes(f.header) \o f.payload
                        \o <<Crc(f.header, SubSeq(f.payload, 1, f.header.length))>>, 1, 5)
        BY DEF Client!WriteFrame
      <3>3. Client!Sent(f) = Client!WriteFrame(f, Client!HeaderSize + f.header.length + Client!CrcSize)
        BY DEF Client!Sent
      <3> HIDE DEF f
      <3>4. Client!HeaderSize + f.header.length + Client!CrcSize = 5
        BY <3>1 DEF Client!HeaderSize, Client!CrcSize
      <3>5. SubSeq(f.payload, 1, f.header.length) = <<>>
        BY <3>1, <2>1
      <3>6. Client!Sent(f) = Client!WriteFrame(f, 5)
        BY <3>3, <3>4
      <3> QED
        BY <2>2, <3>1, <3>2, <3>5, <3>6, Zenon
    <2>4. w = Query(n)
      BY FrameOfFive DEF Query
    <2> HIDE DEF w
    <2>5. PICK S : Query(n) \in Seq(S) /\ Len(Query(n)) = 5
      BY Frames
    <2>6. SubSeq(Query(n), 1, Len(Query(n))) = Query(n)
      BY <2>5, SubSeqFull
    <2> QED
      BY <2>3, <2>4, <2>5, <2>6, Zenon
  <1> HIDE DEF f
  <1> QED
    BY <1>2, <1>3

(* A query is put on the line, which is empty. *)
LEMMA QuietCall ==
    ASSUME QueriesOnly, NEW r \in Requests, NEW n, n = next, Call(r), quiet'
    PROVE  OnItsWay(n)' /\ call'.number = n /\ outcome' = "None"
  <1>1. r.type = "QueryVersion" /\ r.payload = <<>>
    BY DEF QueriesOnly
  <1>2. receiver = NewReceiver /\ line = <<>> /\ pending = <<>> /\ down = <<>>
    BY DEF Call, Quiet
  <1>3. receiver' = receiver /\ pending' = pending /\ down' = down /\ call' = Waiting(n, "Header", <<>>) /\ outcome' = "None"
        /\ line' = line \o Client!Sent(Client!RequestFrame(r, n))
    BY <1>1 DEF Call, Client!Call, notClient, Waiting
  <1>4. Client!Sent(Client!RequestFrame(r, n)) = Query(n)
    BY <1>1, QuerySent
  <1>6. line' = Part(Query(n), 0, 5) /\ Header(Part(Query(n), 0, 0)) = NewReceiver
    <2>1. PICK S : Query(n) \in Seq(S) /\ Len(Query(n)) = 5
      BY Frames
    <2>2. line' = Query(n)
      BY <1>2, <1>3, <1>4, <2>1, ConcatEmptySeq
    <2>3. SubSeq(Query(n), 1, Len(Query(n))) = Query(n)
      BY <2>1, SubSeqFull
    <2>4. SubSeq(Query(n), 1, 0) = <<>> /\ 0 + 1 = 1
      BY SubSeqEmpty
    <2>5. Part(Query(n), 0, 5) = SubSeq(Query(n), 1, 5) /\ Part(Query(n), 0, 0) = SubSeq(Query(n), 1, 0)
      BY <2>4 DEF Part
    <2> QED
      BY <2>1, <2>2, <2>3, <2>4, <2>5, Zenon DEF NewReceiver
  <1>7. call'.number = n
    BY <1>3 DEF Waiting
  <1>8. HeaderArrives(n, 0)'
    <2>1. receiver' = Header(Part(Query(n), 0, 0)) /\ pending' = <<>> /\ down' = <<>>
      BY <1>2, <1>3, <1>6
    <2> QED
      BY <1>3, <1>6, <2>1, Zenon DEF HeaderArrives
  <1> QED
    BY <1>3, <1>7, <1>8 DEF OnItsWay

(* A read of the server, of so many symbols of a query's header. *)
LEMMA HeaderServed ==
    ASSUME NEW n, NEW k \in 0 .. 3, HeaderArrives(n, k), Serve
    PROVE  OnItsWay(n)'
  <1> DEFINE Q == Query(n)
  <1>1. PICK S : Q \in Seq(S) /\ Len(Q) = 5
    BY Frames
  <1>2. receiver = Header(Part(Q, 0, k)) /\ line = Part(Q, k, 5) /\ pending = <<>> /\ down = <<>>
        /\ call = Waiting(n, "Header", <<>>) /\ call' = call
    BY DEF HeaderArrives, Serve, clientState
  <1>3. PICK m \in 1 .. BufferSize : ReadSome(m)
    <2>1. ~Idle /\ ~(\E j \in 1 .. Len(pending) - 1 : WritePending(j))
      BY <1>2 DEF Idle, WritePending
    <2> QED
      BY <2>1 DEF Serve, Process
  <1> HIDE DEF Q
  <1>4. k \in 0 .. Len(Q) /\ 0 \in 0 .. Len(Q) /\ k \in k .. Len(Q) /\ 5 \in k .. Len(Q)
    BY <1>1
  <1>5. Part(Q, 0, k) \in Seq(S) /\ Len(Part(Q, 0, k)) = k
        /\ Part(Q, k, 5) \in Seq(S) /\ Len(Part(Q, k, 5)) = 5 - k
    <2>1. Part(Q, 0, k) \in Seq(S) /\ Len(Part(Q, 0, k)) = k - 0
      BY <1>1, <1>4, PartElements
    <2>2. Part(Q, k, 5) \in Seq(S) /\ Len(Part(Q, k, 5)) = 5 - k
      BY <1>1, <1>4, PartElements
    <2> QED
      BY <2>1, <2>2
  <1>6. m \in 1 .. 4 - k
    <2>1. m \in 1 .. Wanted(receiver)
      BY <1>3 DEF ReadSome, Receive
    <2>2. receiver.mode = "Header" /\ receiver.got = Part(Q, 0, k)
      BY <1>2 DEF Header
    <2>3. Wanted(receiver) = 4 - k
      BY <1>5, <2>2 DEF Wanted, HeaderSize
    <2> QED
      BY <2>1, <2>3
  <1> DEFINE chunk == SubSeq(line, 1, m)
             r == Received(receiver, chunk)
  <1>7. chunk = Part(Q, k, k + m) /\ SubSeq(line, m + 1, Len(line)) = Part(Q, k + m, 5)
    <2>1. m \in 0 .. 5 - k
      BY <1>6
    <2>2. /\ SubSeq(Part(Q, k, 5), 1, m) = Part(Q, k, k + m)
          /\ SubSeq(Part(Q, k, 5), m + 1, Len(Part(Q, k, 5))) = Part(Q, k + m, 5)
      BY <1>1, <1>4, <2>1, PartSplits, ZenonT(60)
    <2> QED
      BY <1>2, <2>2
  <1>8. Len(chunk) = m /\ Part(Q, 0, k) \o chunk = Part(Q, 0, k + m)
    <2>1. k + m \in k .. Len(Q) /\ k \in 0 .. Len(Q)
      BY <1>1, <1>6
    <2>2. Len(Part(Q, k, k + m)) = (k + m) - k
      BY <1>1, <2>1, PartElements
    <2>3. Part(Q, 0, k) \o Part(Q, k, k + m) = Part(Q, 0, k + m)
      BY <1>1, <1>4, <2>1, PartsJoin
    <2> HIDE DEF chunk
    <2> QED
      BY <1>6, <1>7, <2>2, <2>3
  <1>9. r = None(IF k + m = 4 THEN HeaderRead(Part(Q, 0, k + m)) ELSE Header(Part(Q, 0, k + m)))
    <2>1. receiver.mode = "Header" /\ receiver.got = Part(Q, 0, k)
      BY <1>2 DEF Header
    <2> HIDE DEF chunk
    <2>2. Offset(receiver) + Len(chunk) = k + m
      BY <1>5, <1>8, <2>1 DEF Offset
    <2> QED
      BY <1>8, <2>1, <2>2 DEF Received, HeaderSize
  <1>10. ~Accepted(r) /\ r.receiver = IF k + m = 4 THEN HeaderRead(Part(Q, 0, k + m))
                                      ELSE Header(Part(Q, 0, k + m))
    <2> HIDE DEF r
    <2> QED
      BY <1>9 DEF None, Accepted
  <1>11. receiver' = r.receiver /\ line' = Part(Q, k + m, 5)
    BY <1>3, <1>7 DEF ReadSome, Receive
  <1>12. pending' = <<>> /\ down' = <<>>
    <2>1. ReadOn(r)
      BY <1>3, <1>10 DEF ReadSome, Respond, Panic
    <2> QED
      BY <1>2, <2>1 DEF ReadOn, Flush
  <1> HIDE DEF r, chunk
  <1>13. CASE k + m = 4
    <2>1. receiver' = Payload(QueryHeader(n), <<>>)
      BY <1>10, <1>11, <1>13, QueryRead DEF Q
    <2>2. ChecksumArrives(n)'
      BY <1>2, <1>11, <1>12, <1>13, <2>1 DEF ChecksumArrives, Q
    <2> QED
      BY <2>2 DEF OnItsWay
  <1>14. CASE k + m # 4
    <2>1. k + m \in 0 .. 3
      BY <1>6, <1>14
    <2>2. HeaderArrives(n, k + m)'
      BY <1>2, <1>10, <1>11, <1>12, <1>14 DEF HeaderArrives, Q
    <2> QED
      BY <2>1, <2>2 DEF OnItsWay
  <1> QED
    BY <1>6, <1>13, <1>14

(* The read of its checksum, which the server answers. *)
LEMMA ChecksumServed ==
    ASSUME NEW n, ChecksumArrives(n), Serve
    PROVE  OnItsWay(n)'
  <1> DEFINE Q == Query(n)
             A == Answer(n)
  <1>1. PICK S : Q \in Seq(S) /\ A \in Seq(S) /\ Len(Q) = 5 /\ Len(A) = 7
    BY Frames
  <1>2. receiver = Payload(QueryHeader(n), <<>>) /\ line = Part(Q, 4, 5) /\ pending = <<>> /\ down = <<>>
        /\ call = Waiting(n, "Header", <<>>) /\ call' = call
    BY DEF ChecksumArrives, Serve, clientState
  <1>3. PICK m \in 1 .. BufferSize : ReadSome(m)
    <2>1. ~Idle /\ ~(\E j \in 1 .. Len(pending) - 1 : WritePending(j))
      BY <1>2 DEF Idle, WritePending
    <2> QED
      BY <2>1 DEF Serve, Process
  <1> HIDE DEF Q, A
  <1>4. Len(line) = 1
    <2>1. 4 \in 0 .. Len(Q) /\ 5 \in 4 .. Len(Q)
      BY <1>1
    <2>2. Len(Part(Q, 4, 5)) = 5 - 4
      BY <1>1, <2>1, PartElements
    <2> QED
      BY <1>2, <2>2
  <1>5. m = 1
    BY <1>3, <1>4 DEF ReadSome, Receive
  <1>6. SubSeq(line, 1, m) = Part(Q, 4, 5) /\ SubSeq(line, m + 1, Len(line)) = <<>>
    <2>1. 4 \in 0 .. Len(Q) /\ 5 \in 4 .. Len(Q) /\ 1 \in 0 .. 5 - 4 /\ 4 + 1 = 5
      BY <1>1
    <2>2. SubSeq(Part(Q, 4, 5), 1, 1) = Part(Q, 4, 4 + 1)
      BY <1>1, <2>1, PartSplits, ZenonT(60)
    <2>3. SubSeq(line, 2, 1) = <<>>
      BY SubSeqEmpty
    <2>4. SubSeq(line, 1, m) = Part(Q, 4, 5)
      BY <1>2, <1>5, <2>1, <2>2
    <2>5. m + 1 = 2
      BY <1>5
    <2> QED
      BY <1>4, <2>3, <2>4, <2>5
  <1> DEFINE r == Received(receiver, SubSeq(line, 1, m))
  <1>7. r.receiver = NewReceiver /\ Accepted(r) /\ ~Panics(r.frame) /\ Encode(ResponseTo(r.frame)) = A
    BY <1>2, <1>6, QueryAnswered DEF Q, A
  <1>8. Respond(r)
    BY <1>3, <1>7 DEF ReadSome, ReadOn, Panic
  <1>9. receiver' = NewReceiver /\ line' = <<>>
    BY <1>3, <1>6, <1>7 DEF ReadSome, Receive
  <1> HIDE DEF r
  <1>10. down' = <<>> /\ pending' = A
    BY <1>2, <1>7, <1>8 DEF Respond, Flush
  <1>11. Part(A, 0, 0) = <<>> /\ Part(A, 0, 7) = A
    <2>1. SubSeq(A, 1, 0) = <<>> /\ 0 + 1 = 1
      BY SubSeqEmpty
    <2>2. SubSeq(A, 1, Len(A)) = A
      BY <1>1, SubSeqFull
    <2> QED
      BY <1>1, <2>1, <2>2 DEF Part
  <1>12. AnswerArrives(n, 0, 0)'
    BY <1>2, <1>9, <1>10, <1>11 DEF AnswerArrives, A
  <1> QED
    BY <1>12 DEF OnItsWay

(* The server writes more of the answer. *)
LEMMA AnswerServed ==
    ASSUME NEW n, NEW i \in 0 .. 6, NEW j \in i .. 7, AnswerArrives(n, i, j), Serve
    PROVE  OnItsWay(n)'
  <1> DEFINE A == Answer(n)
  <1>1. PICK S : A \in Seq(S) /\ Len(A) = 7
    BY Frames
  <1>2. receiver = NewReceiver /\ line = <<>> /\ down = Part(A, i, j) /\ pending = Part(A, j, 7)
        /\ call = Waiting(n, IF i < 4 THEN "Header" ELSE "Payload", Part(A, 0, i)) /\ call' = call
    BY DEF AnswerArrives, Serve, clientState
  <1>3. ~(\E m \in 1 .. BufferSize : ReadSome(m))
    BY <1>2 DEF ReadSome, Receive
  <1> HIDE DEF A
  <1>4. i \in 0 .. Len(A) /\ j \in i .. Len(A) /\ j \in 0 .. Len(A) /\ 7 \in j .. Len(A)
    BY <1>1
  <1>5. Len(pending) = 7 - j
    BY <1>1, <1>2, <1>4, PartElements
  <1>6. CASE Idle
    <2>1. receiver' = receiver /\ line' = line /\ down' = down \o pending /\ pending' = <<>>
      BY <1>6 DEF Idle, Flush
    <2>2. down' = Part(A, i, 7)
      BY <1>1, <1>2, <1>4, <2>1, PartsJoin
    <2>3. Part(A, 7, 7) = <<>>
      <3>1. SubSeq(A, 8, 7) = <<>> /\ 7 + 1 = 8
        BY SubSeqEmpty
      <3> QED
        BY <3>1 DEF Part
    <2>4. AnswerArrives(n, i, 7)'
      BY <1>2, <2>1, <2>2, <2>3 DEF AnswerArrives, A
    <2>5. i \in 0 .. 6 /\ 7 \in i .. 7
      OBVIOUS
    <2> QED
      BY <2>4, <2>5 DEF OnItsWay
  <1>7. ASSUME NEW k \in 1 .. Len(pending) - 1, WritePending(k) PROVE OnItsWay(n)'
    <2>1. receiver' = receiver /\ line' = line /\ down' = down \o SubSeq(pending, 1, k)
          /\ pending' = SubSeq(pending, k + 1, Len(pending))
      BY <1>7 DEF WritePending
    <2>2. k \in 0 .. 7 - j /\ j + k \in j .. Len(A) /\ j + k \in i .. 7
      BY <1>1, <1>5
    <2>3. SubSeq(pending, 1, k) = Part(A, j, j + k) /\ pending' = Part(A, j + k, 7)
      <3>1. /\ SubSeq(Part(A, j, 7), 1, k) = Part(A, j, j + k)
            /\ SubSeq(Part(A, j, 7), k + 1, Len(Part(A, j, 7))) = Part(A, j + k, 7)
        <4>1. j \in 0 .. Len(A) /\ 7 \in j .. Len(A) /\ k \in 0 .. 7 - j
          BY <1>4, <2>2
        <4> QED
          BY <1>1, <4>1, PartSplits, ZenonT(60)
      <3> QED
        BY <1>2, <2>1, <3>1
    <2>4. down' = Part(A, i, j + k)
      BY <1>1, <1>2, <1>4, <2>1, <2>2, <2>3, PartsJoin
    <2>5. AnswerArrives(n, i, j + k)'
      BY <1>2, <2>1, <2>3, <2>4 DEF AnswerArrives, A
    <2> QED
      BY <2>2, <2>5 DEF OnItsWay
  <1> QED
    BY <1>3, <1>6, <1>7 DEF Serve, Process

(* The client reads some of the answer, in the end all of it. *)
LEMMA AnswerReceived ==
    ASSUME NEW n, OnItsWay(n), ClientReceive, outcome # "Err"
    PROVE  /\ outcome' # "Err"
           /\ call'.mode # "Idle" => OnItsWay(n)' /\ call'.number = n
  <1> DEFINE A == Answer(n)
  <1>1. PICK S : A \in Seq(S) /\ Len(A) = 7
    BY Frames
  <1>2. PICK m \in 1 .. Len(down) : Client!Receive(m)
    BY DEF ClientReceive
  <1>3. receiver' = receiver /\ pending' = pending /\ line' = line
    BY <1>2 DEF ClientReceive, notClient, Client!Receive
  <1>4. PICK i \in 0 .. 6 : \E j \in i .. 7 : AnswerArrives(n, i, j)
    <2>1. down # <<>>
      BY <1>2
    <2> QED
      BY <2>1 DEF OnItsWay, HeaderArrives, ChecksumArrives
  <1> PICK j \in i .. 7 : AnswerArrives(n, i, j)
    BY <1>4
  <1> DEFINE mode == IF i < 4 THEN "Header" ELSE "Payload"
             c == Waiting(n, mode, Part(A, 0, i + m))
  <1>5. receiver = NewReceiver /\ line = <<>> /\ down = Part(A, i, j) /\ pending = Part(A, j, 7)
        /\ call = Waiting(n, mode, Part(A, 0, i))
    BY DEF AnswerArrives
  <1>6. Client!Missing(call) = IF i < 4 THEN 4 - i ELSE 7 - i
    BY <1>5, AnswerMissing
  <1>7. call.got = Part(A, 0, i) /\ call.mode = mode /\ call.type = "QueryVersion" /\ call.number = n
    BY <1>5 DEF Waiting
  <1> HIDE DEF A
  <1>8. i \in 0 .. Len(A) /\ j \in i .. Len(A) /\ j \in 0 .. Len(A) /\ 0 \in 0 .. Len(A)
    BY <1>1
  <1>9. Len(down) = j - i
    BY <1>1, <1>5, <1>8, PartElements
  <1>10. m \in 0 .. j - i /\ m >= 1 /\ i + m \in i .. Len(A) /\ i + m \in 0 .. Len(A) /\ i + m \in 0 .. j
         /\ m <= Client!Missing(call)
    <2>1. m \in 1 .. Client!Missing(call) /\ m <= Len(down) /\ Client!Missing(call) \in Int
      BY <1>2, <1>6 DEF Client!Receive
    <2>2. m \in 1 .. j - i
      BY <1>9, <2>1
    <2> QED
      BY <1>1, <2>1, <2>2
  <1>11. SubSeq(down, 1, m) = Part(A, i, i + m) /\ SubSeq(down, m + 1, Len(down)) = Part(A, i + m, j)
    <2>1. /\ SubSeq(Part(A, i, j), 1, m) = Part(A, i, i + m)
          /\ SubSeq(Part(A, i, j), m + 1, Len(Part(A, i, j))) = Part(A, i + m, j)
      <3>1. m \in 0 .. j - i
        BY <1>10
      <3>2. A \in Seq(S) /\ i \in 0 .. Len(A) /\ j \in i .. Len(A)
        BY <1>1, <1>8
      <3> QED
        BY <3>1, <3>2, PartSplits
    <2> QED
      BY <1>5, <2>1
  <1>12. [call EXCEPT !.got = @ \o SubSeq(down, 1, m)] = c
    <2>1. Part(A, 0, i) \o Part(A, i, i + m) = Part(A, 0, i + m)
      BY <1>1, <1>8, <1>10, PartsJoin
    <2>2. call.got \o SubSeq(down, 1, m) = Part(A, 0, i + m)
      BY <1>7, <1>11, <2>1
    <2> HIDE DEF mode
    <2>3. call = [mode |-> mode, type |-> "QueryVersion", number |-> n, got |-> Part(A, 0, i)]
      BY <1>5 DEF Waiting
    <2>4. \A got : [call EXCEPT !.got = got]
                      = [mode |-> mode, type |-> "QueryVersion", number |-> n, got |-> got]
      BY <2>3
    <2> QED
      BY <2>2, <2>4 DEF Waiting
  <1>13. /\ down' = Part(A, i + m, j)
         /\ \/ m < Client!Missing(call) /\ call' = c /\ UNCHANGED outcome
            \/ m = Client!Missing(call) /\ call.mode = "Header" /\ Client!HeaderRead(c)
            \/ m = Client!Missing(call) /\ call.mode = "Payload" /\ Client!Return(Client!Result(c))
    <2> HIDE DEF c
    <2> QED
      BY <1>2, <1>11, <1>12, Zenon DEF Client!Receive
  <1>14. CASE m < Client!Missing(call) /\ i < 4
    <2>1. call' = c /\ outcome' = outcome
      BY <1>6, <1>13, <1>14
    <2>2. i + m \in 0 .. 6 /\ i + m < 4 /\ j \in i + m .. 7 /\ mode = "Header"
      BY <1>6, <1>10, <1>14
    <2>3. AnswerArrives(n, i + m, j)'
      BY <1>3, <1>5, <1>13, <2>1, <2>2 DEF AnswerArrives, A
    <2> QED
      BY <2>1, <2>2, <2>3 DEF OnItsWay, Waiting
  <1>15. CASE m < Client!Missing(call) /\ ~(i < 4)
    <2>1. call' = c /\ outcome' = outcome
      BY <1>6, <1>13, <1>15
    <2>2. i + m \in 0 .. 6 /\ ~(i + m < 4) /\ j \in i + m .. 7 /\ mode = "Payload"
      BY <1>6, <1>10, <1>15
    <2>3. AnswerArrives(n, i + m, j)'
      BY <1>3, <1>5, <1>13, <2>1, <2>2 DEF AnswerArrives, A
    <2> QED
      BY <2>1, <2>2, <2>3 DEF OnItsWay, Waiting
  <1>16. CASE ~(m < Client!Missing(call)) /\ i < 4
    <2>1. i + m = 4 /\ j \in 4 .. 7 /\ call.mode = "Header"
      BY <1>6, <1>7, <1>10, <1>16
    <2>2. c.got[2] = Response
      <3>1. Part(A, 0, 4)[2] = A[2]
        <4>1. 0 \in 0 .. Len(A) /\ 4 \in 0 .. Len(A)
          BY <1>1
        <4>2. \A e \in 1 .. 4 - 0 : Part(A, 0, 4)[e] = A[0 + e]
          BY <1>1, <4>1, PartElements
        <4> QED
          BY <4>2
      <3>2. A[2] = Response
        BY DEF Answer, A
      <3> QED
        BY <2>1, <3>1, <3>2 DEF Waiting
    <2>3. Client!TypesOf(c.got[2]) # {}
      BY <2>2, SameFrames, QueryTypes
    <2>4. call' = [c EXCEPT !.mode = "Payload"] /\ outcome' = outcome
      BY <1>6, <1>13, <1>16, <2>1, <2>3 DEF Client!HeaderRead
    <2>5. call' = Waiting(n, "Payload", Part(A, 0, 4))
      BY <2>1, <2>4 DEF Waiting
    <2>6. 4 \in 0 .. 6 /\ ~(4 < 4)
      OBVIOUS
    <2>7. AnswerArrives(n, 4, j)'
      BY <1>3, <1>5, <1>13, <2>1, <2>5, <2>6 DEF AnswerArrives, A
    <2> QED
      BY <2>1, <2>4, <2>5, <2>6, <2>7 DEF OnItsWay, Waiting
  <1>17. CASE ~(m < Client!Missing(call)) /\ ~(i < 4)
    <2>1. i + m = 7 /\ call.mode = "Payload"
      BY <1>6, <1>7, <1>10, <1>17
    <2>2. Client!Return(Client!Result(c))
      BY <1>6, <1>13, <1>17, <2>1
    <2>3. Part(A, 0, 7) = A
      <3>1. SubSeq(A, 1, Len(A)) = A /\ 0 + 1 = 1
        BY <1>1, SubSeqFull
      <3> QED
        BY <1>1, <3>1 DEF Part
    <2>4. Client!Result(c) = "Ok"
      BY <2>1, <2>3, AnswerAccepted DEF A
    <2> QED
      BY <2>2, <2>4 DEF Client!Return, Client!NoCall
  <1> QED
    BY <1>14, <1>15, <1>16, <1>17

(* A call is on its way, or none is made, or not on idle lines. *)
LEMMA QuietStep == QueriesOnly /\ QuietInv /\ [ToolNext]_toolVars => QuietInv'
  <1> SUFFICES ASSUME QueriesOnly, QuietInv, [ToolNext]_toolVars PROVE QuietInv'
    OBVIOUS
  <1>1. ASSUME NEW r \in Requests, Call(r) PROVE QuietInv'
    <2>1. PICK n : n = next
      OBVIOUS
    <2>2. quiet' => OnItsWay(n)' /\ call'.number = n
      BY <1>1, <2>1, QuietCall
    <2>3. outcome' = "None"
      BY <1>1 DEF Call, Client!Call
    <2> QED
      BY <2>2, <2>3 DEF QuietInv, OnItsWay, HeaderArrives, ChecksumArrives, AnswerArrives
  <1>2. CASE ClientReceive
    <2>1. call.mode # "Idle" /\ quiet' = quiet
      BY <1>2 DEF ClientReceive, Client!Receive
    <2>2. PICK n : n = call.number
      OBVIOUS
    <2>3. quiet => OnItsWay(n) /\ outcome # "Err"
      BY <2>1, <2>2 DEF QuietInv
    <2>4. quiet => outcome' # "Err" /\ (call'.mode # "Idle" => OnItsWay(n)' /\ call'.number = n)
      BY <1>2, <2>3, AnswerReceived
    <2> QED
      BY <2>1, <2>4 DEF QuietInv, OnItsWay, HeaderArrives, ChecksumArrives, AnswerArrives
  <1>3. CASE Abandon
    BY <1>3 DEF Abandon, Client!Abandon, Client!Return, Client!NoCall, QuietInv
  <1>4. CASE Serve
    <2>1. quiet' = quiet /\ outcome' = outcome /\ call' = call
      BY <1>4 DEF Serve, clientState
    <2>2. PICK n : n = call.number
      OBVIOUS
    <2>3. OnItsWay(n) => OnItsWay(n)'
      BY <1>4, HeaderServed, ChecksumServed, AnswerServed DEF OnItsWay
    <2> QED
      BY <2>1, <2>2, <2>3 DEF QuietInv, OnItsWay, HeaderArrives, ChecksumArrives, AnswerArrives
  <1>5. CASE UNCHANGED toolVars
    BY <1>5 DEF toolVars, clientState, serverVars, QuietInv, OnItsWay, HeaderArrives, ChecksumArrives,
       AnswerArrives
  <1> QED
    BY <1>1, <1>2, <1>3, <1>4, <1>5 DEF ToolNext

(***************************************************************************)
(* A query made when nothing is left of the calls before it succeeds,      *)
(* wherever in a frame these were dropped: whatever the version, the       *)
(* checksum, the size of the buffer and the numbers of the frames are, and *)
(* however reads and writes are cut.                                       *)
(***************************************************************************)
THEOREM QueriesSucceed == QueriesOnly => (ToolSpec => []QuietCallSucceeds)
  <1> SUFFICES ASSUME QueriesOnly PROVE ToolSpec => []QuietCallSucceeds
    OBVIOUS
  <1>1. ToolInit => QuietInv
    BY DEF ToolInit, Client!Init, Client!NoCall, QuietInv
  <1>2. QuietInv /\ [ToolNext]_toolVars => QuietInv'
    BY QuietStep
  <1>3. QuietInv => QuietCallSucceeds
    BY DEF QuietInv, QuietCallSucceeds
  <1> QED
    BY <1>1, <1>2, <1>3, PTL DEF ToolSpec

-----------------------------------------------------------------------------
(* Whose answer a call takes.                                              *)

(* The number of the j-th call, as long as none is used again.             *)
Number(j) == IF j = Numbers THEN 0 ELSE j

(* What the client and the server send, all in all: its i-th symbol.       *)
Upstream   == [i \in Nat \ {0} |-> Query(Number((i - 1) \div 5 + 1))[((i - 1) % 5) + 1]]
Downstream == [i \in Nat \ {0} |-> Answer(Number((i - 1) \div 7 + 1))[((i - 1) % 7) + 1]]

(* A sequence is what a stream goes on with behind its first a symbols.    *)
Stretch(s, a, stream) == IsSeq(s) /\ \A i \in 1 .. Len(s) : s[i] = stream[a + i]

(* Each frame of a stream is at its place. *)
LEMMA UpstreamAt ==
    ASSUME NEW j \in Nat, NEW i \in 1 .. 5
    PROVE  Upstream[5 * j + i] = Query(Number(j + 1))[i]
  <1> DEFINE x == 5 * j + i
  <1>1. x \in Nat \ {0} /\ (x - 1) \div 5 = j /\ (x - 1) % 5 = i - 1 /\ (i - 1) + 1 = i
    OBVIOUS
  <1> HIDE DEF x
  <1>2. Upstream[x] = Query(Number((x - 1) \div 5 + 1))[((x - 1) % 5) + 1]
    BY <1>1 DEF Upstream
  <1> QED
    BY <1>1, <1>2, Zenon DEF x

LEMMA DownstreamAt ==
    ASSUME NEW j \in Nat, NEW i \in 1 .. 7
    PROVE  Downstream[7 * j + i] = Answer(Number(j + 1))[i]
  <1> DEFINE x == 7 * j + i
  <1>1. x \in Nat \ {0} /\ (x - 1) \div 7 = j /\ (x - 1) % 7 = i - 1 /\ (i - 1) + 1 = i
    OBVIOUS
  <1> HIDE DEF x
  <1>2. Downstream[x] = Answer(Number((x - 1) \div 7 + 1))[((x - 1) % 7) + 1]
    BY <1>1 DEF Downstream
  <1> QED
    BY <1>1, <1>2, Zenon DEF x

(* A stretch can be cut in two ... *)
LEMMA StretchParts ==
    ASSUME NEW s, NEW a \in Nat, NEW stream, Stretch(s, a, stream), NEW n \in 0 .. Len(s)
    PROVE  /\ Stretch(SubSeq(s, 1, n), a, stream) /\ Len(SubSeq(s, 1, n)) = n
           /\ Stretch(SubSeq(s, n + 1, Len(s)), a + n, stream)
           /\ Len(SubSeq(s, n + 1, Len(s))) = Len(s) - n
  <1>1. PICK S : s \in Seq(S)
    BY DEF Stretch, IsSeq
  <1>2. n \in Nat /\ Len(s) \in Nat /\ 0 \in 0 .. Len(s) /\ n \in 0 .. Len(s) /\ Len(s) \in n .. Len(s)
    BY <1>1
  <1> DEFINE l == Len(s)
             u == Part(s, 0, n)
             v == Part(s, n, l)
  <1>3. u \in Seq(S) /\ Len(u) = n - 0 /\ \A i \in 1 .. n - 0 : u[i] = s[0 + i]
    BY <1>1, <1>2, PartElements
  <1>4. v \in Seq(S) /\ Len(v) = l - n /\ \A i \in 1 .. l - n : v[i] = s[n + i]
    BY <1>1, <1>2, PartElements
  <1>5. u = SubSeq(s, 1, n) /\ v = SubSeq(s, n + 1, Len(s))
    BY DEF Part
  <1>6. \A i \in 1 .. l : s[i] = stream[a + i]
    BY DEF Stretch
  <1> HIDE DEF l, u, v
  <1>7. Len(u) = n /\ \A i \in 1 .. n : u[i] = stream[a + i]
    <2>1. \A i \in 1 .. n : i \in 1 .. n - 0 /\ 0 + i = i /\ i \in 1 .. l
      BY <1>2 DEF l
    <2> QED
      BY <1>2, <1>3, <1>6, <2>1
  <1>8. \A i \in 1 .. l - n : v[i] = stream[(a + n) + i]
    <2>1. \A i \in 1 .. l - n : n + i \in 1 .. l /\ a + (n + i) = (a + n) + i
      BY <1>2 DEF l
    <2> QED
      BY <1>4, <1>6, <2>1
  <1>9. Stretch(u, a, stream) /\ Stretch(v, a + n, stream)
    BY <1>3, <1>4, <1>7, <1>8 DEF Stretch, IsSeq
  <1> QED
    BY <1>4, <1>5, <1>7, <1>9 DEF l

(* ... and put together again; an empty one is anywhere. *)
LEMMA StretchesJoin ==
    ASSUME NEW s, NEW t, NEW a \in Nat, NEW stream,
           Stretch(s, a, stream), Stretch(t, a + Len(s), stream)
    PROVE  Stretch(s \o t, a, stream) /\ Len(s \o t) = Len(s) + Len(t)
  <1>1. PICK S : s \in Seq(S) /\ t \in Seq(S) /\ s \o t \in Seq(S)
    BY ConcatIsSeq DEF Stretch
  <1>2. /\ Len(s \o t) = Len(s) + Len(t)
        /\ \A i \in 1 .. Len(s) + Len(t) : (s \o t)[i] = IF i <= Len(s) THEN s[i] ELSE t[i - Len(s)]
    BY <1>1, ConcatProperties
  <1>3. ASSUME NEW i \in 1 .. Len(s) + Len(t) PROVE (s \o t)[i] = stream[a + i]
    <2>0. Len(s) \in Nat /\ Len(t) \in Nat
      BY <1>1
    <2>1. CASE i <= Len(s)
      <3>1. i \in 1 .. Len(s)
        BY <2>0, <2>1
      <3> QED
        BY <1>2, <2>1, <3>1 DEF Stretch
    <2>2. CASE ~(i <= Len(s))
      <3>1. i - Len(s) \in 1 .. Len(t) /\ (a + Len(s)) + (i - Len(s)) = a + i
        BY <2>0, <2>2
      <3>2. t[i - Len(s)] = stream[(a + Len(s)) + (i - Len(s))]
        BY <3>1 DEF Stretch
      <3> QED
        BY <1>2, <2>2, <3>1, <3>2
    <2> QED
      BY <2>1, <2>2
  <1> QED
    BY <1>1, <1>2, <1>3 DEF Stretch, IsSeq

LEMMA NoStretch == \A a, stream : Stretch(<<>>, a, stream)
  <1>1. IsSeq(<<>>)
    <2>1. <<>> \in Seq({})
      OBVIOUS
    <2> QED
      BY <2>1 DEF IsSeq
  <1>2. Len(<<>>) = 0
    OBVIOUS
  <1> QED
    BY <1>1, <1>2 DEF Stretch

(* A stretch is known by where it begins and its length. *)
LEMMA SameStretch ==
    ASSUME NEW s, NEW t, NEW a \in Nat, NEW stream,
           Stretch(s, a, stream), Stretch(t, a, stream), Len(s) = Len(t)
    PROVE  s = t
  <1>1. PICK S : s \in Seq(S) /\ t \in Seq(S)
    BY ConcatIsSeq DEF Stretch
  <1>2. \A i \in 1 .. Len(s) : s[i] = t[i]
    BY DEF Stretch
  <1> QED
    BY <1>1, <1>2, SeqEqual

(* A part of a query, and an answer, are where their frame is.             *)
LEMMA QueryStretch ==
    ASSUME NEW j \in Nat, NEW a \in 0 .. 5, NEW b \in a .. 5
    PROVE  /\ Stretch(Part(Query(Number(j + 1)), a, b), 5 * j + a, Upstream)
           /\ Len(Part(Query(Number(j + 1)), a, b)) = b - a
  <1> DEFINE Q == Query(Number(j + 1))
             p == Part(Q, a, b)
  <1>1. PICK S : Q \in Seq(S) /\ Len(Q) = 5
    BY Frames
  <1>2. \A i \in 1 .. 5 : Upstream[5 * j + i] = Q[i]
    BY UpstreamAt
  <1> HIDE DEF Q
  <1>3. a \in 0 .. Len(Q) /\ b \in a .. Len(Q)
    BY <1>1
  <1>4. p \in Seq(S) /\ Len(p) = b - a /\ \A i \in 1 .. b - a : p[i] = Q[a + i]
    BY <1>1, <1>3, PartElements
  <1> HIDE DEF p
  <1>5. \A i \in 1 .. b - a : a + i \in 1 .. 5 /\ 5 * j + (a + i) = (5 * j + a) + i
    OBVIOUS
  <1>6. \A i \in 1 .. b - a : p[i] = Upstream[(5 * j + a) + i]
    BY <1>2, <1>4, <1>5
  <1> QED
    BY <1>4, <1>6 DEF Stretch, IsSeq, p, Q

LEMMA AnswerStretch ==
    ASSUME NEW j \in Nat
    PROVE  Stretch(Answer(Number(j + 1)), 7 * j, Downstream) /\ Len(Answer(Number(j + 1))) = 7
  <1> DEFINE A == Answer(Number(j + 1))
  <1>1. PICK S : A \in Seq(S) /\ Len(A) = 7
    BY Frames
  <1>2. \A i \in 1 .. 7 : Downstream[7 * j + i] = A[i]
    BY DownstreamAt
  <1> HIDE DEF A
  <1> QED
    BY <1>1, <1>2 DEF Stretch, IsSeq, A

(* Nothing in the answers looks like the header of one, but their headers. *)
LEMMA HeadersAlign ==
    ASSUME NEW q \in Nat, NEW n, Downstream[q + 1] = Marker, Downstream[q + 2] = Response,
           Downstream[q + 3] = n, Downstream[q + 4] = 2
    PROVE  \E j \in Nat : q = 7 * j /\ Number(j + 1) = n
  <1>1. PICK j \in Nat, e \in 0 .. 6 : q = 7 * j + e
    <2>1. q \div 7 \in Nat /\ q % 7 \in 0 .. 6 /\ q = 7 * (q \div 7) + (q % 7)
      OBVIOUS
    <2> QED
      BY <2>1
  <1> DEFINE A == Answer(Number(j + 1))
             B == Answer(Number((j + 1) + 1))
  <1>2. \A i \in 1 .. 7 : Downstream[7 * j + i] = A[i] /\ Downstream[7 * (j + 1) + i] = B[i]
    BY DownstreamAt
  <1>3. A[1] = 90 /\ A[2] = 128 /\ A[3] = Number(j + 1) /\ A[4] = 2
    BY DEF Answer, Marker, Response
  <1>4. B[1] = 90 /\ B[2] = 128 /\ B[4] = 2
    BY DEF Answer, Marker, Response
  <1> HIDE DEF A, B
  <1>5. Downstream[q + 1] = 90 /\ Downstream[q + 2] = 128 /\ Downstream[q + 4] = 2
    BY DEF Marker, Response
  <1>6. CASE e = 0
    <2>1. q = 7 * j /\ 7 * j + 3 = q + 3
      BY <1>1, <1>6
    <2> QED
      BY <1>2, <1>3, <2>1
  <1>7. CASE e = 1
    <2>1. q + 1 = 7 * j + 2
      BY <1>1, <1>7
    <2> QED
      BY <1>2, <1>3, <1>5, <2>1
  <1>8. CASE e = 2
    <2>1. q + 2 = 7 * j + 4
      BY <1>1, <1>8
    <2> QED
      BY <1>2, <1>3, <1>5, <2>1
  <1>9. CASE e = 3
    <2>1. q + 1 = 7 * j + 4
      BY <1>1, <1>9
    <2> QED
      BY <1>2, <1>3, <1>5, <2>1
  <1>10. CASE e = 4
    <2>1. q + 4 = 7 * (j + 1) + 1
      BY <1>1, <1>10
    <2> QED
      BY <1>2, <1>4, <1>5, <2>1
  <1>11. CASE e = 5
    <2>1. q + 4 = 7 * (j + 1) + 2
      BY <1>1, <1>11
    <2> QED
      BY <1>2, <1>4, <1>5, <2>1
  <1>12. CASE e = 6
    <2>1. q + 2 = 7 * (j + 1) + 1
      BY <1>1, <1>12
    <2> QED
      BY <1>2, <1>4, <1>5, <2>1
  <1> QED
    BY <1>1, <1>6, <1>7, <1>8, <1>9, <1>10, <1>11, <1>12

(* Some of the positions of a sequence have a smallest one. *)
LEMMA MinOfPositions ==
    ASSUME NEW n \in Nat, NEW I \in SUBSET (1 .. n), I # {}
    PROVE  Min(I) \in I
  <1>1. I \in SUBSET Nat
    OBVIOUS
  <1>2. \E x \in I : \A y \in I : x <= y
    <2>1. PICK x \in I : \A y \in I : <<y, x>> \notin OpToRel(<, Nat)
      BY <1>1, NatLessThanWellFounded, WFMin
    <2>2. \A y \in I : ~(y < x)
      BY <1>1, <2>1 DEF OpToRel
    <2> QED
      BY <1>1, <2>2
  <1> QED
    BY <1>2 DEF Min

(* A call that succeeds has read the header of an answer with its number,  *)
(* and has three symbols or more behind it.                                *)
LEMMA HeaderInside ==
    ASSUME NEW c, c.type = "QueryVersion", IsSeq(c.got), Client!Result(c) = "Ok"
    PROVE  \E p \in 0 .. Len(c.got) - 7 :
              /\ c.got[p + 1] = Marker /\ c.got[p + 2] = Response
              /\ c.got[p + 3] = c.number /\ c.got[p + 4] = 2
  <1> DEFINE bytes == c.got
             r     == ReadFrame(bytes)
             I     == {i \in 1 .. Len(bytes) : bytes[i] = Marker}
             at    == IF I # {} THEN Min(I) ELSE 0
             rest  == SubSeq(bytes, at + 1, Len(bytes))
             h     == HeaderOf(rest)
             tail  == SubSeq(bytes, at - 1 + HeaderSize + 1, Len(bytes))
  <1>1. PICK S : bytes \in Seq(S)
    BY DEF IsSeq
  <1>2. r.result = "Ok" /\ LengthOk(r.frame) /\ Client!Answers(r.frame, c)
    <2> HIDE DEF r
    <2>1. Client!ReadFrame(bytes) = r
      BY SameFrames DEF r
    <2>2. Client!LengthOk(r.frame) <=> LengthOk(r.frame)
      BY SameFrames
    <2> QED
      BY <2>1, <2>2 DEF Client!Result
  <1>3. ReadHeader(bytes) =
           IF at = 0 THEN [result |-> "NoFrameMarker", offset |-> Len(bytes)]
           ELSE IF Len(rest) < HeaderSize - 1 THEN [result |-> "InsufficientLength", offset |-> at - 1]
           ELSE IF TypesOf(rest[1]) = {} THEN [result |-> "InvalidFrameType", offset |-> at - 1]
           ELSE [result |-> "Ok", offset |-> at - 1 + HeaderSize, header |-> h]
    BY DEF ReadHeader, SelectInSeq
  <1>4. ReadHeader(bytes).result = "Ok"
    <2> DEFINE rh == ReadHeader(bytes)
    <2>1. r = IF rh.result # "Ok" THEN [result |-> rh.result, frame |-> NoFrame]
              ELSE ReadFramePayload(rh.header, SubSeq(bytes, rh.offset + 1, Len(bytes)))
      BY DEF ReadFrame
    <2> HIDE DEF r, rh
    <2>2. CASE rh.result # "Ok"
      <3>1. r = [result |-> rh.result, frame |-> NoFrame]
        BY <2>1, <2>2
      <3> QED
        BY <1>2, <2>2, <3>1
    <2> QED
      BY <2>2 DEF rh
  <1>5. /\ at # 0 /\ ~(Len(rest) < HeaderSize - 1) /\ TypesOf(rest[1]) # {}
        /\ ReadHeader(bytes).header = h /\ ReadHeader(bytes).offset = at - 1 + HeaderSize
    <2> HIDE DEF at, rest, h
    <2> QED
      BY <1>3, <1>4
  <1>6. at \in 1 .. Len(bytes) /\ bytes[at] = Marker
    <2>1. Len(bytes) \in Nat /\ I \in SUBSET (1 .. Len(bytes)) /\ I # {}
      BY <1>1, <1>5, SMTT(30)
    <2>2. at \in I
      <3>1. Min(I) \in I
        <4> HIDE DEF I
        <4> QED
          BY <2>1, MinOfPositions
      <3> QED
        BY <2>1, <3>1
    <2> HIDE DEF at
    <2> QED
      BY <2>2
  <1> HIDE DEF at
  <1>7. rest \in Seq(S) /\ Len(rest) = Len(bytes) - at /\ \A i \in 1 .. Len(bytes) - at : rest[i] = bytes[at + i]
    <2>1. Len(bytes) \in Nat /\ at \in 0 .. Len(bytes) /\ Len(bytes) \in at .. Len(bytes)
      BY <1>1, <1>6
    <2> DEFINE l == Len(bytes)
    <2>2. /\ Part(bytes, at, l) \in Seq(S) /\ Len(Part(bytes, at, l)) = l - at
          /\ \A i \in 1 .. l - at : Part(bytes, at, l)[i] = bytes[at + i]
      BY <1>1, <2>1, PartElements, ZenonT(60)
    <2> QED
      BY <2>2 DEF Part
  <1> HIDE DEF rest
  <1>8. r = ReadFramePayload(h, tail)
    <2> HIDE DEF h
    <2> QED
      BY <1>4, <1>5 DEF ReadFrame
  <1>9. ~(Len(tail) < h.length + CrcSize) /\ r.frame.header = h
    <2> HIDE DEF h, tail
    <2>1. r = IF Len(tail) < h.length + CrcSize
              THEN [result |-> "InsufficientLength", frame |-> NoFrame]
              ELSE IF tail[h.length + 1] # Crc(h, SubSeq(tail, 1, h.length))
              THEN [result |-> "CrcMismatch", frame |-> NoFrame]
              ELSE [result |-> "Ok", frame |-> [header |-> h, payload |-> SubSeq(tail, 1, h.length)]]
      BY <1>8 DEF ReadFramePayload
    <2> HIDE DEF r
    <2> QED
      BY <1>2, <2>1
  <1>10. h.number = c.number /\ h.response /\ h.type = "QueryVersion" /\ h.length = 2
    <2> HIDE DEF h, r
    <2>1. h.number = c.number /\ h.response /\ h.type = "QueryVersion"
      BY <1>2, <1>9 DEF Client!Answers
    <2>2. LengthOk(r.frame) <=> h.length = 2
      BY <1>9, <2>1 DEF LengthOk
    <2> QED
      BY <1>2, <2>1, <2>2
  <1>11. rest[1] = Response /\ rest[2] = c.number /\ rest[3] = 2
    <2>1. "QueryVersion" \in TypesOf(rest[1])
      <3>1. (CHOOSE t \in TypesOf(rest[1]) : TRUE) \in TypesOf(rest[1])
        BY <1>5
      <3>2. (CHOOSE t \in TypesOf(rest[1]) : TRUE) = "QueryVersion"
        BY <1>10 DEF HeaderOf
      <3> QED
        BY <3>1, <3>2
    <2>2. rest[1] = 0 \/ rest[1] = Response
      BY <2>1 DEF TypesOf, FrameType, Response
    <2>3. rest[1] # 0
      <3>1. h.response <=> (rest[1] >= Response)
        BY Zenon DEF HeaderOf
      <3>2. ~(0 >= Response)
        BY DEF Response
      <3> HIDE DEF h
      <3> QED
        BY <1>10, <3>1, <3>2
    <2> QED
      BY <1>10, <2>2, <2>3 DEF HeaderOf
  <1>12. Len(bytes) - at >= 6
    <2>1. Len(bytes) \in Nat /\ Len(rest) \in Nat /\ Len(bytes) - at >= 3
      BY <1>1, <1>5, <1>6, <1>7 DEF HeaderSize
    <2>2. at + 3 \in 0 .. Len(bytes) /\ Len(bytes) \in at + 3 .. Len(bytes)
      BY <1>6, <2>1
    <2> DEFINE l == Len(bytes)
               a == at + 3
    <2>3. Len(Part(bytes, a, l)) = l - a
      BY <1>1, <2>2, PartElements
    <2>4. tail = Part(bytes, a, l)
      <3>1. at - 1 + HeaderSize + 1 = a + 1
        BY <1>6 DEF HeaderSize
      <3> QED
        BY <3>1 DEF Part
    <2> HIDE DEF tail, h
    <2>5. Len(tail) >= 3
      BY <1>6, <1>9, <1>10, <2>1, <2>3, <2>4 DEF CrcSize
    <2> QED
      BY <1>6, <2>1, <2>3, <2>4, <2>5
  <1>13. bytes[at + 1] = Response /\ bytes[at + 2] = c.number /\ bytes[at + 3] = 2
    <2>1. 1 \in 1 .. Len(bytes) - at /\ 2 \in 1 .. Len(bytes) - at /\ 3 \in 1 .. Len(bytes) - at
      BY <1>1, <1>6, <1>12
    <2> QED
      BY <1>7, <1>11, <2>1
  <1> DEFINE p == at - 1
  <1>14. p \in 0 .. Len(bytes) - 7 /\ p + 1 = at /\ p + 2 = at + 1 /\ p + 3 = at + 2 /\ p + 4 = at + 3
    <2>1. Len(bytes) \in Nat
      BY <1>1
    <2> QED
      BY <1>6, <1>12, <2>1
  <1> HIDE DEF p
  <1>15. bytes[p + 1] = Marker /\ bytes[p + 2] = Response /\ bytes[p + 3] = c.number /\ bytes[p + 4] = 2
    BY <1>6, <1>13, <1>14
  <1> QED
    BY <1>14, <1>15, Zenon

(* Where the server is in what was sent to it, and what it has sent: m     *)
(* queries are answered, and k symbols of the next are read.               *)
ServerAt(m, k) ==
    /\ receiver = IF k = 4 THEN Payload(QueryHeader(Number(m + 1)), <<>>)
                  ELSE Header(Part(Query(Number(m + 1)), 0, k))
    /\ Stretch(line, 5 * m + k, Upstream) /\ 5 * m + k + Len(line) = 5 * calls
    /\ Stretch(down, taken, Downstream) /\ Stretch(pending, taken + Len(down), Downstream)
    /\ taken + Len(down) + Len(pending) = 7 * m

(* Where the client is: what a call has read is what it took last.         *)
ClientAt ==
    /\ call.mode # "Idle" => /\ call = Waiting(Number(calls), call.mode, call.got)
                             /\ outcome = "None" /\ Len(call.got) <= taken
                             /\ Stretch(call.got, taken - Len(call.got), Downstream)
    /\ outcome = "Ok" => taken = 7 * calls

OwnInv ==
    /\ calls \in Nat
    /\ calls <= Numbers => /\ taken \in Nat
                           /\ calls < Numbers => next = Number(calls + 1)
                           /\ \E m \in Nat : \E k \in 0 .. 4 : ServerAt(m, k)
                           /\ ClientAt

(* The lengths are numbers. *)
LEMMA ServerLengths ==
    ASSUME NEW m, NEW k, ServerAt(m, k)
    PROVE  Len(line) \in Nat /\ Len(down) \in Nat /\ Len(pending) \in Nat
  BY DEF ServerAt, Stretch, IsSeq

(* A call puts its query behind the others. *)
LEMMA CallOn ==
    ASSUME QueriesOnly, NEW r \in Requests, Call(r), OwnInv, calls' <= Numbers
    PROVE  OwnInv'
  <1>1. PICK c \in Nat : c = calls
    BY DEF OwnInv
  <1> DEFINE n == Number(c + 1)
             Q == Query(n)
  <1>2. Numbers \in Nat /\ Numbers > 1
    BY ToolAssumption
  <1>3. calls' = c + 1 /\ taken' = taken /\ receiver' = receiver /\ pending' = pending /\ down' = down
        /\ next' = (next + 1) % Numbers /\ outcome' = "None"
    BY <1>1 DEF Call, Client!Call, notClient
  <1>4. c < Numbers /\ calls <= Numbers /\ next = n /\ taken \in Nat
    BY <1>1, <1>2, <1>3 DEF OwnInv
  <1>5. call' = Waiting(n, "Header", <<>>) /\ line' = line \o Q
    <2>1. r.type = "QueryVersion" /\ r.payload = <<>>
      BY DEF QueriesOnly
    <2> QED
      BY <1>4, <2>1, QuerySent DEF Call, Client!Call, Waiting
  <1>6. PICK m \in Nat, k \in 0 .. 4 : ServerAt(m, k)
    BY <1>4 DEF OwnInv
  <1>7. Stretch(Q, 5 * c, Upstream) /\ Len(Q) = 5
    <2>1. Stretch(Part(Q, 0, 5), 5 * c + 0, Upstream) /\ Len(Part(Q, 0, 5)) = 5 - 0
      BY QueryStretch
    <2>2. Part(Q, 0, 5) = Q
      <3>1. PICK S : Q \in Seq(S) /\ Len(Q) = 5
        BY Frames
      <3>2. SubSeq(Q, 1, Len(Q)) = Q
        BY <3>1, SubSeqFull
      <3> QED
        BY <3>1, <3>2 DEF Part
    <2>3. 5 * c + 0 = 5 * c
      OBVIOUS
    <2> HIDE DEF Q
    <2> QED
      BY <2>1, <2>2, <2>3
  <1> HIDE DEF Q, n
  <1>8. Stretch(line', 5 * m + k, Upstream) /\ Len(line') = Len(line) + 5
    <2>1. Stretch(line, 5 * m + k, Upstream) /\ 5 * m + k + Len(line) = 5 * c /\ 5 * m + k \in Nat
      BY <1>1, <1>6 DEF ServerAt
    <2>2. Stretch(line \o Q, 5 * m + k, Upstream) /\ Len(line \o Q) = Len(line) + Len(Q)
      BY <1>7, <2>1, StretchesJoin
    <2> QED
      BY <1>5, <1>7, <2>2
  <1>9. ServerAt(m, k)'
    <2>1. 5 * m + k + Len(line') = 5 * calls'
      <3>1. 5 * m + k + Len(line) = 5 * c /\ Len(line) \in Nat
        BY <1>1, <1>6, ServerLengths DEF ServerAt
      <3>2. 5 * m + k + (Len(line) + 5) = 5 * (c + 1)
        BY <3>1
      <3> QED
        BY <1>3, <1>8, <3>2
    <2> QED
      BY <1>3, <1>6, <1>8, <2>1 DEF ServerAt
  <1>10. ClientAt'
    <2>1. call'.got = <<>> /\ call' = Waiting(Number(calls'), call'.mode, call'.got)
      BY <1>3, <1>5 DEF Waiting, n
    <2>2. Len(<<>>) = 0 /\ Stretch(<<>>, taken' - 0, Downstream)
      BY NoStretch
    <2>3. Len(call'.got) <= taken' /\ Stretch(call'.got, taken' - Len(call'.got), Downstream)
      BY <1>3, <1>4, <2>1, <2>2
    <2> QED
      BY <1>3, <2>1, <2>3 DEF ClientAt
  <1>11. ASSUME c + 1 < Numbers PROVE next' = Number((c + 1) + 1)
    <2>1. next = c + 1 /\ c + 2 <= Numbers
      BY <1>2, <1>4, <1>11 DEF Number, n
    <2>2. (c + 2) % Numbers = IF c + 2 = Numbers THEN 0 ELSE c + 2
      BY <1>2, <2>1
    <2> QED
      BY <1>3, <2>1, <2>2 DEF Number
  <1> QED
    BY <1>3, <1>4, <1>9, <1>10, <1>11 DEF OwnInv

(* A read of the client, in the end the one that completes a frame.        *)
LEMMA ReadOwn ==
    ASSUME ClientReceive, OwnInv, calls' <= Numbers
    PROVE  OwnInv'
  <1>0. PICK t : t = taken
    OBVIOUS
  <1>1. PICK c \in Nat : c = calls /\ t = taken
    BY <1>0 DEF OwnInv
  <1>2. PICK n \in 1 .. Len(down) : Client!Receive(n) /\ taken' = t + n
    BY <1>1 DEF ClientReceive
  <1>3. /\ calls' = c /\ receiver' = receiver /\ pending' = pending
        /\ line' = line /\ next' = next /\ down' = SubSeq(down, n + 1, Len(down))
    BY <1>1, <1>2 DEF ClientReceive, notClient, Client!Receive
  <1>4. /\ c <= Numbers /\ t \in Nat /\ (c < Numbers => next = Number(c + 1)) /\ ClientAt
        /\ \E m \in Nat : \E k \in 0 .. 4 : ServerAt(m, k)
    BY <1>1, <1>3 DEF OwnInv
  <1>5. PICK m \in Nat, k \in 0 .. 4 : ServerAt(m, k)
    BY <1>4
  <1> DEFINE d     == Len(down)
             chunk == SubSeq(down, 1, n)
             rest  == SubSeq(down, n + 1, Len(down))
  <1>6. d \in Nat /\ Len(pending) \in Nat /\ Len(line) \in Nat /\ n \in 1 .. d
    BY <1>2, <1>5, ServerLengths
  <1>7. Stretch(chunk, t, Downstream) /\ Len(chunk) = n /\ Stretch(rest, t + n, Downstream) /\ Len(rest) = d - n
    <2>1. Stretch(down, t, Downstream)
      BY <1>1, <1>5 DEF ServerAt
    <2>2. n \in 0 .. Len(down)
      BY <1>6
    <2> QED
      BY <1>4, <2>1, <2>2, StretchParts
  <1>8. t + d + Len(pending) = 7 * m /\ 5 * m + k + Len(line) = 5 * c /\ Stretch(pending, t + d, Downstream)
    BY <1>1, <1>5 DEF ServerAt
  <1> HIDE DEF rest, chunk
  <1>9. ServerAt(m, k)'
    <2>1. (t + n) + (d - n) = t + d
      BY <1>4, <1>6
    <2>2. taken' + Len(down') = t + d
      BY <1>2, <1>3, <1>7, <2>1 DEF rest
    <2>3. Stretch(down', taken', Downstream) /\ Stretch(pending', taken' + Len(down'), Downstream)
      BY <1>2, <1>3, <1>7, <1>8, <2>2 DEF rest
    <2>4. taken' + Len(down') + Len(pending') = 7 * m
      BY <1>3, <1>8, <2>2
    <2> QED
      BY <1>1, <1>3, <1>5, <2>3, <2>4 DEF ServerAt
  <1>10. call.mode # "Idle" /\ call = Waiting(Number(c), call.mode, call.got) /\ outcome = "None"
         /\ Len(call.got) <= t /\ Stretch(call.got, t - Len(call.got), Downstream)
    BY <1>1, <1>2, <1>4 DEF ClientAt, Client!Receive
  <1> DEFINE got == call.got \o chunk
             w   == Waiting(Number(c), call.mode, got)
             a   == t - Len(call.got)
  <1>11. a \in Nat /\ Stretch(got, a, Downstream) /\ Len(got) <= t + n /\ (t + n) - Len(got) = a /\ Len(got) \in Nat
    <2>1. Len(call.got) \in Nat
      BY <1>10 DEF Stretch, IsSeq
    <2>2. a \in Nat /\ a + Len(call.got) = t
      BY <1>4, <1>10, <2>1
    <2>3. Stretch(call.got, a, Downstream) /\ Stretch(chunk, a + Len(call.got), Downstream)
      BY <1>7, <1>10, <2>2
    <2> HIDE DEF a
    <2>4. Stretch(got, a, Downstream) /\ Len(got) = Len(call.got) + Len(chunk)
      BY <2>2, <2>3, StretchesJoin
    <2> HIDE DEF got
    <2> QED
      BY <1>6, <1>7, <2>1, <2>2, <2>4
  <1>12. [call EXCEPT !.got = @ \o SubSeq(down, 1, n)] = w
    <2>1. \A mode, g, x : [Waiting(Number(c), mode, g) EXCEPT !.got = x] = Waiting(Number(c), mode, x)
      BY DEF Waiting
    <2>2. [call EXCEPT !.got = @ \o SubSeq(down, 1, n)] = [call EXCEPT !.got = got]
      BY DEF chunk
    <2> HIDE DEF got
    <2>3. PICK mode, g : mode = call.mode /\ g = call.got
      OBVIOUS
    <2>4. [call EXCEPT !.got = got] = Waiting(Number(c), mode, got)
      BY <1>10, <2>1, <2>3
    <2> QED
      BY <2>2, <2>3, <2>4
  <1> HIDE DEF got, w, a
  <1>13. /\ w = Waiting(Number(c), w.mode, w.got) /\ w.got = got
         /\ w.type = "QueryVersion" /\ w.number = Number(c) /\ w.mode = call.mode
    BY DEF w, Waiting
  <1>14. \/ call' = w /\ outcome' = outcome
         \/ Client!HeaderRead(w)
         \/ Client!Return(Client!Result(w))
    BY <1>2, <1>12 DEF Client!Receive
  <1>15. taken' - Len(got) = a /\ Len(got) <= taken'
    BY <1>2, <1>11
  <1>16. ASSUME NEW mode, call' = Waiting(Number(c), mode, got), outcome' = outcome PROVE ClientAt'
    <2>1. call'.got = got /\ call' = Waiting(Number(c), call'.mode, call'.got)
      BY <1>16 DEF Waiting
    <2> QED
      BY <1>3, <1>10, <1>11, <1>15, <1>16, <2>1 DEF ClientAt
  <1>17. ASSUME Client!Result(w) = "Ok" PROVE t + n = 7 * c
    <2>1. IsSeq(w.got)
      BY <1>11, <1>13 DEF Stretch
    <2>2. PICK p \in 0 .. Len(got) - 7 :
             /\ got[p + 1] = Marker /\ got[p + 2] = Response
             /\ got[p + 3] = Number(c) /\ got[p + 4] = 2
      BY <1>13, <1>17, <2>1, HeaderInside
    <2> DEFINE q == a + p
    <2>3. q \in Nat /\ p \in Nat /\ q + 7 <= t + n
      BY <1>4, <1>6, <1>11
    <2>4. \A i \in 1 .. 4 : p + i \in 1 .. Len(got) /\ a + (p + i) = q + i
      BY <1>11
    <2>5. \A i \in 1 .. 4 : got[p + i] = Downstream[q + i]
      <3> HIDE DEF q
      <3> QED
        BY <1>11, <2>4 DEF Stretch
    <2> HIDE DEF q
    <2>6. /\ Downstream[q + 1] = Marker /\ Downstream[q + 2] = Response
          /\ Downstream[q + 3] = Number(c) /\ Downstream[q + 4] = 2
      BY <2>2, <2>5
    <2>7. PICK j \in Nat : q = 7 * j /\ Number(j + 1) = Number(c)
      BY <2>3, <2>6, HeadersAlign
    <2>8. t + n <= 7 * c
      BY <1>4, <1>6, <1>8
    <2>9. j + 1 <= c
      BY <2>3, <2>7, <2>8, <1>4, <1>6
    <2>10. j + 1 = c
      BY <1>4, <2>7, <2>9, ToolAssumption DEF Number
    <2> QED
      BY <1>4, <1>6, <2>3, <2>7, <2>8, <2>10
  <1>18. ASSUME NEW result, Client!Return(result), result = "Ok" => t + n = 7 * c PROVE ClientAt'
    <2>1. call'.mode = "Idle" /\ outcome' = result
      BY <1>18 DEF Client!Return, Client!NoCall
    <2> QED
      BY <1>2, <1>3, <1>18, <2>1 DEF ClientAt
  <1>19. ClientAt'
    <2>1. CASE call' = w /\ outcome' = outcome
      BY <1>16, <2>1 DEF w
    <2>2. CASE Client!HeaderRead(w)
      <3>1. CASE Client!Return("Err")
        BY <1>18, <3>1
      <3>2. CASE call' = [w EXCEPT !.mode = "Payload"] /\ outcome' = outcome
        <4>1. [w EXCEPT !.mode = "Payload"] = Waiting(Number(c), "Payload", got)
          BY DEF w, Waiting
        <4> QED
          BY <1>16, <3>2, <4>1
      <3> QED
        BY <2>2, <3>1, <3>2 DEF Client!HeaderRead
    <2>3. CASE Client!Return(Client!Result(w))
      <3>1. PICK x : x = Client!Result(w)
        OBVIOUS
      <3> QED
        BY <1>17, <1>18, <2>3, <3>1
    <2> QED
      BY <1>14, <2>1, <2>2, <2>3
  <1>20. taken' \in Nat
    BY <1>2, <1>4, <1>6
  <1> QED
    BY <1>1, <1>3, <1>4, <1>9, <1>19, <1>20 DEF OwnInv

(* All that is pending is written, and the rest is pending then.           *)
LEMMA Flushed ==
    ASSUME NEW m, NEW k, NEW rest, ServerAt(m, k), taken \in Nat, Flush(rest)
    PROVE  Stretch(down', taken, Downstream) /\ taken + Len(down') = 7 * m /\ pending' = rest
  <1>1. down' = down \o pending /\ pending' = rest
    BY DEF Flush
  <1>2. Stretch(down, taken, Downstream) /\ Stretch(pending, taken + Len(down), Downstream)
        /\ taken + Len(down) + Len(pending) = 7 * m
    BY DEF ServerAt
  <1>3. Stretch(down \o pending, taken, Downstream) /\ Len(down \o pending) = Len(down) + Len(pending)
    BY <1>2, StretchesJoin
  <1>4. Len(down) \in Nat /\ Len(pending) \in Nat
    BY ServerLengths
  <1>5. taken + (Len(down) + Len(pending)) = 7 * m
    BY <1>2, <1>4
  <1> QED
    BY <1>1, <1>3, <1>5

(* The server writes, and reads nothing. *)
LEMMA WriteOwn ==
    ASSUME NEW m \in Nat, NEW k \in 0 .. 4, ServerAt(m, k), taken \in Nat, Serve,
           Idle \/ \E i \in 1 .. Len(pending) - 1 : WritePending(i)
    PROVE  ServerAt(m, k)'
  <1>1. receiver' = receiver /\ line' = line /\ calls' = calls /\ taken' = taken
    BY DEF Serve, clientState, Idle, WritePending
  <1>2. CASE Idle
    <2>1. Stretch(down', taken, Downstream) /\ taken + Len(down') = 7 * m /\ pending' = <<>>
      BY <1>2, Flushed DEF Idle
    <2>2. Stretch(pending', taken + Len(down'), Downstream) /\ Len(pending') = 0
      BY <2>1, NoStretch
    <2>3. taken + Len(down') + 0 = 7 * m
      BY <2>1
    <2> QED
      BY <1>1, <2>1, <2>2, <2>3 DEF ServerAt
  <1>3. ASSUME NEW i \in 1 .. Len(pending) - 1, WritePending(i) PROVE ServerAt(m, k)'
    <2> DEFINE d == Len(down)
               p == Len(pending)
               u == SubSeq(pending, 1, i)
               v == SubSeq(pending, i + 1, Len(pending))
    <2>1. down' = down \o u /\ pending' = v
      BY <1>3 DEF WritePending
    <2>2. d \in Nat /\ p \in Nat /\ i \in 0 .. Len(pending)
      BY ServerLengths
    <2>3. Stretch(down, taken, Downstream) /\ Stretch(pending, taken + d, Downstream)
          /\ taken + d + p = 7 * m
      BY DEF ServerAt
    <2>4. Stretch(u, taken + d, Downstream) /\ Len(u) = i
          /\ Stretch(v, (taken + d) + i, Downstream) /\ Len(v) = p - i
      <3>1. taken + d \in Nat
        BY <2>2
      <3> QED
        BY <2>2, <2>3, <3>1, StretchParts
    <2> HIDE DEF u, v
    <2>5. Stretch(down \o u, taken, Downstream) /\ Len(down \o u) = d + i
      BY <2>3, <2>4, StretchesJoin
    <2>6. taken + (d + i) = (taken + d) + i /\ taken + (d + i) + (p - i) = 7 * m
      BY <2>2, <2>3
    <2>7. Len(down') = d + i /\ Len(pending') = p - i
      BY <2>1, <2>4, <2>5
    <2> HIDE DEF d, p
    <2>8. Stretch(down', taken, Downstream) /\ Stretch(pending', taken + Len(down'), Downstream)
          /\ taken + Len(down') + Len(pending') = 7 * m
      BY <2>1, <2>4, <2>5, <2>6, <2>7
    <2> QED
      BY <1>1, <2>8 DEF ServerAt
  <1> QED
    BY <1>2, <1>3

(* What a read takes and leaves. *)
LEMMA ReadOfQuery ==
    ASSUME NEW m \in Nat, NEW k \in 0 .. 4, ServerAt(m, k), calls \in Nat,
           NEW n \in 1 .. 4, Receive(n), k + n <= 5
    PROVE  /\ SubSeq(line, 1, n) = Part(Query(Number(m + 1)), k, k + n)
           /\ Stretch(line', 5 * m + (k + n), Upstream) /\ 5 * m + (k + n) + Len(line') = 5 * calls
  <1> DEFINE a == 5 * m + k
             chunk == SubSeq(line, 1, n)
             q == Part(Query(Number(m + 1)), k, k + n)
  <1>1. line' = SubSeq(line, n + 1, Len(line)) /\ n <= Len(line)
    BY DEF Receive
  <1>2. Stretch(line, a, Upstream) /\ a + Len(line) = 5 * calls /\ a \in Nat
    BY DEF ServerAt
  <1>3. Len(line) \in Nat /\ n \in 0 .. Len(line)
    BY <1>1, ServerLengths
  <1> HIDE DEF a
  <1>4. Stretch(chunk, a, Upstream) /\ Len(chunk) = n
        /\ Stretch(SubSeq(line, n + 1, Len(line)), a + n, Upstream)
        /\ Len(SubSeq(line, n + 1, Len(line))) = Len(line) - n
    BY <1>2, <1>3, StretchParts
  <1>5. Stretch(q, 5 * m + k, Upstream) /\ Len(q) = (k + n) - k
    <2>1. k \in 0 .. 5 /\ k + n \in k .. 5
      OBVIOUS
    <2> QED
      BY <2>1, QueryStretch
  <1> HIDE DEF q, chunk
  <1>6. chunk = q
    <2>1. Len(q) = n
      BY <1>5
    <2> QED
      BY <1>2, <1>4, <1>5, <2>1, SameStretch DEF a
  <1>7. a + n = 5 * m + (k + n)
    BY DEF a
  <1>8. (a + n) + (Len(line) - n) = 5 * calls
    BY <1>2, <1>3
  <1> QED
    BY <1>1, <1>4, <1>6, <1>7, <1>8 DEF q, chunk

(* The server reads of a query's header. *)
LEMMA HeaderOwn ==
    ASSUME NEW m \in Nat, NEW k \in 0 .. 3, ServerAt(m, k), taken \in Nat, calls \in Nat, Serve,
           NEW n \in 1 .. BufferSize, ReadSome(n)
    PROVE  \E k1 \in 0 .. 4 : ServerAt(m, k1)'
  <1> DEFINE Q == Query(Number(m + 1))
  <1>1. PICK S : Q \in Seq(S) /\ Len(Q) = 5
    BY Frames
  <1>2. receiver = Header(Part(Q, 0, k)) /\ calls' = calls /\ taken' = taken
    BY DEF ServerAt, Serve, clientState
  <1>3. HeaderRead(Part(Q, 0, 4)) = Payload(QueryHeader(Number(m + 1)), <<>>)
    BY QueryRead
  <1>4. Receive(n)
    BY DEF ReadSome
  <1> HIDE DEF Q
  <1>5. k \in 0 .. Len(Q) /\ Part(Q, 0, k) \in Seq(S) /\ Len(Part(Q, 0, k)) = k
    <2>1. 0 \in 0 .. Len(Q) /\ k \in 0 .. Len(Q)
      BY <1>1
    <2>2. Part(Q, 0, k) \in Seq(S) /\ Len(Part(Q, 0, k)) = k - 0
      BY <1>1, <2>1, PartElements
    <2> QED
      BY <2>1, <2>2
  <1>6. n \in 1 .. 4 - k
    <2>1. n \in 1 .. Wanted(receiver)
      BY <1>4 DEF Receive
    <2>2. receiver.mode = "Header" /\ receiver.got = Part(Q, 0, k)
      BY <1>2 DEF Header
    <2>3. Wanted(receiver) = 4 - k
      BY <1>5, <2>2 DEF Wanted, HeaderSize
    <2> QED
      BY <2>1, <2>3
  <1> DEFINE chunk == SubSeq(line, 1, n)
             r     == Received(receiver, chunk)
  <1>7. chunk = Part(Q, k, k + n) /\ Stretch(line', 5 * m + (k + n), Upstream)
        /\ 5 * m + (k + n) + Len(line') = 5 * calls
    <2>1. n \in 1 .. 4 /\ k + n <= 5 /\ k \in 0 .. 4
      BY <1>6
    <2> QED
      BY <1>4, <2>1, ReadOfQuery DEF Q
  <1>8. Len(chunk) = n /\ Part(Q, 0, k) \o chunk = Part(Q, 0, k + n)
    <2>1. k + n \in k .. Len(Q) /\ 0 \in 0 .. Len(Q) /\ k \in 0 .. Len(Q)
      BY <1>1, <1>6
    <2>2. Len(Part(Q, k, k + n)) = (k + n) - k
      BY <1>1, <2>1, PartElements
    <2>3. Part(Q, 0, k) \o Part(Q, k, k + n) = Part(Q, 0, k + n)
      BY <1>1, <2>1, PartsJoin
    <2> HIDE DEF chunk
    <2> QED
      BY <1>6, <1>7, <2>2, <2>3
  <1>9. r = None(IF k + n = 4 THEN HeaderRead(Part(Q, 0, k + n)) ELSE Header(Part(Q, 0, k + n)))
    <2>1. receiver.mode = "Header" /\ receiver.got = Part(Q, 0, k)
      BY <1>2 DEF Header
    <2> HIDE DEF chunk
    <2>2. Offset(receiver) + Len(chunk) = k + n
      BY <1>5, <1>8, <2>1 DEF Offset
    <2> QED
      BY <1>8, <2>1, <2>2 DEF Received, HeaderSize
  <1>10. ~Accepted(r) /\ r.receiver = IF k + n = 4 THEN HeaderRead(Part(Q, 0, k + n))
                                      ELSE Header(Part(Q, 0, k + n))
    <2> HIDE DEF r
    <2> QED
      BY <1>9 DEF None, Accepted
  <1>11. receiver' = r.receiver /\ Flush(<<>>)
    <2>1. ReadOn(r)
      BY <1>10 DEF ReadSome, Respond, Panic
    <2> QED
      BY <1>4, <2>1 DEF ReadOn, Receive
  <1> HIDE DEF r, chunk
  <1>12. Stretch(down', taken, Downstream) /\ taken + Len(down') = 7 * m /\ pending' = <<>>
    BY <1>11, Flushed
  <1>13. Stretch(pending', taken + Len(down'), Downstream) /\ Len(pending') = 0
    BY <1>12, NoStretch
  <1>14. taken + Len(down') + 0 = 7 * m
    BY <1>12
  <1>15. receiver' = IF k + n = 4 THEN Payload(QueryHeader(Number(m + 1)), <<>>)
                     ELSE Header(Part(Query(Number(m + 1)), 0, k + n))
    BY <1>3, <1>10, <1>11 DEF Q
  <1>16. k + n \in 0 .. 4
    BY <1>6
  <1>17. ServerAt(m, k + n)'
    BY <1>2, <1>7, <1>12, <1>13, <1>14, <1>15 DEF ServerAt
  <1> QED
    BY <1>16, <1>17

(* The server reads a query's checksum and answers. *)
LEMMA ChecksumOwn ==
    ASSUME NEW m \in Nat, ServerAt(m, 4), taken \in Nat, calls \in Nat, Serve,
           NEW n \in 1 .. BufferSize, ReadSome(n)
    PROVE  ServerAt(m + 1, 0)'
  <1> DEFINE Q == Query(Number(m + 1))
             A == Answer(Number(m + 1))
             h == QueryHeader(Number(m + 1))
             r == Received(receiver, SubSeq(line, 1, n))
  <1>1. receiver = Payload(h, <<>>) /\ calls' = calls /\ taken' = taken
    BY DEF ServerAt, Serve, clientState
  <1>2. n = 1
    <2>1. receiver.mode = "Payload" /\ receiver.header.length = 0 /\ Len(receiver.got) = 0
      BY <1>1 DEF Payload, QueryHeader
    <2>2. Wanted(receiver) = 1
      BY <2>1 DEF Wanted, CrcSize
    <2> QED
      BY <2>2 DEF ReadSome, Receive
  <1>3. Receive(1) /\ 1 \in 1 .. 4 /\ 4 + 1 = 5
    BY <1>2 DEF ReadSome
  <1>4. SubSeq(line, 1, n) = Part(Q, 4, 5) /\ Stretch(line', 5 * m + 5, Upstream)
        /\ 5 * m + 5 + Len(line') = 5 * calls
    <2>1. /\ SubSeq(line, 1, 1) = Part(Q, 4, 4 + 1)
          /\ Stretch(line', 5 * m + (4 + 1), Upstream) /\ 5 * m + (4 + 1) + Len(line') = 5 * calls
      <3>1. 4 \in 0 .. 4 /\ 4 + 1 <= 5
        OBVIOUS
      <3> HIDE DEF Q
      <3> QED
        BY <1>3, <3>1, ReadOfQuery DEF Q
    <2> HIDE DEF Q
    <2> QED
      BY <1>2, <1>3, <2>1
  <1>5. r.receiver = NewReceiver /\ Accepted(r) /\ ~Panics(r.frame) /\ Encode(ResponseTo(r.frame)) = A
    BY <1>1, <1>4, QueryAnswered
  <1>6. Respond(r)
    BY <1>5 DEF ReadSome, ReadOn, Panic
  <1>7. receiver' = NewReceiver
    BY <1>2, <1>3, <1>5 DEF Receive
  <1> HIDE DEF r
  <1>8. Flush(A)
    BY <1>5, <1>6 DEF Respond
  <1>9. Stretch(A, 7 * m, Downstream) /\ Len(A) = 7
    BY AnswerStretch
  <1> HIDE DEF Q, A, h
  <1>10. Stretch(down', taken, Downstream) /\ taken + Len(down') = 7 * m /\ pending' = A
    BY <1>8, Flushed
  <1>11. Stretch(pending', taken + Len(down'), Downstream) /\ Len(pending') = 7
    BY <1>9, <1>10
  <1>12. taken + Len(down') + 7 = 7 * (m + 1) /\ 5 * m + 5 = 5 * (m + 1) + 0
    BY <1>10
  <1>13. Part(Query(Number((m + 1) + 1)), 0, 0) = <<>>
    <2>1. \A s : SubSeq(s, 1, 0) = <<>>
      BY SubSeqEmpty
    <2>2. 0 + 1 = 1
      OBVIOUS
    <2> QED
      BY <2>1, <2>2 DEF Part
  <1>14. receiver' = Header(Part(Query(Number((m + 1) + 1)), 0, 0))
    BY <1>7, <1>13 DEF NewReceiver
  <1>15. 5 * (m + 1) + 0 + Len(line') = 5 * calls'
    BY <1>1, <1>4, <1>12
  <1> QED
    BY <1>1, <1>4, <1>10, <1>11, <1>12, <1>14, <1>15 DEF ServerAt

(* A call of the server's process. *)
LEMMA ServeOwn ==
    ASSUME Serve, OwnInv
    PROVE  OwnInv'
  <1>1. next' = next /\ call' = call /\ outcome' = outcome /\ calls' = calls /\ taken' = taken
    BY DEF Serve, clientState
  <1>2. ASSUME calls <= Numbers PROVE \E m \in Nat : \E k \in 0 .. 4 : ServerAt(m, k)'
    <2>1. PICK m \in Nat, k \in 0 .. 4 : ServerAt(m, k)
      BY <1>2 DEF OwnInv
    <2>2. taken \in Nat /\ calls \in Nat
      BY <1>2 DEF OwnInv
    <2>3. CASE Idle \/ \E i \in 1 .. Len(pending) - 1 : WritePending(i)
      BY <2>1, <2>2, <2>3, WriteOwn
    <2>4. ASSUME NEW n \in 1 .. BufferSize, ReadSome(n)
          PROVE  \E m1 \in Nat : \E k1 \in 0 .. 4 : ServerAt(m1, k1)'
      <3>1. CASE k = 4
        <4>1. ServerAt(m + 1, 0)' /\ m + 1 \in Nat /\ 0 \in 0 .. 4
          BY <2>1, <2>2, <2>4, <3>1, ChecksumOwn
        <4> QED
          BY <4>1
      <3>2. CASE k # 4
        <4>1. k \in 0 .. 3
          BY <3>2
        <4> QED
          BY <2>1, <2>2, <2>4, <4>1, HeaderOwn
      <3> QED
        BY <3>1, <3>2
    <2> QED
      BY <2>3, <2>4 DEF Serve, Process
  <1>3. ClientAt => ClientAt'
    BY <1>1 DEF ClientAt
  <1> QED
    BY <1>1, <1>2, <1>3 DEF OwnInv

LEMMA OwnStep == QueriesOnly /\ OwnInv /\ [ToolNext]_toolVars => OwnInv'
  <1> SUFFICES ASSUME QueriesOnly, OwnInv, [ToolNext]_toolVars PROVE OwnInv'
    OBVIOUS
  <1>1. ASSUME NEW r \in Requests, Call(r) PROVE OwnInv'
    <2>1. calls' = calls + 1 /\ calls \in Nat
      BY <1>1 DEF Call, OwnInv
    <2>2. CASE calls' <= Numbers
      BY <1>1, <2>2, CallOn
    <2> QED
      BY <2>1, <2>2 DEF OwnInv
  <1>2. CASE ClientReceive
    <2>1. calls' = calls /\ calls \in Nat
      BY <1>2 DEF ClientReceive, OwnInv
    <2>2. CASE calls' <= Numbers
      BY <1>2, <2>2, ReadOwn
    <2> QED
      BY <2>1, <2>2 DEF OwnInv
  <1>3. CASE Abandon
    <2>1. call'.mode = "Idle" /\ outcome' = "Abandoned"
      BY <1>3 DEF Abandon, Client!Abandon, Client!Return, Client!NoCall
    <2>2. ClientAt'
      BY <2>1 DEF ClientAt
    <2>3. calls' = calls /\ taken' = taken /\ next' = next /\ receiver' = receiver /\ line' = line
          /\ pending' = pending /\ down' = down
      BY <1>3 DEF Abandon, Client!Abandon, notClient
    <2>4. \A m, k : ServerAt(m, k) => ServerAt(m, k)'
      BY <2>3 DEF ServerAt
    <2> QED
      BY <2>2, <2>3, <2>4 DEF OwnInv
  <1>4. CASE Serve
    BY <1>4, ServeOwn
  <1>5. CASE UNCHANGED toolVars
    BY <1>5 DEF toolVars, clientState, serverVars, OwnInv, ServerAt, ClientAt
  <1> QED
    BY <1>1, <1>2, <1>3, <1>4, <1>5 DEF ToolNext

(***************************************************************************)
(* A query that succeeds has read the answer to itself, to the last        *)
(* symbol, and not one that was left on the line by a call before it:      *)
(* wherever in a frame those calls were dropped, however reads and writes  *)
(* are cut, and whatever the version and the checksum are, also when these *)
(* look like a marker.  It holds as long as no number of a frame has been  *)
(* used again.                                                             *)
(***************************************************************************)
THEOREM AnswersAreOwn ==
    QueriesOnly => (ToolSpec => [](calls <= Numbers => AnswerIsOwn))
  <1> SUFFICES ASSUME QueriesOnly PROVE ToolSpec => [](calls <= Numbers => AnswerIsOwn)
    OBVIOUS
  <1>1. ToolInit => OwnInv
    <2> SUFFICES ASSUME ToolInit PROVE OwnInv
      OBVIOUS
    <2>1. /\ receiver = NewReceiver /\ line = <<>> /\ pending = <<>> /\ down = <<>>
          /\ next = 1 /\ call = Client!NoCall /\ outcome = "None" /\ calls = 0 /\ taken = 0
      BY DEF ToolInit, ServerInit, Client!Init
    <2>2. Part(Query(Number(0 + 1)), 0, 0) = <<>>
      <3>1. \A s : SubSeq(s, 1, 0) = <<>>
        BY SubSeqEmpty
      <3>2. 0 + 1 = 1
        OBVIOUS
      <3> QED
        BY <3>1, <3>2 DEF Part
    <2>3. Len(<<>>) = 0
      OBVIOUS
    <2>4. ServerAt(0, 0)
      BY <2>1, <2>2, <2>3, NoStretch DEF ServerAt, NewReceiver
    <2>5. ClientAt
      BY <2>1 DEF ClientAt, Client!NoCall
    <2>6. calls < Numbers => next = Number(calls + 1)
      BY <2>1, ToolAssumption DEF Number
    <2> QED
      BY <2>1, <2>4, <2>5, <2>6 DEF OwnInv
  <1>2. OwnInv /\ [ToolNext]_toolVars => OwnInv'
    BY OwnStep
  <1>3. OwnInv => (calls <= Numbers => AnswerIsOwn)
    <2>1. AnswerSize = 7
      BY DEF AnswerSize, HeaderSize, CrcSize
    <2> QED
      BY <2>1 DEF OwnInv, ClientAt, AnswerIsOwn
  <1> QED
    BY <1>1, <1>2, <1>3, PTL DEF ToolSpec

-----------------------------------------------------------------------------
(***************************************************************************)
(* The server is the memory FwService describes, on every stream of frames *)
(* that are intact or damaged in payload or checksum, with noise between   *)
(* them that has no marker in it.                                          *)
(***************************************************************************)
CONSTANTS
    Pieces,     \* what comes over the line: [noise, header, payload, crc], in order
    Asked       \* the requests of those that are intact

PieceBytes(p) == HeaderBytes(p.header) \o (p.payload \o <<p.crc>>)
FrameIn(p)    == [header |-> p.header, payload |-> p.payload]
Intact(p)     == p.crc = Crc(p.header, p.payload) /\ LengthOk(FrameIn(p))

Markerless(s) == s \in Seq(Symbol) /\ \A i \in 1 .. Len(s) : s[i] # Marker

(* Addresses and lengths are 32 bits, and a read whose length is between   *)
(* the two limits is inside the memory: outside it is refused, but not for *)
(* its length, and inside the firmware panics (README, section 6).         *)
Serviceable(f) ==
    /\ f.header.type = "ReadMemory" /\ ~f.header.response =>
          /\ f.payload[1] < AddressSpace /\ f.payload[2] < AddressSpace
          /\ f.payload[2] \in MaxPayload + 1 .. BufferSize - HeaderSize
                => f.payload[1] + f.payload[2] <= MemSize
    /\ f.header.type = "WriteMemory" /\ ~f.header.response =>
          f.payload[1] < AddressSpace /\ f.header.length - 1 < AddressSpace

GoodPiece(p) ==
    /\ Markerless(p.noise)
    /\ p.header \in Headers /\ p.payload \in Seq(Symbol) /\ p.crc \in Symbol
    /\ Len(p.payload) = p.header.length /\ p.header.length <= BufferSize - CrcSize
    /\ Intact(p) => Serviceable(FrameIn(p))

(* What is left of the line and how much has been asked after k pieces.    *)
Count == Len(Pieces)
Carries(rest, asked) ==
    /\ rest \in [0 .. Count -> Seq(Symbol)] /\ asked \in [0 .. Count -> 0 .. Len(Asked)]
    /\ Markerless(rest[Count])
    /\ asked[0] = 0 /\ asked[Count] = Len(Asked)
    /\ \A k \in 0 .. Count - 1 :
          LET p == Pieces[k + 1]
          IN  /\ rest[k] = p.noise \o (PieceBytes(p) \o rest[k + 1])
              /\ IF Intact(p) THEN /\ asked[k + 1] = asked[k] + 1
                                   /\ Asked[asked[k + 1]] = RequestOf(FrameIn(p))
                              ELSE asked[k + 1] = asked[k]

CleanStreams ==
    /\ IsSeq(Pieces) /\ \A i \in 1 .. Count : GoodPiece(Pieces[i])
    /\ IsSeq(Asked)
    /\ \A l \in Lines : \E rest, asked : Carries(rest, asked) /\ rest[0] = l

Service == INSTANCE FwService WITH
    Requests <- {Asked[i] : i \in 1 .. Len(Asked)},
    Datum    <- Symbol,
    todo     <- SubSeq(Asked, Len(answered) + 1, Len(Asked)),
    answers  <- [i \in DOMAIN answered |-> AnswerOf(answered[i])]

(* The line and what the receiver has of it: in front of the next piece,   *)
(* some of the noise before it passed, or in its payload.                  *)
From(rest, k) == IF k = Count THEN <<>> ELSE PieceBytes(Pieces[k + 1]) \o rest[k + 1]
BeforePiece(r, s, rest, k) ==
    /\ r.mode = "Header"
    /\ \E noise : Markerless(noise) /\ noise \o From(rest, k) = r.got \o s
InPiece(r, s, rest, k) ==
    /\ k < Count /\ r.mode = "Payload" /\ r.header = Pieces[k + 1].header
    /\ (Pieces[k + 1].payload \o <<Pieces[k + 1].crc>>) \o rest[k + 1] = r.got \o s

ServiceInv ==
    /\ AnswersInv
    /\ panicked \/ \E rest, asked : Carries(rest, asked) /\
          \E k \in 0 .. Count : /\ Len(answered) = asked[k]
                               /\ (BeforePiece(receiver, line, rest, k) \/ InPiece(receiver, line, rest, k))

-----------------------------------------------------------------------------
(* Sequences put together in two ways. *)

(* What is in front of both. *)
LEMMA FrontIn ==
  ASSUME NEW a \in Seq(Symbol), NEW b \in Seq(Symbol), NEW c \in Seq(Symbol), NEW d \in Seq(Symbol),
         a \o b = c \o d, Len(a) <= Len(c)
  PROVE  a = SubSeq(c, 1, Len(a)) /\ SubSeq(c, Len(a) + 1, Len(c)) \o d = b
  <1> DEFINE front == SubSeq(c, 1, Len(a))
             t     == SubSeq(c, Len(a) + 1, Len(c))
             whole == a \o b
  <1>1. /\ Len(a) \in Nat /\ Len(b) \in Nat /\ Len(c) \in Nat /\ Len(d) \in Nat
        /\ 0 \in 0 .. Len(c) /\ Len(a) \in 0 .. Len(c) /\ Len(c) \in Len(a) .. Len(c)
    OBVIOUS
  <1>2. /\ front \in Seq(Symbol) /\ Len(front) = Len(a)
        /\ \A i \in 1 .. Len(a) : front[i] = c[i]
    <2>1. /\ Part(c, 0, Len(a)) \in Seq(Symbol) /\ Len(Part(c, 0, Len(a))) = Len(a) - 0
          /\ \A i \in 1 .. Len(a) - 0 : Part(c, 0, Len(a))[i] = c[0 + i]
      BY <1>1, PartElements
    <2>2. front = Part(c, 0, Len(a))
      BY DEF Part
    <2> HIDE DEF front
    <2> QED BY <1>1, <2>1, <2>2
  <1>3. /\ t \in Seq(Symbol) /\ Len(t) = Len(c) - Len(a)
        /\ \A i \in 1 .. Len(c) - Len(a) : t[i] = c[Len(a) + i]
    BY <1>1, PartElements DEF Part
  <1>4. /\ Len(whole) = Len(a) + Len(b)
        /\ \A i \in 1 .. Len(a) + Len(b) : whole[i] = IF i <= Len(a) THEN a[i] ELSE b[i - Len(a)]
    BY ConcatProperties
  <1>5. /\ Len(whole) = Len(c) + Len(d)
        /\ \A i \in 1 .. Len(c) + Len(d) : whole[i] = IF i <= Len(c) THEN c[i] ELSE d[i - Len(c)]
    BY ConcatProperties
  <1> HIDE DEF front, t, whole
  <1>6. a = front
    <2>1. \A i \in 1 .. Len(a) : a[i] = front[i]
      BY <1>1, <1>2, <1>4, <1>5
    <2> QED BY <1>2, <2>1, SeqEqual
  <1>7. /\ t \o d \in Seq(Symbol) /\ Len(t \o d) = Len(t) + Len(d)
        /\ \A i \in 1 .. Len(t) + Len(d) : (t \o d)[i] = IF i <= Len(t) THEN t[i] ELSE d[i - Len(t)]
    BY <1>3, ConcatProperties
  <1>8. t \o d = b
    <2>1. Len(b) = Len(t \o d)
      BY <1>1, <1>3, <1>4, <1>5, <1>7
    <2>2. ASSUME NEW i \in 1 .. Len(b) PROVE b[i] = (t \o d)[i]
      <3>1. /\ Len(a) + i \in 1 .. Len(a) + Len(b) /\ ~(Len(a) + i <= Len(a)) /\ (Len(a) + i) - Len(a) = i
            /\ Len(a) + i \in 1 .. Len(c) + Len(d) /\ i \in 1 .. Len(t) + Len(d)
            /\ (Len(a) + i) - Len(c) = i - Len(t)
            /\ (i <= Len(t) <=> Len(a) + i <= Len(c))
            /\ (i <= Len(t) => i \in 1 .. Len(c) - Len(a))
        BY <1>1, <1>3, <1>4, <1>5
      <3>2. b[i] = whole[Len(a) + i]
        BY <1>4, <3>1
      <3>3. whole[Len(a) + i] = IF Len(a) + i <= Len(c) THEN c[Len(a) + i] ELSE d[i - Len(t)]
        BY <1>5, <3>1
      <3> QED BY <1>3, <1>7, <3>1, <3>2, <3>3
    <2> QED BY <1>7, <2>1, <2>2, SeqEqual
  <1> QED BY <1>6, <1>8 DEF front, t

(* Two fronts of one length are one. *)
LEMMA SameFront ==
  ASSUME NEW a \in Seq(Symbol), NEW b \in Seq(Symbol), NEW c \in Seq(Symbol), NEW d \in Seq(Symbol),
         a \o b = c \o d, Len(a) = Len(c)
  PROVE  a = c /\ b = d
  <1>0. Len(a) <= Len(c)
    OBVIOUS
  <1>1. a = SubSeq(c, 1, Len(a)) /\ SubSeq(c, Len(a) + 1, Len(c)) \o d = b
    BY <1>0, FrontIn
  <1>2. SubSeq(c, 1, Len(c)) = c
    BY SubSeqFull
  <1>3. SubSeq(c, Len(c) + 1, Len(c)) = <<>>
    BY SubSeqEmpty
  <1>4. (<<>> \o d) = d
    BY ConcatEmptySeq
  <1> QED BY <1>1, <1>2, <1>3, <1>4

(* Three in a row. *)
LEMMA Regrouped ==
  ASSUME NEW a \in Seq(Symbol), NEW b \in Seq(Symbol), NEW c \in Seq(Symbol), NEW d, d = b \o c
  PROVE  (a \o b) \o c = a \o d
  <1>1. (a \o b) \o c = a \o (b \o c)
    BY ConcatAssociative
  <1> QED BY <1>1

(* A read takes what it returns from the line to the buffer. *)
LEMMA ReadMoves ==
  ASSUME NEW got \in Seq(Symbol), NEW s \in Seq(Symbol), NEW n \in 1 .. Len(s)
  PROVE  LET chunk == SubSeq(s, 1, n)
             rest  == SubSeq(s, n + 1, Len(s))
         IN  /\ chunk \in Seq(Symbol) /\ rest \in Seq(Symbol) /\ Len(chunk) = n
             /\ got \o chunk \in Seq(Symbol) /\ Len(got \o chunk) = Len(got) + n
             /\ (got \o chunk) \o rest = got \o s
  <1> DEFINE chunk == SubSeq(s, 1, n)
             rest  == SubSeq(s, n + 1, Len(s))
  <1>1. 0 \in 0 .. Len(s) /\ n \in 0 .. Len(s) /\ Len(s) \in n .. Len(s) /\ n - 0 = n /\ 0 + 1 = 1
    OBVIOUS
  <1>2. chunk = Part(s, 0, n) /\ rest = Part(s, n, Len(s)) /\ Part(s, 0, Len(s)) = SubSeq(s, 1, Len(s))
    BY <1>1 DEF Part
  <1>3. chunk \in Seq(Symbol) /\ rest \in Seq(Symbol) /\ Len(chunk) = n
    <2>1. Part(s, 0, n) \in Seq(Symbol) /\ Len(Part(s, 0, n)) = n - 0 /\ Part(s, n, Len(s)) \in Seq(Symbol)
      BY <1>1, PartElements
    <2> HIDE DEF chunk, rest
    <2> QED BY <1>1, <1>2, <2>1
  <1>4. s = chunk \o rest
    <2>1. Part(s, 0, n) \o Part(s, n, Len(s)) = Part(s, 0, Len(s))
      BY <1>1, PartsJoin
    <2> HIDE DEF chunk, rest
    <2> QED BY <1>2, <2>1, SubSeqFull
  <1> HIDE DEF chunk, rest
  <1>5. (got \o chunk) \o rest = got \o s
    BY <1>3, <1>4, Regrouped
  <1>6. got \o chunk \in Seq(Symbol) /\ Len(got \o chunk) = Len(got) + n
    BY <1>3, ConcatProperties
  <1> QED BY <1>3, <1>5, <1>6 DEF chunk, rest

-----------------------------------------------------------------------------
(* What a full header buffer is taken for. *)

(* Where the first marker is. *)
LEMMA FirstMarker ==
  ASSUME NEW got \in Seq(Symbol), Len(got) = HeaderSize, NEW j \in 0 .. 3,
         \A i \in 1 .. j : got[i] # Marker, got[j + 1] = Marker
  PROVE  ReadHeader(got) =
            LET rest == SubSeq(got, j + 2, 4)
            IN  IF j > 0 THEN [result |-> "InsufficientLength", offset |-> j]
                ELSE IF TypesOf(rest[1]) = {} THEN [result |-> "InvalidFrameType", offset |-> j]
                ELSE [result |-> "Ok", offset |-> j + HeaderSize, header |-> HeaderOf(rest)]
  <1> DEFINE I    == {i \in 1 .. Len(got) : got[i] = Marker}
             at   == IF I # {} THEN Min(I) ELSE 0
             rest == SubSeq(got, at + 1, Len(got))
  <1>0. Len(got) = 4
    BY DEF HeaderSize
  <1>1. at = j + 1
    <2>1. j + 1 \in I /\ \A i \in I : i \in Nat /\ j + 1 <= i
      BY <1>0
    <2> HIDE DEF I
    <2>2. Min(I) = j + 1
      BY <2>1 DEF Min
    <2> QED BY <2>1, <2>2
  <1>2. ReadHeader(got) =
           IF at = 0 THEN [result |-> "NoFrameMarker", offset |-> Len(got)]
           ELSE IF Len(rest) < HeaderSize - 1 THEN [result |-> "InsufficientLength", offset |-> at - 1]
           ELSE IF TypesOf(rest[1]) = {} THEN [result |-> "InvalidFrameType", offset |-> at - 1]
           ELSE [result |-> "Ok", offset |-> at - 1 + HeaderSize, header |-> HeaderOf(rest)]
    BY DEF ReadHeader, SelectInSeq
  <1>3. rest = SubSeq(got, j + 2, 4) /\ Len(rest) = 3 - j
    <2>1. at + 1 = j + 2
      BY <1>1
    <2>2. rest = SubSeq(got, j + 2, 4)
      BY <1>0, <2>1
    <2>3. Part(got, j + 1, 4) = SubSeq(got, j + 2, 4)
      BY DEF Part
    <2>4. j + 1 \in 0 .. Len(got) /\ 4 \in j + 1 .. Len(got) /\ 4 - (j + 1) = 3 - j
      BY <1>0
    <2>5. Len(Part(got, j + 1, 4)) = 4 - (j + 1)
      BY <2>4, PartElements
    <2> HIDE DEF rest
    <2> QED BY <2>2, <2>3, <2>4, <2>5
  <1> HIDE DEF at, rest
  <1>4. at # 0 /\ at - 1 = j /\ (Len(rest) < HeaderSize - 1 <=> j > 0)
    BY <1>1, <1>3 DEF HeaderSize
  <1> QED BY <1>2, <1>3, <1>4

(* Symbols in front of a marker are dropped, those from it on kept. *)
LEMMA MarkerFound ==
  ASSUME NEW got \in Seq(Symbol), Len(got) = HeaderSize, NEW j \in 1 .. 3,
         \A i \in 1 .. j : got[i] # Marker, got[j + 1] = Marker
  PROVE  HeaderRead(got) = Header(SubSeq(got, j + 1, Len(got)))
  <1>1. ReadHeader(got) = [result |-> "InsufficientLength", offset |-> j]
    BY FirstMarker
  <1> QED BY <1>1 DEF HeaderRead

(* All of them when there is none. *)
LEMMA NoMarkerFound ==
  ASSUME NEW got \in Seq(Symbol), \A i \in 1 .. Len(got) : got[i] # Marker
  PROVE  HeaderRead(got) = Header(<<>>)
  <1>1. {i \in 1 .. Len(got) : got[i] = Marker} = {}
    OBVIOUS
  <1>2. ReadHeader(got).result = "NoFrameMarker"
    BY <1>1 DEF ReadHeader, SelectInSeq
  <1> QED BY <1>2 DEF HeaderRead

(* A header is read as itself. *)
LEMMA HeaderReadBack ==
  ASSUME NEW h \in Headers, h.length <= BufferSize - CrcSize
  PROVE  /\ HeaderBytes(h) \in Seq(Symbol) /\ Len(HeaderBytes(h)) = HeaderSize
         /\ HeaderBytes(h)[1] = Marker
         /\ HeaderRead(HeaderBytes(h)) = Payload(h, <<>>)
  <1> DEFINE byte == FrameType[h.type] + (IF h.response THEN Response ELSE 0)
             got  == HeaderBytes(h)
             rest == SubSeq(got, 2, 4)
  <1>1. /\ h.type \in {"QueryVersion", "ReadMemory", "WriteMemory", "Run"} /\ h.response \in BOOLEAN
        /\ h.number \in Nat /\ h.length \in Nat
        /\ h = [type |-> h.type, response |-> h.response, number |-> h.number, length |-> h.length]
    BY DEF Headers, FrameType
  <1>2. byte \in Nat /\ TypesOf(byte) = {h.type} /\ (byte >= Response <=> h.response)
    BY <1>1 DEF TypesOf, FrameType, Response
  <1>3. got = <<Marker, byte, h.number, h.length>>
    BY DEF HeaderBytes
  <1> HIDE DEF byte
  <1>4. /\ got \in Seq(Symbol) /\ Len(got) = HeaderSize
        /\ got[1] = Marker /\ got[2] = byte /\ got[3] = h.number /\ got[4] = h.length
    BY <1>1, <1>2, <1>3 DEF HeaderSize, Symbol, Marker
  <1> HIDE DEF got
  <1>5. rest[1] = byte /\ rest[2] = h.number /\ rest[3] = h.length
    <2>1. rest = Part(got, 1, 4)
      BY DEF Part
    <2>2. 1 \in 0 .. Len(got) /\ 4 \in 1 .. Len(got)
      BY <1>4 DEF HeaderSize
    <2>3. \A i \in 1 .. 4 - 1 : Part(got, 1, 4)[i] = got[1 + i]
      BY <1>4, <2>2, PartElements, ZenonT(60)
    <2> HIDE DEF rest
    <2> QED BY <1>4, <2>1, <2>3
  <1>6. ReadHeader(got) = IF TypesOf(rest[1]) = {} THEN [result |-> "InvalidFrameType", offset |-> 0]
                          ELSE [result |-> "Ok", offset |-> 0 + HeaderSize, header |-> HeaderOf(rest)]
    <2>1. 0 \in 0 .. 3 /\ (\A i \in 1 .. 0 : got[i] # Marker) /\ got[0 + 1] = Marker /\ 0 + 2 = 2 /\ ~(0 > 0)
      BY <1>4
    <2> QED BY <1>4, <2>1, FirstMarker
  <1> HIDE DEF rest
  <1>7. HeaderOf(rest) = h
    <2>1. (CHOOSE t \in TypesOf(rest[1]) : TRUE) = h.type
      BY <1>2, <1>5
    <2>2. (rest[1] >= Response) = h.response
      BY <1>1, <1>2, <1>5
    <2> QED BY <1>1, <1>5, <2>1, <2>2 DEF HeaderOf
  <1>8. ReadHeader(got).result = "Ok" /\ ReadHeader(got).header = h
    BY <1>2, <1>5, <1>6, <1>7
  <1>9. ~(h.length > BufferSize - CrcSize)
    BY <1>1, ReceiverAssumption DEF CrcSize
  <1> QED BY <1>4, <1>8, <1>9 DEF HeaderRead, got

-----------------------------------------------------------------------------
(* The receiver on a clean stream. *)

(* A piece symbol by symbol. *)
LEMMA PieceIsSeq ==
  ASSUME NEW p, GoodPiece(p)
  PROVE  /\ p.noise \in Seq(Symbol) /\ HeaderBytes(p.header) \in Seq(Symbol)
         /\ p.payload \o <<p.crc>> \in Seq(Symbol)
         /\ Len(p.payload \o <<p.crc>>) = p.header.length + 1
         /\ \A i \in 1 .. p.header.length : (p.payload \o <<p.crc>>)[i] = p.payload[i]
         /\ (p.payload \o <<p.crc>>)[p.header.length + 1] = p.crc
         /\ PieceBytes(p) \in Seq(Symbol)
  <1> DEFINE payload == p.payload
             last    == <<p.crc>>
             bytes   == HeaderBytes(p.header)
  <1>1. /\ payload \in Seq(Symbol) /\ Len(payload) = p.header.length /\ p.header.length \in Nat
        /\ p.noise \in Seq(Symbol)
    BY DEF GoodPiece, Markerless
  <1>2. last \in Seq(Symbol) /\ Len(last) = 1 /\ last[1] = p.crc
    BY DEF GoodPiece
  <1>3. bytes \in Seq(Symbol)
    BY HeaderReadBack DEF GoodPiece
  <1> HIDE DEF payload, last, bytes
  <1>4. /\ payload \o last \in Seq(Symbol) /\ Len(payload \o last) = Len(payload) + Len(last)
        /\ \A i \in 1 .. Len(payload) + Len(last) :
              (payload \o last)[i] = IF i <= Len(payload) THEN payload[i] ELSE last[i - Len(payload)]
    BY <1>1, <1>2, ConcatProperties
  <1> DEFINE body == payload \o last
  <1>5. /\ body \in Seq(Symbol) /\ Len(body) = p.header.length + 1
        /\ \A i \in 1 .. p.header.length : body[i] = payload[i]
        /\ body[p.header.length + 1] = p.crc
    BY <1>1, <1>2, <1>4, SMTT(30)
  <1> HIDE DEF body
  <1>6. bytes \o body \in Seq(Symbol)
    BY <1>3, <1>5, ConcatProperties
  <1>7. PieceBytes(p) = bytes \o body
    BY DEF PieceBytes, bytes, body, payload, last
  <1>8. PieceBytes(p) \in Seq(Symbol)
    BY <1>6, <1>7
  <1> QED BY <1>1, <1>3, <1>5, <1>8 DEF bytes, body, payload, last

(* What is to come of it, and what it begins with. *)
LEMMA FromIsSeq ==
  ASSUME CleanStreams, NEW rest, NEW asked, Carries(rest, asked), NEW k \in 0 .. Count
  PROVE  /\ Count \in Nat /\ rest[k] \in Seq(Symbol) /\ From(rest, k) \in Seq(Symbol)
         /\ k = Count => From(rest, k) = <<>>
         /\ k # Count =>
               LET p == Pieces[k + 1]
               IN  /\ k + 1 \in 0 .. Count /\ GoodPiece(p) /\ rest[k + 1] \in Seq(Symbol)
                   /\ (p.payload \o <<p.crc>>) \o rest[k + 1] \in Seq(Symbol)
                   /\ HeaderBytes(p.header) \o ((p.payload \o <<p.crc>>) \o rest[k + 1]) = From(rest, k)
                   /\ p.noise \o From(rest, k) = rest[k]
                   /\ Len(From(rest, k)) > 0 /\ From(rest, k)[1] = Marker
  <1>1. Count \in Nat /\ rest \in [0 .. Count -> Seq(Symbol)] /\ rest[k] \in Seq(Symbol)
    <2>1. Len(Pieces) \in Nat
      BY DEF CleanStreams, IsSeq
    <2> QED BY <2>1 DEF Carries, Count
  <1>2. CASE k = Count
    BY <1>1, <1>2 DEF From
  <1>3. CASE k # Count
    <2> DEFINE p     == Pieces[k + 1]
               bytes == HeaderBytes(p.header)
               body  == p.payload \o <<p.crc>>
               more  == rest[k + 1]
               tail  == body \o more
    <2>1. k + 1 \in 0 .. Count /\ GoodPiece(p) /\ more \in Seq(Symbol)
          /\ rest[k] = p.noise \o (PieceBytes(p) \o more)
      <3>1. k \in 0 .. Count - 1 /\ k + 1 \in 1 .. Count /\ k + 1 \in 0 .. Count
        BY <1>1, <1>3
      <3> QED BY <1>1, <3>1 DEF CleanStreams, Carries
    <2>2. body \in Seq(Symbol) /\ bytes \in Seq(Symbol) /\ p.noise \in Seq(Symbol)
          /\ PieceBytes(p) \in Seq(Symbol)
      BY <2>1, PieceIsSeq
    <2>3. From(rest, k) = PieceBytes(p) \o more
      BY <1>3 DEF From
    <2>4. PieceBytes(p) = bytes \o body
      BY DEF PieceBytes
    <2>5. p.header \in Headers /\ p.header.length <= BufferSize - CrcSize
      BY <2>1 DEF GoodPiece
    <2>6. bytes[1] = Marker /\ Len(bytes) = 4
      BY <2>5, HeaderReadBack DEF HeaderSize
    <2> HIDE DEF p, bytes, body, more
    <2>8. tail \in Seq(Symbol)
      BY <2>1, <2>2, ConcatProperties
    <2>14. tail = body \o more
      OBVIOUS
    <2> HIDE DEF tail
    <2>7. (bytes \o body) \o more = bytes \o tail
      <3>1. bytes \in Seq(Symbol) /\ body \in Seq(Symbol) /\ more \in Seq(Symbol)
        BY <2>1, <2>2
      <3> QED BY <3>1, <2>14, Regrouped
    <2>9. /\ bytes \o tail \in Seq(Symbol) /\ Len(bytes \o tail) = Len(bytes) + Len(tail)
          /\ \A i \in 1 .. Len(bytes) + Len(tail) :
                (bytes \o tail)[i] = IF i <= Len(bytes) THEN bytes[i] ELSE tail[i - Len(bytes)]
      BY <2>2, <2>8, ConcatProperties
    <2>10. bytes \o tail = From(rest, k)
      BY <2>3, <2>4, <2>7
    <2>11. Len(From(rest, k)) > 0 /\ From(rest, k)[1] = Marker
      <3>1. Len(tail) \in Nat /\ 1 \in 1 .. Len(bytes) + Len(tail) /\ 1 <= Len(bytes)
        BY <2>6, <2>8
      <3>2. (bytes \o tail)[1] = Marker /\ Len(bytes \o tail) > 0
        BY <2>6, <2>9, <3>1
      <3> QED BY <2>10, <3>2
    <2>12. p.noise \o From(rest, k) = rest[k]
      BY <2>1, <2>3
    <2>13. From(rest, k) \in Seq(Symbol)
      BY <2>9, <2>10
    <2> QED BY <1>1, <1>3, <2>1, <2>8, <2>10, <2>11, <2>12, <2>13 DEF p, bytes, body, more, tail
  <1> QED BY <1>2, <1>3

(* Up to the end of a header: the receiver is before the next piece, or in *)
(* it.                                                                     *)
LEMMA HeaderOn ==
  ASSUME CleanStreams, NEW rest, NEW asked, Carries(rest, asked), NEW k \in 0 .. Count,
         NEW got \in Seq(Symbol), Len(got) <= HeaderSize, NEW s \in Seq(Symbol),
         NEW noise, Markerless(noise)
  PROVE  noise \o From(rest, k) = got \o s =>
            LET r == IF Len(got) = HeaderSize THEN HeaderRead(got) ELSE Header(got)
            IN  BeforePiece(r, s, rest, k) \/ InPiece(r, s, rest, k)
  <1> DEFINE r     == IF Len(got) = HeaderSize THEN HeaderRead(got) ELSE Header(got)
             ahead == From(rest, k)
             p     == Pieces[k + 1]
             bytes == HeaderBytes(p.header)
             body  == p.payload \o <<p.crc>>
             tail  == body \o rest[k + 1]
  <1>1. /\ Count \in Nat /\ ahead \in Seq(Symbol) /\ (k = Count => ahead = <<>>)
        /\ k # Count => /\ k + 1 \in 0 .. Count /\ GoodPiece(p) /\ rest[k + 1] \in Seq(Symbol)
                        /\ tail \in Seq(Symbol) /\ bytes \o tail = ahead
                        /\ Len(ahead) > 0 /\ ahead[1] = Marker
    BY FromIsSeq
  <1>2. noise \in Seq(Symbol) /\ (\A i \in 1 .. Len(noise) : noise[i] # Marker)
        /\ Len(noise) \in Nat /\ Len(got) \in Nat /\ Len(s) \in Nat
    BY DEF Markerless
  <1>3. SUFFICES ASSUME noise \o ahead = got \o s
                 PROVE  BeforePiece(r, s, rest, k) \/ InPiece(r, s, rest, k)
    OBVIOUS
  <1>4. ASSUME NEW x, x \in Seq(Symbol), \A i \in 1 .. Len(x) : x[i] # Marker,
               NEW y, x \o ahead = y \o s, r = Header(y)
        PROVE  BeforePiece(r, s, rest, k)
    <2>1. Markerless(x)
      BY <1>4 DEF Markerless
    <2>2. r.mode = "Header" /\ r.got = y
      BY <1>4 DEF Header
    <2> HIDE DEF r
    <2> QED BY <1>4, <2>1, <2>2 DEF BeforePiece
  <1>5. <<>> \in Seq(Symbol) /\ Len(<<>>) = 0 /\ (<<>> \o ahead) = ahead /\ (<<>> \o s) = s
    BY <1>1, ConcatEmptySeq
  <1> HIDE DEF ahead, tail, bytes
  <1>6. CASE Len(got) # HeaderSize
    <2>1. r = Header(got)
      BY <1>6
    <2> HIDE DEF r
    <2>2. noise \in Seq(Symbol) /\ (\A i \in 1 .. Len(noise) : noise[i] # Marker)
      BY <1>2
    <2> QED BY <1>3, <1>4, <2>1, <2>2, Zenon
  <1>7. CASE Len(got) = HeaderSize /\ Len(noise) >= HeaderSize
    <2> DEFINE left == SubSeq(noise, Len(got) + 1, Len(noise))
    <2>1. Len(got) <= Len(noise) /\ got \o s = noise \o ahead
      BY <1>3, <1>7
    <2>2. got = SubSeq(noise, 1, Len(got)) /\ left \o ahead = s
      <3>1. ahead \in Seq(Symbol) /\ noise \in Seq(Symbol)
        BY <1>1, <1>2
      <3> QED BY <2>1, <3>1, FrontIn
    <2>3. /\ Len(got) \in 0 .. Len(noise) /\ Len(noise) \in Len(got) .. Len(noise)
          /\ 0 \in 0 .. Len(noise) /\ Len(got) - 0 = Len(got)
      BY <1>2, <2>1
    <2>4. SubSeq(noise, 1, Len(got)) = Part(noise, 0, Len(got)) /\ left = Part(noise, Len(got), Len(noise))
      BY DEF Part
    <2> HIDE DEF left
    <2>5. /\ left \in Seq(Symbol) /\ Len(left) = Len(noise) - Len(got)
          /\ \A i \in 1 .. Len(noise) - Len(got) : left[i] = noise[Len(got) + i]
      BY <1>2, <2>3, <2>4, PartElements
    <2>6. \A i \in 1 .. Len(got) : got[i] = noise[i]
      <3>1. \A i \in 1 .. Len(got) - 0 : Part(noise, 0, Len(got))[i] = noise[0 + i]
        BY <1>2, <2>3, PartElements
      <3>2. got = Part(noise, 0, Len(got))
        BY <2>2, <2>4
      <3> QED BY <1>2, <2>3, <3>1, <3>2
    <2>7. \A i \in 1 .. Len(got) : got[i] # Marker
      BY <1>2, <2>3, <2>6
    <2>8. r = Header(<<>>)
      BY <1>7, <2>7, NoMarkerFound
    <2>9. \A i \in 1 .. Len(left) : left[i] # Marker
      <3> TAKE i \in 1 .. Len(left)
      <3>1. i \in 1 .. Len(noise) - Len(got) /\ Len(got) + i \in 1 .. Len(noise)
        BY <1>2, <2>3, <2>5
      <3> QED BY <1>2, <2>5, <3>1
    <2>10. left \o ahead = <<>> \o s
      BY <1>5, <2>2
    <2> HIDE DEF r
    <2>11. left \in Seq(Symbol)
      BY <2>5
    <2> QED BY <1>4, <2>8, <2>9, <2>10, <2>11, Zenon
  <1>8. CASE Len(got) = HeaderSize /\ Len(noise) < HeaderSize
    <2> DEFINE j    == Len(noise)
               left == SubSeq(got, j + 1, Len(got))
    <2>1. Len(noise) <= Len(got) /\ j \in 0 .. 3 /\ Len(got) = 4
      <3>1. Len(got) = 4 /\ Len(noise) < 4 /\ Len(noise) \in Nat
        BY <1>2, <1>8 DEF HeaderSize
      <3>2. ASSUME NEW m \in Nat, m < 4 PROVE m \in 0 .. 3 /\ m <= 4
        BY <3>2
      <3> QED BY <3>1, <3>2
    <2>2. noise = SubSeq(got, 1, j) /\ left \o s = ahead
      <3>1. ahead \in Seq(Symbol) /\ noise \in Seq(Symbol)
        BY <1>1, <1>2
      <3>2. Len(noise) <= Len(got)
        BY <2>1
      <3> QED BY <1>3, <3>1, <3>2, FrontIn
    <2>3. /\ Len(noise \o ahead) = j + Len(ahead) /\ Len(ahead) \in Nat
          /\ \A i \in 1 .. j + Len(ahead) :
                (noise \o ahead)[i] = IF i <= j THEN noise[i] ELSE ahead[i - j]
      BY <1>1, <1>2, ConcatProperties
    <2>4. /\ Len(got \o s) = Len(got) + Len(s)
          /\ \A i \in 1 .. Len(got) + Len(s) :
                (got \o s)[i] = IF i <= Len(got) THEN got[i] ELSE s[i - Len(got)]
      BY ConcatProperties
    <2>5. j + Len(ahead) = 4 + Len(s)
      BY <1>3, <2>1, <2>3, <2>4
    <2>6. k # Count
      <3>1. Len(ahead) # 0
        BY <1>2, <2>1, <2>5
      <3> QED BY <1>1, <1>5, <3>1
    <2>7. got[j + 1] = Marker /\ \A i \in 1 .. j : got[i] # Marker
      <3>1. \A i \in 1 .. 4 : got[i] = (noise \o ahead)[i]
        BY <1>2, <1>3, <2>1, <2>4
      <3>2. \A i \in 1 .. j : got[i] = noise[i]
        <4> TAKE i \in 1 .. j
        <4>1. i \in 1 .. 4 /\ i \in 1 .. j + Len(ahead) /\ i <= j
          BY <2>1, <2>3
        <4> QED BY <2>3, <3>1, <4>1
      <3>3. got[j + 1] = ahead[1]
        <4>1. j + 1 \in 1 .. 4 /\ j + 1 \in 1 .. j + Len(ahead) /\ ~(j + 1 <= j) /\ (j + 1) - j = 1
          <5>1. j \in 0 .. 3 /\ Len(ahead) \in Nat /\ Len(s) \in Nat /\ j + Len(ahead) = 4 + Len(s)
            BY <1>2, <2>1, <2>3, <2>5
          <5> HIDE DEF j
          <5> QED BY <5>1
        <4> QED BY <2>3, <3>1, <4>1
      <3> QED BY <1>1, <1>2, <2>6, <3>2, <3>3
    <2>8. CASE j > 0
      <3>1. j \in 1 .. 3
        BY <2>1, <2>8
      <3> HIDE DEF j
      <3>2. r = Header(left)
        BY <1>8, <2>7, <3>1, MarkerFound
      <3>3. <<>> \o ahead = left \o s
        BY <1>5, <2>2
      <3> HIDE DEF r, left
      <3>4. \A i \in 1 .. Len(<<>>) : <<>>[i] # Marker
        OBVIOUS
      <3> QED BY <1>4, <1>5, <3>2, <3>3, <3>4, Zenon
    <2>9. CASE j = 0
      <3>1. left = got
        BY <2>9, SubSeqFull
      <3>2. bytes \o tail = got \o s
        BY <1>1, <2>2, <2>6, <3>1
      <3>3. p.header \in Headers /\ p.header.length <= BufferSize - CrcSize
        BY <1>1, <2>6 DEF GoodPiece
      <3>4. /\ bytes \in Seq(Symbol) /\ Len(bytes) = HeaderSize
            /\ HeaderRead(bytes) = Payload(p.header, <<>>)
        BY <3>3, HeaderReadBack DEF bytes
      <3>5. bytes = got /\ tail = s
        <4>1. Len(bytes) = Len(got) /\ tail \in Seq(Symbol)
          BY <1>1, <1>8, <2>6, <3>4
        <4> QED BY <3>2, <3>4, <4>1, SameFront
      <3>6. r = Payload(p.header, <<>>)
        BY <1>8, <3>4, <3>5
      <3>7. r.mode = "Payload" /\ r.header = p.header /\ r.got = <<>>
        BY <3>6 DEF Payload
      <3>8. k < Count
        BY <1>1, <2>6
      <3>9. tail = (r.got \o s)
        BY <1>5, <3>5, <3>7
      <3> HIDE DEF r
      <3> QED BY <3>7, <3>8, <3>9, Zenon DEF InPiece, tail
    <2> QED BY <2>1, <2>8, <2>9
  <1> QED BY <1>2, <1>6, <1>7, <1>8 DEF HeaderSize

(* What is left after a piece begins with the next, or ends in noise.      *)
LEMMA NextPiece ==
  ASSUME CleanStreams, NEW rest, NEW asked, Carries(rest, asked), NEW k \in 0 .. Count
  PROVE  BeforePiece(NewReceiver, rest[k], rest, k)
  <1> DEFINE ahead == From(rest, k)
             s     == rest[k]
  <1>1. Count \in Nat /\ s \in Seq(Symbol)
    BY FromIsSeq
  <1>2. NewReceiver.mode = "Header" /\ NewReceiver.got = <<>>
    BY DEF NewReceiver, Header
  <1>3. (<<>> \o s) = s
    BY <1>1, ConcatEmptySeq
  <1>4. \E noise : Markerless(noise) /\ noise \o ahead = s
    <2>1. CASE k = Count
      <3>1. ahead = <<>> /\ rest[Count] \in Seq(Symbol)
        BY <1>1, <2>1, FromIsSeq
      <3>2. Markerless(rest[Count])
        BY DEF Carries
      <3>3. rest[Count] \o <<>> = rest[Count]
        BY <3>1, ConcatEmptySeq
      <3> HIDE DEF ahead
      <3> QED BY <2>1, <3>1, <3>2, <3>3
    <2>2. CASE k # Count
      <3> DEFINE q == Pieces[k + 1]
      <3>1. GoodPiece(q) /\ q.noise \o ahead = rest[k]
        BY <1>1, <2>2, FromIsSeq
      <3>2. Markerless(q.noise)
        BY <3>1 DEF GoodPiece
      <3> HIDE DEF ahead, q
      <3> QED BY <3>1, <3>2
    <2> QED BY <2>1, <2>2
  <1> HIDE DEF ahead, s
  <1>5. PICK noise : Markerless(noise) /\ noise \o ahead = s
    BY <1>4
  <1>6. noise \o ahead = NewReceiver.got \o s
    BY <1>2, <1>3, <1>5
  <1> QED BY <1>2, <1>5, <1>6 DEF BeforePiece, ahead, s

(* In a piece: its frame is read as it is, when its checksum is its own,   *)
(* and the receiver is before the next.                                    *)
LEMMA PayloadOn ==
  ASSUME CleanStreams, NEW rest, NEW asked, Carries(rest, asked), NEW k \in 0 .. Count, k < Count,
         NEW got \in Seq(Symbol), Len(got) <= Pieces[k + 1].header.length + 1, NEW s \in Seq(Symbol)
  PROVE  LET p == Pieces[k + 1]
             read == ReadFramePayload(p.header, got)
         IN  (p.payload \o <<p.crc>>) \o rest[k + 1] = got \o s =>
                IF Len(got) # p.header.length + 1 THEN InPiece(Payload(p.header, got), s, rest, k)
                ELSE /\ BeforePiece(NewReceiver, s, rest, k + 1)
                     /\ read.result = "Ok" <=> p.crc = Crc(p.header, p.payload)
                     /\ read.result = "Ok" => read.frame = FrameIn(p)
                     /\ read.result # "None"
  <1> DEFINE p       == Pieces[k + 1]
             h       == p.header
             payload == p.payload
             body    == p.payload \o <<p.crc>>
             more    == rest[k + 1]
             read    == ReadFramePayload(h, got)
  <1>1. /\ Count \in Nat /\ k + 1 \in 0 .. Count /\ GoodPiece(p) /\ more \in Seq(Symbol)
    <2>1. k # Count
      OBVIOUS
    <2> QED BY <2>1, FromIsSeq
  <1>2. /\ payload \in Seq(Symbol) /\ h.length \in Nat /\ Len(payload) = h.length
        /\ body \in Seq(Symbol) /\ Len(body) = h.length + 1
        /\ \A i \in 1 .. h.length : body[i] = payload[i]
        /\ body[h.length + 1] = p.crc
    <2>1. GoodPiece(p)
      BY <1>1
    <2>2. p.payload \in Seq(Symbol) /\ Len(p.payload) = h.length /\ h.length \in Nat
      BY <2>1 DEF GoodPiece
    <2> HIDE DEF p
    <2> QED BY <2>1, <2>2, PieceIsSeq
  <1>3. SUFFICES ASSUME body \o more = got \o s
                 PROVE  IF Len(got) # h.length + 1 THEN InPiece(Payload(h, got), s, rest, k)
                        ELSE /\ BeforePiece(NewReceiver, s, rest, k + 1)
                             /\ read.result = "Ok" <=> p.crc = Crc(h, payload)
                             /\ read.result = "Ok" => read.frame = FrameIn(p)
                             /\ read.result # "None"
    OBVIOUS
  <1>4. CASE Len(got) # h.length + 1
    <2> DEFINE r == Payload(h, got)
    <2>1. r.mode = "Payload" /\ r.header = h /\ r.got = got
      BY DEF Payload
    <2> HIDE DEF r
    <2>2. InPiece(r, s, rest, k)
      BY <1>3, <2>1, Zenon DEF InPiece
    <2> QED BY <1>4, <2>2 DEF r
  <1>5. CASE Len(got) = h.length + 1
    <2>1. body = got /\ more = s
      <3>1. Len(body) = Len(got) /\ body \in Seq(Symbol) /\ more \in Seq(Symbol)
        BY <1>1, <1>2, <1>5
      <3> HIDE DEF body, more
      <3> QED BY <1>3, <3>1, SameFront
    <2>2. BeforePiece(NewReceiver, s, rest, k + 1)
      BY <1>1, <2>1, NextPiece
    <2>3. SubSeq(got, 1, h.length) = payload
      <3> DEFINE front == SubSeq(got, 1, h.length)
      <3>1. 0 \in 0 .. Len(got) /\ h.length \in 0 .. Len(got) /\ h.length - 0 = h.length
        BY <1>2, <1>5, SMTT(30)
      <3>2. front = Part(got, 0, h.length)
        BY DEF Part
      <3>3. /\ Part(got, 0, h.length) \in Seq(Symbol) /\ Len(Part(got, 0, h.length)) = h.length - 0
            /\ \A i \in 1 .. h.length - 0 : Part(got, 0, h.length)[i] = got[0 + i]
        BY <3>1, PartElements
      <3> HIDE DEF front
      <3>4. /\ front \in Seq(Symbol) /\ Len(front) = h.length
            /\ \A i \in 1 .. h.length : front[i] = got[i]
        BY <3>1, <3>2, <3>3
      <3>5. \A i \in 1 .. Len(front) : front[i] = payload[i]
        BY <1>2, <2>1, <3>4
      <3>6. front = payload
        BY <1>2, <3>4, <3>5, SeqEqual, SMTT(30)
      <3> QED BY <3>6 DEF front
    <2>4. got[h.length + 1] = p.crc
      BY <1>2, <2>1
    <2>5. ~(Len(got) < h.length + CrcSize)
      BY <1>2, <1>5, SMTT(30) DEF CrcSize
    <2>6. read = IF p.crc # Crc(h, payload) THEN [result |-> "CrcMismatch", frame |-> NoFrame]
                 ELSE [result |-> "Ok", frame |-> [header |-> h, payload |-> payload]]
      BY <2>3, <2>4, <2>5, Zenon DEF ReadFramePayload
    <2> HIDE DEF read
    <2>7. /\ read.result = "Ok" <=> p.crc = Crc(h, payload)
          /\ read.result = "Ok" => read.frame = FrameIn(p)
          /\ read.result # "None"
      BY <2>6 DEF FrameIn
    <2> QED BY <1>5, <2>2, <2>7
  <1> QED BY <1>4, <1>5

(* One read: the receiver stays where it is among the pieces, with nothing *)
(* to show for it, or it finishes one and is before the next.              *)
LEMMA StreamRead ==
  ASSUME CleanStreams, ReceiverInv, NEW rest, NEW asked, Carries(rest, asked), NEW k \in 0 .. Count,
         BeforePiece(receiver, line, rest, k) \/ InPiece(receiver, line, rest, k),
         NEW n, Receive(n)
  PROVE  LET r == Received(receiver, SubSeq(line, 1, n))
             p == Pieces[k + 1]
         IN  \/ /\ r.result = "None"
                /\ BeforePiece(receiver', line', rest, k) \/ InPiece(receiver', line', rest, k)
             \/ /\ k < Count /\ BeforePiece(receiver', line', rest, k + 1)
                /\ r.result # "None"
                /\ r.result = "Ok" <=> p.crc = Crc(p.header, p.payload)
                /\ r.result = "Ok" => r.frame = FrameIn(p)
  <1> DEFINE chunk == SubSeq(line, 1, n)
             left  == SubSeq(line, n + 1, Len(line))
             got   == receiver.got \o chunk
             r     == Received(receiver, chunk)
             p     == Pieces[k + 1]
  <1>1. GoodReceiver(receiver) /\ line \in Seq(Symbol) /\ receiver.got \in Seq(Symbol)
        /\ Len(receiver.got) \in Nat
    BY DEF ReceiverInv, GoodReceiver
  <1>2. n \in 1 .. Wanted(receiver) /\ n \in 1 .. Len(line) /\ receiver' = r.receiver /\ line' = left
    <2>1. n \in 1 .. Wanted(receiver) /\ n <= Len(line) /\ receiver' = r.receiver /\ line' = left
      BY DEF Receive
    <2>2. n \in 1 .. Len(line)
      BY <1>1, <2>1, WantedFits
    <2> QED BY <2>1, <2>2
  <1>3. /\ left \in Seq(Symbol) /\ Len(chunk) = n /\ got \in Seq(Symbol)
        /\ Len(got) = Len(receiver.got) + n
    BY <1>1, <1>2, ReadMoves
  <1>4. got \o left = receiver.got \o line
    BY <1>1, <1>2, ReadMoves
  <1>5. CASE BeforePiece(receiver, line, rest, k)
    <2>1. receiver.mode = "Header"
      BY <1>5 DEF BeforePiece
    <2>2. PICK noise : Markerless(noise) /\ noise \o From(rest, k) = receiver.got \o line
      BY <1>5 DEF BeforePiece
    <2>3. Len(got) <= HeaderSize
      <3>1. n \in 1 .. HeaderSize - Len(receiver.got)
        BY <1>2, <2>1 DEF Wanted
      <3> QED BY <1>1, <1>3, <3>1 DEF HeaderSize
    <2>4. r = None(IF Len(got) = HeaderSize THEN HeaderRead(got) ELSE Header(got))
      <3>1. Offset(receiver) + Len(chunk) = Len(got)
        BY <1>3, <2>1 DEF Offset
      <3> QED BY <2>1, <3>1 DEF Received
    <2> HIDE DEF r, got, left, chunk
    <2> DEFINE q == IF Len(got) = HeaderSize THEN HeaderRead(got) ELSE Header(got)
    <2>5. noise \o From(rest, k) = got \o left
      BY <1>4, <2>2
    <2>6. BeforePiece(q, left, rest, k) \/ InPiece(q, left, rest, k)
      BY <1>3, <2>2, <2>3, <2>5, HeaderOn
    <2> HIDE DEF q
    <2>7. r = None(q)
      BY <2>4 DEF q
    <2>8. r.result = "None" /\ receiver' = q
      BY <1>2, <2>7 DEF None
    <2> QED BY <1>2, <2>6, <2>8 DEF r, chunk
  <1>6. CASE InPiece(receiver, line, rest, k)
    <2>1. /\ k < Count /\ receiver.mode = "Payload" /\ receiver.header = p.header
          /\ (p.payload \o <<p.crc>>) \o rest[k + 1] = receiver.got \o line
      BY <1>6 DEF InPiece
    <2>2. p.header.length \in Nat
      BY <1>1, <2>1 DEF GoodReceiver, Headers
    <2>3. Len(got) <= p.header.length + 1
      <3>1. n \in 1 .. p.header.length + CrcSize - Len(receiver.got)
        BY <1>2, <2>1 DEF Wanted
      <3> QED BY <1>1, <1>3, <2>2, <3>1, SMTT(30) DEF CrcSize
    <2> DEFINE read == ReadFramePayload(p.header, got)
    <2>4. r = IF Len(got) = p.header.length + 1
              THEN [receiver |-> NewReceiver, result |-> read.result, frame |-> read.frame]
              ELSE None(Payload(p.header, got))
      <3>1. Offset(receiver) + Len(chunk) = Len(got)
        BY <1>3, <2>1 DEF Offset
      <3> QED BY <2>1, <3>1 DEF Received, CrcSize
    <2> HIDE DEF r, got, left, chunk
    <2>5. (p.payload \o <<p.crc>>) \o rest[k + 1] = got \o left
      BY <1>4, <2>1
    <2>6. IF Len(got) # p.header.length + 1 THEN InPiece(Payload(p.header, got), left, rest, k)
          ELSE /\ BeforePiece(NewReceiver, left, rest, k + 1)
               /\ read.result = "Ok" <=> p.crc = Crc(p.header, p.payload)
               /\ read.result = "Ok" => read.frame = FrameIn(p)
               /\ read.result # "None"
      BY <1>3, <2>1, <2>3, <2>5, PayloadOn
    <2> HIDE DEF read
    <2>7. CASE Len(got) # p.header.length + 1
      <3>1. r = None(Payload(p.header, got))
        BY <2>4, <2>7
      <3>2. r.result = "None" /\ receiver' = Payload(p.header, got)
        BY <1>2, <3>1 DEF None
      <3> QED BY <1>2, <2>6, <2>7, <3>2 DEF r, chunk
    <2>8. CASE Len(got) = p.header.length + 1
      <3>1. r = [receiver |-> NewReceiver, result |-> read.result, frame |-> read.frame]
        BY <2>4, <2>8
      <3>2. r.result = read.result /\ r.frame = read.frame /\ receiver' = NewReceiver
        BY <1>2, <3>1
      <3> QED BY <1>2, <2>1, <2>6, <2>8, <3>2 DEF r, chunk
    <2> QED BY <2>7, <2>8
  <1> QED BY <1>5, <1>6

-----------------------------------------------------------------------------
(* A response is the answer of the memory FwService describes. *)

(* The handler's test of a range, with addresses and lengths of 32 bits:   *)
(* when it does not panic it tells what is outside.                        *)
LEMMA RangeTest ==
  ASSUME NEW a \in Nat, NEW n \in Nat, a < AddressSpace, n < AddressSpace, ~BadSlice(a, n)
  PROVE  Outside(a, n) <=> a + n > MemSize
  <1>1. AddressSpace \in Nat /\ MemSize \in Nat /\ MemSize < AddressSpace /\ AddressSpace > 0
    BY ServerAssumption
  <1> DEFINE s == a + n
             e == s % AddressSpace
  <1>2. s \in Nat /\ (s < AddressSpace => e = s) /\ (s >= AddressSpace => e = s - AddressSpace)
    <2>1. s \in Nat /\ s < 2 * AddressSpace
      BY <1>1
    <2> HIDE DEF s
    <2>2. s < AddressSpace => e = s
      BY <1>1, <2>1
    <2>3. s >= AddressSpace => e = s - AddressSpace
      BY <1>1, <2>1
    <2> QED BY <2>1, <2>2, <2>3
  <1>3. Outside(a, n) <=> e > MemSize
    BY DEF Outside, End
  <1>4. e > MemSize \/ (e >= a /\ e <= MemSize)
    BY <1>1, <1>2 DEF BadSlice, Outside, End
  <1> HIDE DEF e
  <1>5. CASE s < AddressSpace
    BY <1>2, <1>3, <1>5
  <1>6. CASE s >= AddressSpace
    <2>1. e = s - AddressSpace /\ e < a /\ s > MemSize
      BY <1>1, <1>2, <1>6
    <2> QED BY <1>1, <1>3, <1>4, <2>1
  <1> QED BY <1>1, <1>5, <1>6

LEMMA ResponseIsAnswer ==
  ASSUME NEW f, f.header \in Headers, f.payload \in Seq(Symbol), Len(f.payload) = f.header.length,
         LengthOk(f), Serviceable(f), ~Panics(f)
  PROVE  /\ AnswerOf(ResponseTo(f)) = Service!Answer(mem, RequestOf(f))
         /\ MemoryAfter(f) = Service!MemAfter(mem, RequestOf(f))
  <1> DEFINE h == f.header
             p == f.payload
             q == RequestOf(f)
             plain == [op |-> h.type, number |-> h.number, address |-> 0, length |-> 0, data |-> <<>>]
  <1>0. /\ h.type \in {"QueryVersion", "ReadMemory", "WriteMemory", "Run"} /\ h.response \in BOOLEAN
        /\ h.number \in Nat /\ h.length \in Nat
    BY DEF Headers, FrameType
  <1>1. ASSUME NEW type, NEW value, Len(value) # 1 \/ type # "Run"
        PROVE  AnswerOf(Frame(type, TRUE, h.number, value)) =
                  [number |-> h.number, op |-> type, value |-> value]
    BY <1>1 DEF AnswerOf, Frame
  <1>2. ASSUME NEW code
        PROVE  AnswerOf(ErrorResponse(h.number, code)) = Service!Error(h.number, code)
    BY DEF AnswerOf, ErrorResponse, Frame, Service!Error
  <1>3. CASE h.response
    <2>1. q = [plain EXCEPT !.op = "Other"]
      BY <1>3 DEF RequestOf
    <2>2. q.op = "Other" /\ q.number = h.number
      BY <2>1
    <2>3. Service!Answer(mem, q) = Service!Error(h.number, 4)
      BY <2>2 DEF Service!Answer
    <2>4. ResponseTo(f) = ErrorResponse(h.number, 4)
      BY <1>3 DEF ResponseTo, ErrorCode
    <2>5. MemoryAfter(f) = mem /\ Service!MemAfter(mem, q) = mem
      BY <1>3, <2>2 DEF MemoryAfter, Service!MemAfter
    <2> QED BY <1>2, <2>3, <2>4, <2>5
  <1>4. CASE ~h.response /\ h.type = "QueryVersion"
    <2>1. q = plain
      BY <1>4 DEF RequestOf
    <2>2. q.op = "QueryVersion" /\ q.number = h.number
      BY <1>4, <2>1
    <2>3. Service!Answer(mem, q) = [number |-> h.number, op |-> "QueryVersion", value |-> <<Version, MaxPayload>>]
      BY <2>2 DEF Service!Answer, Service!Ok
    <2>4. ResponseTo(f) = Frame("QueryVersion", TRUE, h.number, <<Version, MaxPayload>>)
      BY <1>4 DEF ResponseTo
    <2>5. MemoryAfter(f) = mem /\ Service!MemAfter(mem, q) = mem
      BY <1>4, <2>2 DEF MemoryAfter, Service!MemAfter
    <2> HIDE DEF q
    <2> QED BY <1>1, <2>3, <2>4, <2>5 DEF q
  <1>5. CASE ~h.response /\ h.type = "Run"
    <2>1. q = plain
      BY <1>5 DEF RequestOf
    <2>2. q.op = "Run" /\ q.number = h.number
      BY <1>5, <2>1
    <2>3. Service!Answer(mem, q) = [number |-> h.number, op |-> "Run", value |-> <<>>]
      BY <2>2 DEF Service!Answer, Service!Ok
    <2>4. ResponseTo(f) = Frame("Run", TRUE, h.number, <<>>)
      BY <1>5 DEF ResponseTo
    <2>5. MemoryAfter(f) = mem /\ Service!MemAfter(mem, q) = mem
      BY <1>5, <2>2 DEF MemoryAfter, Service!MemAfter
    <2>6. Len(<<>>) # 1
      OBVIOUS
    <2> HIDE DEF q
    <2> QED BY <1>1, <2>3, <2>4, <2>5, <2>6 DEF q
  <1>6. CASE ~h.response /\ h.type = "ReadMemory"
    <2> DEFINE a == p[1]
               n == p[2]
               value == [i \in 1 .. n |-> mem[a + i - 1]]
    <2>1. a \in Nat /\ n \in Nat
      <3>1. Len(p) = 2
        BY <1>6 DEF LengthOk
      <3>2. 1 \in 1 .. Len(p) /\ 2 \in 1 .. Len(p)
        BY <3>1
      <3>3. p[1] \in Symbol /\ p[2] \in Symbol
        BY <3>2, ElementOfSeq
      <3> QED BY <3>3 DEF Symbol
    <2>2. /\ a < AddressSpace /\ n < AddressSpace
          /\ n \in MaxPayload + 1 .. BufferSize - HeaderSize => a + n <= MemSize
      BY <1>6 DEF Serviceable
    <2>3. ~ReadPanics(a, n)
      BY <1>6 DEF Panics
    <2>4. q = [plain EXCEPT !.address = a, !.length = n]
      BY <1>6 DEF RequestOf
    <2>5. q.op = "ReadMemory" /\ q.number = h.number /\ q.address = a /\ q.length = n
      BY <1>6, <2>4
    <2> HIDE DEF q, a, n
    <2>6. MemoryAfter(f) = mem /\ Service!MemAfter(mem, q) = mem
      BY <1>6, <2>5 DEF MemoryAfter, Service!MemAfter
    <2>7. ResponseTo(f) = ReadMemory(h.number, a, n)
      BY <1>6 DEF ResponseTo, a, n
    <2>8. Service!Answer(mem, q) = IF n > MaxPayload THEN Service!Error(h.number, 3)
                                   ELSE IF a + n > MemSize THEN Service!Error(h.number, 2)
                                   ELSE [number |-> h.number, op |-> "ReadMemory", value |-> value]
      BY <2>5 DEF Service!Answer, Service!Outside, Service!Ok
    <2>9. BufferSize \in Nat /\ MaxPayload = BufferSize - 5 /\ CrcSize = 1 /\ HeaderSize = 4
      BY ReceiverAssumption DEF MaxPayload, CrcSize, HeaderSize
    <2>10. CASE n > BufferSize - CrcSize
      <3>1. n > MaxPayload
        BY <2>1, <2>9, <2>10
      <3>2. ReadMemory(h.number, a, n) = ErrorResponse(h.number, 3)
        BY <2>10 DEF ReadMemory, ErrorCode
      <3> QED BY <1>2, <2>6, <2>7, <2>8, <3>1, <3>2 DEF q
    <2>11. CASE ~(n > BufferSize - CrcSize)
      <3>1. /\ ~(n > BufferSize - HeaderSize) /\ ~BadSlice(a, n)
            /\ Outside(a, n) \/ ~(n > MaxPayload)
        BY <2>1, <2>3, <2>9, <2>11 DEF ReadPanics
      <3>3. Outside(a, n) <=> a + n > MemSize
        BY <2>1, <2>2, <3>1, RangeTest
      <3>2. ~(n > MaxPayload)
        <4>1. n > MaxPayload => n \in MaxPayload + 1 .. BufferSize - HeaderSize
          BY <2>1, <2>9, <3>1
        <4>2. MemSize \in Nat
          BY ServerAssumption
        <4> QED BY <2>1, <2>2, <3>1, <3>3, <4>1, <4>2
      <3>4. CASE Outside(a, n)
        <4>1. ReadMemory(h.number, a, n) = ErrorResponse(h.number, 2)
          BY <2>11, <3>4 DEF ReadMemory, ErrorCode
        <4> QED BY <1>2, <2>6, <2>7, <2>8, <3>2, <3>3, <3>4, <4>1 DEF q
      <3>5. CASE ~Outside(a, n)
        <4>1. ReadMemory(h.number, a, n) = Frame("ReadMemory", TRUE, h.number, value)
          BY <2>11, <3>5 DEF ReadMemory
        <4> HIDE DEF value
        <4>2. AnswerOf(Frame("ReadMemory", TRUE, h.number, value)) =
                 [number |-> h.number, op |-> "ReadMemory", value |-> value]
          BY <1>1
        <4> QED BY <2>6, <2>7, <2>8, <3>2, <3>3, <3>5, <4>1, <4>2 DEF q
      <3> QED BY <3>4, <3>5
    <2> QED BY <2>10, <2>11
  <1>7. CASE ~h.response /\ h.type = "WriteMemory"
    <2> DEFINE a    == p[1]
               data == Tail(p)
               n    == h.length - 1
    <2>1. a \in Nat /\ n \in Nat /\ Len(data) = n
      <3>1. h.length >= 1
        BY <1>7 DEF LengthOk
      <3>2. 1 \in 1 .. Len(p) /\ p # <<>>
        BY <1>0, <3>1
      <3>3. p[1] \in Symbol /\ Len(Tail(p)) = Len(p) - 1
        BY <3>2, ElementOfSeq, HeadTailProperties
      <3> QED BY <1>0, <3>1, <3>3 DEF Symbol
    <2>2. a < AddressSpace /\ n < AddressSpace
      BY <1>7 DEF Serviceable
    <2>3. ~BadSlice(a, n)
      BY <1>7 DEF Panics
    <2>4. Outside(a, n) <=> a + n > MemSize
      BY <2>1, <2>2, <2>3, RangeTest
    <2>5. q = [plain EXCEPT !.address = a, !.length = n, !.data = data]
      BY <1>7 DEF RequestOf
    <2>6. q.op = "WriteMemory" /\ q.number = h.number /\ q.address = a /\ q.length = n /\ q.data = data
      BY <1>7, <2>5
    <2>7. ResponseTo(f) = WriteMemory(h.number, a, data)
      BY <1>7 DEF ResponseTo
    <2>8. MemoryAfter(f) = IF ~Outside(a, n)
                           THEN [x \in DOMAIN mem |-> IF x \in a .. a + n - 1 THEN data[x - a + 1] ELSE mem[x]]
                           ELSE mem
      <3> DEFINE new(m) == [x \in DOMAIN mem |-> IF x \in a .. a + m - 1 THEN data[x - a + 1] ELSE mem[x]]
      <3>1. MemoryAfter(f) = IF ~Outside(a, Len(data)) THEN new(Len(data)) ELSE mem
        BY <1>7 DEF MemoryAfter
      <3> HIDE DEF data, new
      <3>2. MemoryAfter(f) = IF ~Outside(a, n) THEN new(n) ELSE mem
        BY <2>1, <3>1
      <3> QED BY <3>2 DEF new
    <2> HIDE DEF q, a, data, n
    <2>9. Service!MemAfter(mem, q) =
             IF ~(a + n > MemSize)
             THEN [x \in DOMAIN mem |-> IF x \in a .. a + n - 1 THEN data[x - a + 1] ELSE mem[x]]
             ELSE mem
      BY <2>6 DEF Service!MemAfter, Service!Outside
    <2>10. Service!Answer(mem, q) = IF a + n > MemSize THEN Service!Error(h.number, 2)
                                    ELSE [number |-> h.number, op |-> "WriteMemory", value |-> <<>>]
      BY <2>6 DEF Service!Answer, Service!Outside, Service!Ok
    <2>11. MemoryAfter(f) = Service!MemAfter(mem, q)
      BY <2>4, <2>8, <2>9
    <2>12. WriteMemory(h.number, a, data) = IF Outside(a, n) THEN ErrorResponse(h.number, 2)
                                            ELSE Frame("WriteMemory", TRUE, h.number, <<>>)
      BY <2>1 DEF WriteMemory, ErrorCode
    <2>13. AnswerOf(Frame("WriteMemory", TRUE, h.number, <<>>)) =
              [number |-> h.number, op |-> "WriteMemory", value |-> <<>>]
      BY <1>1
    <2> QED BY <1>2, <2>4, <2>7, <2>10, <2>11, <2>12, <2>13 DEF q
  <1> QED BY <1>0, <1>3, <1>4, <1>5, <1>6, <1>7

(* The answers with one more. *)
LEMMA AnswersAppended ==
  ASSUME IsSeq(answered), NEW response, answered' = Append(answered, response)
  PROVE  /\ Len(answered') = Len(answered) + 1
         /\ [i \in DOMAIN answered' |-> AnswerOf(answered'[i])] =
               Append([i \in DOMAIN answered |-> AnswerOf(answered[i])], AnswerOf(response))
  <1> DEFINE before == [i \in DOMAIN answered |-> AnswerOf(answered[i])]
             new    == AnswerOf(response)
  <1>1. PICK A : answered \in Seq(A)
    BY DEF IsSeq
  <1>2. /\ Len(answered) \in Nat /\ DOMAIN answered = 1 .. Len(answered)
        /\ DOMAIN answered' = 1 .. Len(answered) + 1 /\ Len(answered') = Len(answered) + 1
        /\ \A i \in 1 .. Len(answered) : answered'[i] = answered[i]
        /\ answered'[Len(answered) + 1] = response
    BY <1>1
  <1>3. before = [i \in 1 .. Len(answered) |-> AnswerOf(answered[i])]
    BY <1>2
  <1>4. [i \in DOMAIN answered' |-> AnswerOf(answered'[i])] =
           [i \in 1 .. Len(answered) + 1 |->
               IF i = Len(answered) + 1 THEN new ELSE AnswerOf(answered[i])]
    <2>1. \A i \in 1 .. Len(answered) + 1 : i = Len(answered) + 1 \/ i \in 1 .. Len(answered)
      BY <1>2
    <2>2. Len(answered) + 1 \notin 1 .. Len(answered)
      BY <1>2
    <2>3. \A i \in 1 .. Len(answered) + 1 :
             AnswerOf(answered'[i]) = IF i = Len(answered) + 1 THEN new ELSE AnswerOf(answered[i])
      BY <1>2, <2>1, <2>2
    <2> QED BY <1>2, <2>3
  <1>5. before \in Seq(Range(before)) /\ Len(before) = Len(answered)
    BY <1>2, <1>3, SeqDef DEF Range
  <1> QED BY <1>2, <1>3, <1>4, <1>5

(* An accepted request is the next of those asked, and it is served. *)
LEMMA RespondServes ==
  ASSUME CleanStreams, IsSeq(answered), NEW k \in 0 .. Count, k < Count,
         NEW rest, NEW asked, Carries(rest, asked), Len(answered) = asked[k],
         Intact(Pieces[k + 1]), NEW r, r.frame = FrameIn(Pieces[k + 1]), Respond(r)
  PROVE  Service!Serve /\ Len(answered') = asked[k + 1]
  <1> DEFINE p == Pieces[k + 1]
             f == FrameIn(p)
             n == Len(answered)
             q == RequestOf(f)
  <1>1. GoodPiece(p) /\ asked[k + 1] = n + 1 /\ Asked[n + 1] = q /\ n + 1 <= Len(Asked)
        /\ n \in Nat /\ Len(Asked) \in Nat
    <2>1. Count \in Nat /\ Len(Asked) \in Nat
      BY DEF CleanStreams, IsSeq, Count
    <2>2. k \in 0 .. Count - 1 /\ k + 1 \in 0 .. Count /\ k + 1 \in 1 .. Count
      BY <2>1
    <2>3. asked[k] \in 0 .. Len(Asked) /\ asked[k + 1] \in 0 .. Len(Asked)
      BY <2>2 DEF Carries
    <2>4. asked[k + 1] = n + 1 /\ Asked[n + 1] = q
      BY <2>2 DEF Carries
    <2> QED BY <2>1, <2>2, <2>3, <2>4 DEF CleanStreams
  <1>2. /\ f.header \in Headers /\ f.payload \in Seq(Symbol) /\ Len(f.payload) = f.header.length
        /\ LengthOk(f) /\ Serviceable(f)
    BY <1>1 DEF FrameIn, GoodPiece, Intact
  <1>3. /\ ~Panics(f) /\ answered' = Append(answered, ResponseTo(f)) /\ mem' = MemoryAfter(f)
    BY DEF Respond
  <1> HIDE DEF f, p
  <1>4. AnswerOf(ResponseTo(f)) = Service!Answer(mem, q) /\ MemoryAfter(f) = Service!MemAfter(mem, q)
    BY <1>2, <1>3, ResponseIsAnswer
  <1>5. /\ Len(answered') = n + 1
        /\ [i \in DOMAIN answered' |-> AnswerOf(answered'[i])] =
              Append([i \in DOMAIN answered |-> AnswerOf(answered[i])], AnswerOf(ResponseTo(f)))
    BY <1>3, AnswersAppended
  <1> HIDE DEF q
  <1> DEFINE todo == SubSeq(Asked, n + 1, Len(Asked))
  <1>6. todo # <<>> /\ Head(todo) = q /\ Tail(todo) = SubSeq(Asked, (n + 1) + 1, Len(Asked))
    <2>1. PICK S : Asked \in Seq(S)
      BY DEF CleanStreams, IsSeq
    <2>2. n + 1 \in 1 .. Len(Asked) /\ Len(Asked) \in n + 1 .. Len(Asked)
      BY <1>1
    <2>3. Head(todo) = Asked[n + 1] /\ Tail(todo) = SubSeq(Asked, (n + 1) + 1, Len(Asked))
      BY <2>1, <2>2, HeadTailOfSubSeq
    <2>4. Len(todo) = Len(Asked) - n /\ Len(todo) > 0
      <3>1. todo = Part(Asked, n, Len(Asked))
        BY DEF Part
      <3>2. n \in 0 .. Len(Asked) /\ Len(Asked) \in n .. Len(Asked)
        BY <1>1
      <3>3. Len(Part(Asked, n, Len(Asked))) = Len(Asked) - n
        BY <2>1, <3>2, PartElements, ZenonT(60)
      <3> HIDE DEF todo
      <3> QED BY <1>1, <3>1, <3>3
    <2> HIDE DEF todo
    <2>5. todo # <<>>
      BY <2>4
    <2> QED BY <1>1, <2>3, <2>5
  <1>7. todo' = SubSeq(Asked, (n + 1) + 1, Len(Asked))
    BY <1>5
  <1>8. Service!Serve
    <2>1. mem' = Service!MemAfter(mem, Head(todo))
      BY <1>3, <1>4, <1>6
    <2>2. [i \in DOMAIN answered' |-> AnswerOf(answered'[i])] =
              Append([i \in DOMAIN answered |-> AnswerOf(answered[i])], Service!Answer(mem, Head(todo)))
      BY <1>4, <1>5, <1>6
    <2>3. todo # <<>> /\ todo' = Tail(todo)
      BY <1>6, <1>7
    <2> QED BY <2>1, <2>2, <2>3 DEF Service!Serve
  <1> QED BY <1>1, <1>5, <1>8

(* Before the first read all is still to come and nothing is answered. *)
LEMMA InitService == CleanStreams /\ ServerInit => ServiceInv /\ Service!Init
  <1> SUFFICES ASSUME CleanStreams, ServerInit PROVE ServiceInv /\ Service!Init
    OBVIOUS
  <1>1. receiver = NewReceiver /\ line \in Lines /\ answered = <<>> /\ mem = [a \in 0 .. MemSize - 1 |-> 0]
    BY DEF ServerInit
  <1>2. PICK rest, asked : Carries(rest, asked) /\ rest[0] = line
    BY <1>1 DEF CleanStreams
  <1>3. Count \in Nat /\ 0 \in 0 .. Count
    BY DEF CleanStreams, IsSeq, Count
  <1>4. BeforePiece(receiver, line, rest, 0)
    BY <1>1, <1>2, <1>3, NextPiece
  <1>5. Len(answered) = asked[0]
    BY <1>1, <1>2 DEF Carries
  <1>6. ServiceInv
    BY <1>2, <1>3, <1>4, <1>5, InitAnswers DEF ServiceInv
  <1>7. Service!Init
    <2>1. mem \in [0 .. MemSize - 1 -> Symbol]
      BY <1>1 DEF Symbol
    <2>2. [i \in DOMAIN answered |-> AnswerOf(answered[i])] = <<>>
      BY <1>1
    <2>3. SubSeq(Asked, Len(answered) + 1, Len(Asked)) = Asked
      <3>1. PICK S : Asked \in Seq(S)
        BY DEF CleanStreams, IsSeq
      <3>2. Len(answered) + 1 = 1
        BY <1>1
      <3> QED BY <3>1, <3>2, SubSeqFull
    <2>4. Asked \in Seq({Asked[i] : i \in 1 .. Len(Asked)})
      <3>1. PICK S : Asked \in Seq(S)
        BY DEF CleanStreams, IsSeq
      <3> DEFINE T == {Asked[i] : i \in 1 .. Len(Asked)}
      <3>2. Len(Asked) \in Nat /\ Asked \in [1 .. Len(Asked) -> T]
        BY <3>1
      <3> HIDE DEF T
      <3>3. Asked \in Seq(T)
        BY <3>2, SeqDef
      <3> QED BY <3>3 DEF T
    <2> QED BY <2>1, <2>2, <2>3, <2>4 DEF Service!Init
  <1> QED BY <1>6, <1>7

(* Every step of the server is one of the memory or leaves it as it is. *)
LEMMA ServiceStep ==
  ASSUME CleanStreams, ServiceInv, [Process]_serverVars
  PROVE  ServiceInv' /\ [Service!Serve]_(Service!vars)
  <1>0. AnswersInv /\ AnswersInv' /\ ReceiverInv /\ IsSeq(answered)
    BY ProcessKeepsAnswers DEF ServiceInv, AnswersInv, AreSequences
  <1>1. ASSUME mem' = mem, answered' = answered
        PROVE  UNCHANGED Service!vars
    BY <1>1 DEF Service!vars
  <1>2. CASE UNCHANGED serverVars
    BY <1>0, <1>1, <1>2 DEF serverVars, ServiceInv
  <1>3. CASE Process
    <2>1. ~panicked
      BY <1>3 DEF Process
    <2>2. PICK rest, asked : /\ Carries(rest, asked)
                             /\ \E k \in 0 .. Count :
                                   /\ Len(answered) = asked[k]
                                   /\ BeforePiece(receiver, line, rest, k) \/ InPiece(receiver, line, rest, k)
      BY <2>1 DEF ServiceInv
    <2>3. PICK k \in 0 .. Count :
                /\ Len(answered) = asked[k]
                /\ BeforePiece(receiver, line, rest, k) \/ InPiece(receiver, line, rest, k)
      BY <2>2
    <2>4. ASSUME UNCHANGED <<receiver, line, mem, panicked, answered>>
          PROVE  ServiceInv' /\ UNCHANGED Service!vars
      BY <1>0, <1>1, <2>4 DEF ServiceInv
    <2>5. CASE \E m \in 1 .. Len(pending) - 1 : WritePending(m)
      BY <2>4, <2>5 DEF WritePending
    <2>6. CASE Idle
      BY <2>4, <2>6 DEF Idle
    <2>7. ASSUME NEW n \in 1 .. BufferSize, ReadSome(n)
          PROVE  ServiceInv' /\ [Service!Serve]_(Service!vars)
      <3> DEFINE r == Received(receiver, SubSeq(line, 1, n))
                 p == Pieces[k + 1]
      <3>1. Receive(n) /\ (ReadOn(r) \/ Respond(r) \/ Panic(r))
        BY <2>7 DEF ReadSome
      <3>2. \/ /\ r.result = "None"
               /\ BeforePiece(receiver', line', rest, k) \/ InPiece(receiver', line', rest, k)
            \/ /\ k < Count /\ BeforePiece(receiver', line', rest, k + 1)
               /\ r.result # "None"
               /\ r.result = "Ok" <=> p.crc = Crc(p.header, p.payload)
               /\ r.result = "Ok" => r.frame = FrameIn(p)
        BY <1>0, <2>2, <2>3, <3>1, StreamRead
      <3> HIDE DEF r
      <3>3. CASE Panic(r)
        <4>1. panicked' /\ mem' = mem /\ answered' = answered
          BY <3>3 DEF Panic
        <4> QED BY <1>0, <1>1, <4>1 DEF ServiceInv
      <3>4. CASE r.result = "None" /\ ~Panic(r)
        <4>1. ReadOn(r)
          BY <3>1, <3>4 DEF Respond, Accepted
        <4>2. mem' = mem /\ answered' = answered
          BY <4>1 DEF ReadOn
        <4>3. BeforePiece(receiver', line', rest, k) \/ InPiece(receiver', line', rest, k)
          BY <3>2, <3>4
        <4> QED BY <1>0, <1>1, <2>2, <2>3, <4>2, <4>3 DEF ServiceInv
      <3>5. CASE r.result # "None" /\ ~Panic(r)
        <4>1. /\ k < Count /\ BeforePiece(receiver', line', rest, k + 1)
              /\ r.result = "Ok" <=> p.crc = Crc(p.header, p.payload)
              /\ r.result = "Ok" => r.frame = FrameIn(p)
          BY <3>2, <3>5
        <4>2. Accepted(r) <=> Intact(p)
          BY <4>1 DEF Accepted, Intact
        <4>3. k \in 0 .. Count - 1 /\ k + 1 \in 0 .. Count
          <5>1. Count \in Nat
            BY DEF CleanStreams, IsSeq, Count
          <5> QED BY <4>1, <5>1
        <4>4. CASE ReadOn(r)
          <5>1. mem' = mem /\ answered' = answered /\ ~Accepted(r)
            BY <4>4 DEF ReadOn
          <5>2. asked[k + 1] = asked[k]
            BY <2>2, <4>2, <4>3, <5>1 DEF Carries
          <5> QED BY <1>0, <1>1, <2>2, <2>3, <4>1, <4>3, <5>1, <5>2 DEF ServiceInv
        <4>5. CASE Respond(r)
          <5>1. Accepted(r)
            BY <4>5 DEF Respond
          <5>2. Intact(p) /\ r.frame = FrameIn(p)
            BY <4>1, <4>2, <5>1 DEF Accepted
          <5>3. Service!Serve /\ Len(answered') = asked[k + 1]
            BY <1>0, <2>2, <2>3, <4>1, <4>5, <5>2, RespondServes
          <5> QED BY <1>0, <2>2, <4>1, <4>3, <5>3 DEF ServiceInv
        <4> QED BY <3>1, <3>5, <4>4, <4>5
      <3> QED BY <3>3, <3>4, <3>5
    <2> QED BY <1>3, <2>5, <2>6, <2>7 DEF Process
  <1> QED BY <1>2, <1>3

(***************************************************************************)
(* The server is the memory FwService describes: each intact request of a  *)
(* clean stream is answered at most once, in order, with the memory as     *)
(* those before it left it, and what is damaged or no request has no       *)
(* effect; for any number of requests, every memory and buffer size and    *)
(* checksum, and however reads and writes are cut.                         *)
(***************************************************************************)
THEOREM ServiceCorrect == CleanStreams => (ServerSpec => Service!Spec)
  <1> SUFFICES ASSUME CleanStreams PROVE ServerSpec => Service!Spec
    OBVIOUS
  <1>1. ServerInit => ServiceInv /\ Service!Init
    BY InitService
  <1>2. ServiceInv /\ [Process]_serverVars => ServiceInv' /\ [Service!Serve]_(Service!vars)
    BY ServiceStep
  <1> QED BY <1>1, <1>2, PTL DEF ServerSpec, Service!Spec
=============================================================================
