----------------------------- MODULE BoardProofs ----------------------------
(***************************************************************************)
(* Proofs about the board, for queues of any depth, any bytes, responses   *)
(* and greeting: its types, that a status register once read stays true    *)
(* until the access it allows, that responses go out whole, that each step *)
(* is one of ByteStream or none, and that the echo is in order.            *)
(***************************************************************************)
EXTENDS Board, BusLemmas, SequenceTheorems

-----------------------------------------------------------------------------
(* What one access does, as a step of the devices. *)

(* A load of the status register shows both flags and changes nothing else. *)
LEMMA StatusStep ==
  ASSUME DevicesTypeOK, NEW addr, IsStatus(addr), JustLoad(addr)
  PROVE  /\ word' \in Word
         /\ 0 \in word' <=> Len(txQueue) < Depth
         /\ 1 \in word' <=> rxQueue # <<>>
         /\ UNCHANGED <<outReg, inReg, txQueue, rxQueue>>
         /\ DevicesTypeOK'
  <1>1. PICK junk \in Junk :
           /\ word' = LoadWord(outReg, inReg, txQueue, rxQueue, addr, junk)
           /\ rxQueue' = RxAfterLoad(rxQueue, addr)
    BY DEF JustLoad, Load
  <1>2. /\ word' \subseteq {0, 1}
        /\ 0 \in word' <=> Len(txQueue) < Depth
        /\ 1 \in word' <=> rxQueue # <<>>
        /\ rxQueue' = rxQueue
    BY <1>1, StatusLoad
  <1>3. word' \in Word
    BY <1>2 DEF Word, Positions
  <1>4. UNCHANGED <<outReg, inReg, txQueue>>
    BY DEF JustLoad, Load
  <1> QED
    BY <1>2, <1>3, <1>4 DEF DevicesTypeOK

(* A load of the data register while a byte is there takes it. *)
LEMMA DataStep ==
  ASSUME DevicesTypeOK, rxQueue # <<>>, NEW addr, IsData(addr), JustLoad(addr)
  PROVE  /\ word' = Head(rxQueue) \cup {16}
         /\ Head(rxQueue) \in Byte
         /\ rxQueue' = Tail(rxQueue)
         /\ UNCHANGED <<outReg, inReg, txQueue>>
         /\ DevicesTypeOK'
  <1>1. PICK junk \in Junk :
           /\ word' = LoadWord(outReg, inReg, txQueue, rxQueue, addr, junk)
           /\ rxQueue' = RxAfterLoad(rxQueue, addr)
    BY DEF JustLoad, Load
  <1>2. junk \in Byte /\ rxQueue \in Seq(Byte)
    BY JunkAssumption DEF DevicesTypeOK
  <1>3. word' = Head(rxQueue) \cup {16} /\ rxQueue' = Tail(rxQueue)
    <2>1. /\ LoadWord(outReg, inReg, txQueue, rxQueue, addr, junk) = Head(rxQueue) \cup {16}
          /\ RxAfterLoad(rxQueue, addr) = Tail(rxQueue)
      BY <1>2, DataLoad
    <2> QED
      BY <1>1, <2>1
  <1>4. UNCHANGED <<outReg, inReg, txQueue>>
    BY DEF JustLoad, Load
  <1>5. Head(rxQueue) \in Byte /\ Tail(rxQueue) \in Seq(Byte) /\ Len(Tail(rxQueue)) = Len(rxQueue) - 1
    BY <1>2, HeadTailProperties
  <1>6. Len(rxQueue') <= Depth
    BY <1>2, <1>3, <1>5, DepthAssumption DEF DevicesTypeOK
  <1>7. word' \in Word
    BY <1>3, <1>5, ByteIsWord DEF Word
  <1> QED
    BY <1>3, <1>4, <1>5, <1>6, <1>7 DEF DevicesTypeOK

(* A store to the data register appends its byte while there is room.     *)
LEMMA SendStep ==
  ASSUME DevicesTypeOK, NEW addr, IsData(addr), NEW b \in Byte, JustStore(addr, b)
  PROVE  /\ txQueue' = IF Len(txQueue) < Depth THEN Append(txQueue, b) ELSE txQueue
         /\ UNCHANGED <<outReg, inReg, rxQueue, word>>
         /\ DevicesTypeOK'
  <1>1. b \in SUBSET Positions /\ b \cap (0 .. 7) = b
    BY ByteIsWord
  <1>2. /\ outReg' = outReg
        /\ txQueue' = IF Len(txQueue) < Depth THEN Append(txQueue, b) ELSE txQueue
        /\ UNCHANGED <<inReg, rxQueue, word>>
    BY <1>1, DataStore DEF JustStore, Store
  <1>3. Append(txQueue, b) \in Seq(Byte) /\ Len(Append(txQueue, b)) = Len(txQueue) + 1
    BY AppendProperties DEF DevicesTypeOK
  <1>4. txQueue' \in Seq(Byte) /\ Len(txQueue') <= Depth
    BY <1>2, <1>3, DepthAssumption, LenProperties DEF DevicesTypeOK
  <1> QED
    BY <1>2, <1>4 DEF DevicesTypeOK

(* A store to the LEDs changes neither queue. *)
LEMMA LedStep ==
  ASSUME DevicesTypeOK, NEW w \in Word, JustStore(led_out.offset, w)
  PROVE  /\ UNCHANGED <<inReg, txQueue, rxQueue, word>>
         /\ DevicesTypeOK'
  <1>1. led_out.offset \in Int /\ AtGpio(led_out.offset)
    BY GpioOffsets DEF GpioRegisters
  <1>2. txQueue' = txQueue
    BY <1>1, GpioStoreSends DEF JustStore, Store
  <1>3. outReg' = GpioStore(outReg, led_out.offset, w, AllLanes)
    BY <1>1 DEF JustStore, Store, OutAfterStore
  <1>4. outReg' \in [Ports -> Word]
    BY <1>3 DEF GpioStore, DevicesTypeOK, Word
  <1> QED
    BY <1>2, <1>4 DEF JustStore, DevicesTypeOK

-----------------------------------------------------------------------------
(* The inductive invariant. *)

(* A flag of the status register that the program has read is still true   *)
(* when the program acts on it: only the program fills the transmit queue  *)
(* and empties the receive queue.  Of the boot program that is so while    *)
(* the core enters its interrupts between two instructions.                *)
StatusFresh ==
    /\ pc = "w_data" /\ 0 \in word => Len(txQueue) < Depth
    /\ pc = "r_data" /\ 1 \in word => rxQueue # <<>>
    /\ precise /\ pc \in {"h_send", "send"} => Len(txQueue) < Depth

(* Where the programs are in what they send. *)
Position ==
    /\ pc \in {"w_status", "w_data", "enable", "h_poll", "h_send"} => count < Len(pending)
    /\ pc \in {"start", "led", "r_status", "r_data", "r_end"} => count = 0
    /\ pc \in {"start", "r_status", "r_data", "r_end"} => pending = <<>>
    /\ image = "bootrom" =>
          /\ last \in {"enable", "h_poll"} => count < Len(pending)
          /\ last = "h_send" => pc = last \/ count > 0

(* What the boot program may send back are bytes. *)
EchoBytes == LowByte(uart_rx_data) \in Bytes /\ LowByte(cached) \in Bytes

IInv == TypeOK /\ StatusFresh /\ Position /\ EchoBytes /\ ResponsesWhole

(* The stream without a promise: of the queues and histories as they are.  *)
Plain == INSTANCE ByteStream WITH
    Data <- Bytes, Capacity <- Depth + 1, SendDepth <- Depth,
    pending <- rxQueue \o held, consumed <- got,
    output <- txQueue, written <- told, sent <- wire

StreamStep == precise => [Plain!StreamNext]_(Plain!streamVars)

(* The board starts in the invariant, with an empty stream. *)
LEMMA InitIInv == BoardInit => IInv /\ Plain!StreamInit
  <1> SUFFICES ASSUME BoardInit PROVE IInv /\ Plain!StreamInit
    OBVIOUS
  <1> USE DEF BoardInit, PortInit, ServerInit, RomInit
  <1>1. <<>> \in Seq(Bytes) /\ <<>> \in Seq(Byte) /\ Len(<<>>) = 0 /\ {} \in Word /\ {} \in Bytes
    BY BytesAssumption DEF Word
  <1>2. pending \in Seq(Bytes) /\ count \in 0 .. Len(pending) /\ (image = "bootrom" => count < Len(pending))
    <2>1. CASE image = "server"
      BY <1>1, <2>1
    <2>2. CASE image = "bootrom"
      <3>1. Hello \in Seq(Bytes) /\ Len(Hello) \in Nat /\ Len(Hello) > 0
        BY HelloAssumption, EmptySeq
      <3> QED
        BY <2>2, <3>1
    <2> QED
      BY <2>1, <2>2
  <1>3. DevicesTypeOK
    BY <1>1, DepthAssumption DEF DevicesTypeOK
  <1>4. PortTypeOK
    BY <1>1, <1>2, <1>3, ArrivalsAssumption DEF PortTypeOK
  <1>5. ServerTypeOK /\ RomTypeOK
    <2>1. led_out_next \in SUBSET (0 .. 5) /\ want \in 1 .. MaxRead
      BY ReadAssumption
    <2> QED
      BY <1>1, <2>1 DEF ServerTypeOK, RomTypeOK, RomSteps
  <1>6. TypeOK
    BY <1>4, <1>5 DEF TypeOK, ServerSteps, RomSteps
  <1>7. StatusFresh /\ Position /\ EchoBytes
    BY <1>1, <1>2 DEF StatusFresh, Position, EchoBytes, LowByte
  <1>8. ResponsesWhole
    BY <1>1 DEF ResponsesWhole, Rest
  <1> QED
    BY <1>1, <1>6, <1>7, <1>8 DEF IInv, Plain!StreamInit
-----------------------------------------------------------------------------
(* Queues: what is taken from one and put behind another.                  *)

(* An element moved from the front of one queue to the end of another      *)
(* stays where it is in the two together.                                  *)
LEMMA MoveOver ==
  ASSUME NEW S, NEW s \in Seq(S), NEW q \in Seq(S), q # <<>>
  PROVE  Append(s, Head(q)) \o Tail(q) = s \o q
  <1>1. Head(q) \in S /\ Tail(q) \in Seq(S)
    BY HeadTailProperties
  <1>2. q = <<Head(q)>> \o Tail(q)
    <2>1. Len(q) \in Nat \ {0}
      BY EmptySeq
    <2>2. SubSeq(q, 1, Len(q)) = <<q[1]>> \o SubSeq(q, 2, Len(q))
      BY <2>1, SubSeqRecursiveFirst, 1 \in 1 .. Len(q), Len(q) \in 1 .. Len(q)
    <2>3. q = SubSeq(q, 1, Len(q)) /\ Tail(q) = SubSeq(q, 2, Len(q)) /\ Head(q) = q[1]
      BY SubSeqFull, TailIsSubSeq
    <2> QED
      BY <2>2, <2>3
  <1>3. Append(s, Head(q)) = s \o <<Head(q)>>
    BY <1>1, AppendIsConcat
  <1>4. (s \o <<Head(q)>>) \o Tail(q) = s \o (<<Head(q)>> \o Tail(q))
    <2>1. <<Head(q)>> \in Seq(S)
      BY <1>1
    <2> QED
      BY <1>1, <2>1, ConcatAssociative
  <1> QED
    BY <1>2, <1>3, <1>4

(* The first elements of a concatenation whose first part is long enough. *)
LEMMA FrontOfTwo ==
  ASSUME NEW S, NEW q \in Seq(S), NEW h \in Seq(S), q # <<>>
  PROVE  /\ q \o h # <<>>
         /\ Head(q \o h) = Head(q)
         /\ Tail(q \o h) = Tail(q) \o h
  <1>1. Len(q) \in Nat \ {0} /\ Len(h) \in Nat
    BY EmptySeq, LenProperties
  <1>2. q \o h \in Seq(S) /\ Len(q \o h) = Len(q) + Len(h) /\ (q \o h)[1] = q[1]
    BY <1>1, ConcatProperties
  <1>3. q \o h # <<>>
    BY <1>1, <1>2, EmptySeq
  <1>4. Tail(q) \in Seq(S) /\ Len(Tail(q)) = Len(q) - 1
        /\ \A i \in 1 .. Len(Tail(q)) : Tail(q)[i] = q[i + 1]
    BY HeadTailProperties
  <1>5. Tail(q \o h) \in Seq(S) /\ Len(Tail(q \o h)) = Len(q) + Len(h) - 1
        /\ \A i \in 1 .. Len(q) + Len(h) - 1 : Tail(q \o h)[i] = (q \o h)[i + 1]
    BY <1>2, <1>3, HeadTailProperties
  <1>6. Tail(q) \o h \in Seq(S) /\ Len(Tail(q) \o h) = Len(q) - 1 + Len(h)
        /\ \A i \in 1 .. Len(q) - 1 + Len(h) : (Tail(q) \o h)[i] =
                IF i <= Len(q) - 1 THEN Tail(q)[i] ELSE h[i - (Len(q) - 1)]
    BY <1>4, ConcatProperties
  <1>7. \A i \in 1 .. Len(q) + Len(h) - 1 : Tail(q \o h)[i] = (Tail(q) \o h)[i]
    <2> TAKE i \in 1 .. Len(q) + Len(h) - 1
    <2>1. i + 1 \in 1 .. Len(q) + Len(h) /\ i \in 1 .. Len(q) - 1 + Len(h)
      BY <1>1
    <2>2. (q \o h)[i + 1] = IF i + 1 <= Len(q) THEN q[i + 1] ELSE h[i + 1 - Len(q)]
      BY <2>1, ConcatProperties
    <2>3. CASE i <= Len(q) - 1
      BY <1>1, <1>4, <1>5, <1>6, <2>1, <2>2, <2>3
    <2>4. CASE ~(i <= Len(q) - 1)
      BY <1>1, <1>5, <1>6, <2>1, <2>2, <2>4
    <2> QED
      BY <2>3, <2>4
  <1>8. Tail(q \o h) = Tail(q) \o h
    BY <1>5, <1>6, <1>7, SeqEqual, Len(Tail(q \o h)) = Len(Tail(q) \o h)
  <1> QED
    BY <1>2, <1>3, <1>8

(* What is left of a sequence of which one more is taken.                  *)
LEMMA RestStep ==
  ASSUME NEW S, NEW s \in Seq(S), NEW n \in Nat, n < Len(s), NEW t \in Seq(S)
  PROVE  Append(t, s[n + 1]) \o Rest(s, n + 1) = t \o Rest(s, n)
  <1>1. Len(s) \in Nat
    BY LenProperties
  <1>2. n + 1 \in 1 .. Len(s) /\ Len(s) \in n + 1 .. Len(s)
    BY <1>1
  <1>3. s[n + 1] \in S
    BY <1>2, ElementOfSeq
  <1>4. Rest(s, n) = <<s[n + 1]>> \o Rest(s, n + 1)
    BY <1>2, SubSeqRecursiveFirst DEF Rest
  <1>5. Rest(s, n + 1) \in Seq(S)
    <2>1. \A i \in n + 2 .. Len(s) : s[i] \in S
      BY ElementOfSeq, <1>1
    <2> QED
      BY <1>1, <2>1, SubSeqProperties, n + 1 + 1 = n + 2 DEF Rest
  <1>6. Append(t, s[n + 1]) = t \o <<s[n + 1]>> /\ <<s[n + 1]>> \in Seq(S)
    BY <1>3, AppendIsConcat
  <1>7. (t \o <<s[n + 1]>>) \o Rest(s, n + 1) = t \o (<<s[n + 1]>> \o Rest(s, n + 1))
    BY <1>5, <1>6, ConcatAssociative, SMTT(30)
  <1> QED
    BY <1>4, <1>6, <1>7

(* The rest of a sequence from its begin, at its end and in between. *)
LEMMA RestEnds ==
  ASSUME NEW S, NEW s \in Seq(S)
  PROVE  /\ Rest(s, 0) = s
         /\ Rest(s, Len(s)) = <<>>
         /\ \A n \in 0 .. Len(s) : Rest(s, n) \in Seq(S) /\ Len(Rest(s, n)) = Len(s) - n
  <1>1. Len(s) \in Nat
    BY LenProperties
  <1>2. Rest(s, 0) = s
    BY SubSeqFull, 0 + 1 = 1 DEF Rest
  <1>3. Rest(s, Len(s)) = <<>>
    BY <1>1, SubSeqEmpty DEF Rest
  <1>4. ASSUME NEW n \in 0 .. Len(s)
        PROVE  Rest(s, n) \in Seq(S) /\ Len(Rest(s, n)) = Len(s) - n
    <2>1. \A i \in n + 1 .. Len(s) : s[i] \in S
      BY <1>1, ElementOfSeq
    <2>2. Rest(s, n) \in Seq(S) /\ Len(Rest(s, n)) = IF n + 1 <= Len(s) THEN Len(s) - (n + 1) + 1 ELSE 0
      BY <1>1, <2>1, SubSeqProperties DEF Rest
    <2> QED
      BY <1>1, <2>2
  <1> QED
    BY <1>2, <1>3, <1>4

-----------------------------------------------------------------------------
(* Facts of a state in which the invariant holds.                          *)

(* The bytes of an instance are bytes. *)
LEMMA BytesAreByte == Bytes \subseteq Byte /\ {} \in Bytes /\ Seq(Bytes) \subseteq Seq(Byte)
  <1>1. Bytes \subseteq Byte /\ {} \in Bytes
    BY BytesAssumption
  <1>2. \A s \in Seq(Bytes) : s \in Seq(Byte)
    BY <1>1, SeqMonotonic
  <1> QED
    BY <1>1, <1>2

(* The receiver holds one byte at most. *)
LEMMA OneHeld ==
  ASSUME NEW S, NEW h \in Seq(S), h # <<>>, Len(h) <= 1
  PROVE  h = <<h[1]>> /\ h[1] \in S /\ Len(h) = 1
  <1>1. Len(h) \in Nat \ {0}
    BY EmptySeq
  <1>2. Len(h) = 1
    BY <1>1
  <1>3. h[1] \in S
    BY <1>2, ElementOfSeq
  <1>4. <<h[1]>> \in Seq(S) /\ Len(<<h[1]>>) = 1 /\ <<h[1]>>[1] = h[1]
    BY <1>3
  <1>5. h = <<h[1]>>
    BY <1>2, <1>4, SeqEqual
  <1> QED
    BY <1>2, <1>3, <1>5

(* What the types say of the queues. *)
LEMMA QueueFacts ==
  ASSUME TypeOK
  PROVE  /\ Len(rxQueue) \in Nat /\ Len(txQueue) \in Nat /\ Len(pending) \in Nat
         /\ Len(rxQueue) <= Depth /\ Len(txQueue) <= Depth
         /\ held # <<>> => held = <<held[1]>> /\ held[1] \in Bytes /\ Len(held) = 1
         /\ rxQueue \o held \in Seq(Bytes)
         /\ rxQueue \o <<>> = rxQueue
  <1> USE DEF TypeOK, PortTypeOK, DevicesTypeOK
  <1>1. Len(rxQueue) \in Nat /\ Len(txQueue) \in Nat /\ Len(pending) \in Nat
    BY LenProperties
  <1>2. Len(rxQueue) <= Depth /\ Len(txQueue) <= Depth
    OBVIOUS
  <1>3. held # <<>> => held = <<held[1]>> /\ held[1] \in Bytes /\ Len(held) = 1
    <2>1. held \in Seq(Bytes) /\ Len(held) <= 1
      OBVIOUS
    <2> HIDE DEF TypeOK, PortTypeOK, DevicesTypeOK
    <2> QED
      BY <2>1, OneHeld
  <1>4. rxQueue \o held \in Seq(Bytes) /\ rxQueue \o <<>> = rxQueue
    BY ConcatProperties, ConcatEmptySeq
  <1> QED
    BY <1>1, <1>2, <1>3, <1>4

-----------------------------------------------------------------------------
(* The hardware next to the program. *)

(* A byte that arrives: it waits for the queue. *)
LEMMA ReceiveKeeps ==
  ASSUME IInv, Receive, UNCHANGED <<serverVars, romVars, envVars>>
  PROVE  IInv' /\ StreamStep
  <1>0. TypeOK
    BY DEF IInv
  <1> DEFINE b == Arriving[arrivals + 1]
  <1>1. arrivals' = arrivals + 1 /\ arrivals' \in 0 .. Len(Arriving) /\ b \in Bytes
    <2>1. Len(Arriving) \in Nat /\ arrivals \in Nat
      BY <1>0, ArrivalsAssumption, LenProperties DEF TypeOK, PortTypeOK
    <2>2. arrivals + 1 \in 1 .. Len(Arriving)
      BY <2>1 DEF Receive
    <2> QED
      BY <2>1, <2>2, ArrivalsAssumption, ElementOfSeq DEF Receive
  <1>2. held' = <<b>> /\ held' \in Seq(Bytes) /\ Len(held') = 1
    BY <1>1 DEF Receive
  <1>3. UNCHANGED <<devices, wire, progVars>>
    BY DEF Receive
  <1>4. TypeOK'
    BY <1>0, <1>1, <1>2, <1>3 DEF TypeOK, PortTypeOK, DevicesTypeOK, ServerTypeOK, RomTypeOK,
         devices, progVars, sendVars, serverVars, romVars, mainVars, envVars
  <1>5. StatusFresh' /\ Position' /\ EchoBytes' /\ ResponsesWhole'
    BY <1>3 DEF IInv, StatusFresh, Position, EchoBytes, ResponsesWhole, devices, progVars, sendVars,
         serverVars, romVars, mainVars, envVars
  <1>6. StreamStep
    <2>1. (rxQueue \o held)' = Append(rxQueue, b)
      BY <1>0, <1>1, <1>2, <1>3, AppendIsConcat, BytesAreByte DEF TypeOK, PortTypeOK, devices
    <2>2. CASE held = <<>>
      <3>1. rxQueue \o held = rxQueue /\ Len(rxQueue) < Depth + 1
        BY <1>0, <2>2, QueueFacts, DepthAssumption
      <3> QED
        BY <1>1, <1>3, <2>1, <3>1
          DEF StreamStep, Plain!StreamNext, Plain!Arrive, devices, progVars
    <2>3. CASE held # <<>>
      <3>1. Len(rxQueue) = Depth /\ Len(held) = 1 /\ rxQueue \in Seq(Bytes) /\ held \in Seq(Bytes)
        BY <1>0, <2>3, QueueFacts DEF Receive, TypeOK, PortTypeOK
      <3>2. Len(rxQueue \o held) = Depth + 1
        <4>1. Len(rxQueue \o held) = Len(rxQueue) + Len(held)
          BY <3>1, ConcatProperties
        <4> QED
          BY <3>1, <4>1
      <3>3. SubSeq(rxQueue \o held, 1, Depth) = rxQueue
        BY <3>1, SubSeqOfConcat1, SubSeqFull, DepthAssumption, 1 \in 1 .. Depth,
             Depth \in 1 .. Depth
      <3>4. (Depth + 1) - 1 = Depth /\ ~(Len(rxQueue \o held) < Depth + 1)
        BY <3>2, DepthAssumption
      <3>5. SubSeq(rxQueue \o held, 1, (Depth + 1) - 1) = rxQueue
        BY <3>3, <3>4
      <3>6. UNCHANGED <<got, txQueue, told, wire>>
        BY <1>3 DEF devices, progVars
      <3>7. Plain!Arrive(b)
        BY <2>1, <3>4, <3>5, <3>6 DEF Plain!Arrive
      <3> QED
        BY <1>1, <3>7 DEF StreamStep, Plain!StreamNext
    <2> QED
      BY <2>2, <2>3
  <1> QED
    BY <1>4, <1>5, <1>6 DEF IInv

(* The queue takes what the receiver holds: a flag read before stays true. *)
LEMMA EnqueueKeeps ==
  ASSUME IInv, Enqueue, UNCHANGED <<serverVars, romVars, envVars>>
  PROVE  IInv' /\ StreamStep
  <1>0. TypeOK
    BY DEF IInv
  <1>1. held = <<held[1]>> /\ held[1] \in Bytes
    BY <1>0, QueueFacts DEF Enqueue
  <1>2. /\ rxQueue' = Append(rxQueue, held[1]) /\ held' = <<>>
        /\ UNCHANGED <<outReg, inReg, txQueue, word, arrivals, wire, progVars>>
    BY DEF Enqueue
  <1>3. rxQueue' \in Seq(Bytes) /\ Len(rxQueue') = Len(rxQueue) + 1 /\ rxQueue' # <<>>
        /\ rxQueue' = rxQueue \o held
    <2>1. rxQueue \in Seq(Bytes)
      BY <1>0 DEF TypeOK, PortTypeOK
    <2>2. Append(rxQueue, held[1]) = rxQueue \o <<held[1]>>
      BY <1>1, <2>1, AppendIsConcat
    <2> QED
      BY <1>1, <1>2, <2>1, <2>2, AppendProperties, ZenonT(60)
  <1>4. Len(rxQueue') <= Depth /\ rxQueue' \in Seq(Byte) /\ <<>> \in Seq(Bytes) /\ Len(<<>>) = 0
    BY <1>0, <1>3, BytesAreByte, QueueFacts, DepthAssumption DEF Enqueue
  <1>5. TypeOK'
    BY <1>0, <1>2, <1>3, <1>4 DEF TypeOK, PortTypeOK, DevicesTypeOK, ServerTypeOK, RomTypeOK,
         progVars, sendVars, serverVars, romVars, mainVars, envVars
  <1>6. StatusFresh' /\ Position' /\ EchoBytes' /\ ResponsesWhole'
    BY <1>2, <1>3 DEF IInv, StatusFresh, Position, EchoBytes, ResponsesWhole, progVars, sendVars,
         serverVars, romVars, mainVars, envVars
  <1>7. (rxQueue \o held)' = rxQueue \o held
    BY <1>2, <1>3, <1>4, ConcatEmptySeq
  <1>8. StreamStep
    BY <1>2, <1>7 DEF StreamStep, Plain!streamVars, progVars
  <1> QED
    BY <1>5, <1>6, <1>8 DEF IInv

(* The transmitter takes a byte: a flag read before stays true. *)
LEMMA TransmitKeeps ==
  ASSUME IInv, Transmit, UNCHANGED <<serverVars, romVars, envVars>>
  PROVE  IInv' /\ StreamStep
  <1>0. TypeOK
    BY DEF IInv
  <1>1. /\ txQueue # <<>> /\ wire' = Append(wire, Head(txQueue)) /\ txQueue' = Tail(txQueue)
        /\ UNCHANGED <<outReg, inReg, rxQueue, word, held, arrivals, progVars>>
    BY DEF Transmit
  <1>2. txQueue \in Seq(Bytes) /\ wire \in Seq(Bytes)
    BY <1>0 DEF TypeOK, PortTypeOK
  <1>3. txQueue' \in Seq(Bytes) /\ Len(txQueue') = Len(txQueue) - 1 /\ wire' \in Seq(Bytes)
    BY <1>1, <1>2, HeadTailProperties, AppendProperties
  <1>4. Len(txQueue') <= Depth /\ Len(txQueue') < Depth /\ txQueue' \in Seq(Byte)
    BY <1>0, <1>3, BytesAreByte, QueueFacts, DepthAssumption
  <1>5. TypeOK'
    BY <1>0, <1>1, <1>3, <1>4 DEF TypeOK, PortTypeOK, DevicesTypeOK, ServerTypeOK, RomTypeOK,
         progVars, sendVars, serverVars, romVars, mainVars, envVars
  <1>6. StatusFresh' /\ Position' /\ EchoBytes'
    BY <1>1, <1>4 DEF IInv, StatusFresh, Position, EchoBytes, progVars, sendVars,
         serverVars, romVars, mainVars, envVars
  <1>7. wire' \o txQueue' = wire \o txQueue
    BY <1>1, <1>2, MoveOver
  <1>8. ResponsesWhole'
    BY <1>1, <1>7 DEF IInv, ResponsesWhole, progVars, sendVars, serverVars, envVars
  <1>9. StreamStep
    BY <1>1 DEF StreamStep, Plain!StreamNext, Plain!Send, progVars
  <1> QED
    BY <1>5, <1>6, <1>8, <1>9 DEF IInv

-----------------------------------------------------------------------------
(* The steps of the firmware. *)

(* Steps that touch no device: the program goes from one place to the next. *)
LEMMA TakeKeeps ==
  ASSUME IInv, Take, UNCHANGED <<romVars, envVars>>, image = "server"
  PROVE  IInv' /\ StreamStep
  <1>1. TypeOK'
    BY DEF IInv, Take, TypeOK, PortTypeOK, DevicesTypeOK, ServerTypeOK, RomTypeOK,
         ServerSteps, RomSteps, devices, lineHist, lineVars, progVars, sendVars, serverVars, romVars, mainVars, envVars
  <1>2. StatusFresh' /\ Position' /\ EchoBytes' /\ ResponsesWhole'
    BY DEF IInv, Take, StatusFresh, Position, EchoBytes, ResponsesWhole, devices, lineHist,
         lineVars, progVars, sendVars,
         serverVars, romVars, mainVars, envVars
  <1>3. StreamStep
    BY DEF Take, StreamStep, Plain!streamVars, devices, lineHist, lineVars, progVars, sendVars,
         serverVars, romVars, mainVars, envVars
  <1> QED
    BY <1>1, <1>2, <1>3 DEF IInv

(* The driver finds no room and tries again. *)
LEMMA WriteBlocksKeeps ==
  ASSUME IInv, WriteBlocks, UNCHANGED <<romVars, envVars>>, image = "server"
  PROVE  IInv' /\ StreamStep
  <1>1. TypeOK'
    BY DEF IInv, WriteBlocks, TypeOK, PortTypeOK, DevicesTypeOK, ServerTypeOK, RomTypeOK,
         ServerSteps, RomSteps, devices, lineHist, lineVars, progVars, sendVars, serverVars, romVars, mainVars, envVars
  <1>2. StatusFresh' /\ Position' /\ EchoBytes' /\ ResponsesWhole'
    BY DEF IInv, WriteBlocks, StatusFresh, Position, EchoBytes, ResponsesWhole, devices, lineHist,
         lineVars, progVars, sendVars,
         serverVars, romVars, mainVars, envVars
  <1>3. StreamStep
    BY DEF WriteBlocks, StreamStep, Plain!streamVars, devices, lineHist, lineVars, progVars,
         sendVars,
         serverVars, romVars, mainVars, envVars
  <1> QED
    BY <1>1, <1>2, <1>3 DEF IInv

(* The driver finds no byte and tries again. *)
LEMMA ReadBlocksKeeps ==
  ASSUME IInv, ReadBlocks, UNCHANGED <<romVars, envVars>>, image = "server"
  PROVE  IInv' /\ StreamStep
  <1>1. TypeOK'
    BY DEF IInv, ReadBlocks, TypeOK, PortTypeOK, DevicesTypeOK, ServerTypeOK, RomTypeOK,
         ServerSteps, RomSteps, devices, lineHist, lineVars, progVars, sendVars, serverVars, romVars, mainVars, envVars
  <1>2. StatusFresh' /\ Position' /\ EchoBytes' /\ ResponsesWhole'
    BY DEF IInv, ReadBlocks, StatusFresh, Position, EchoBytes, ResponsesWhole, devices, lineHist,
         lineVars, progVars, sendVars,
         serverVars, romVars, mainVars, envVars
  <1>3. StreamStep
    BY DEF ReadBlocks, StreamStep, Plain!streamVars, devices, lineHist, lineVars, progVars,
         sendVars,
         serverVars, romVars, mainVars, envVars
  <1> QED
    BY <1>1, <1>2, <1>3 DEF IInv

(* The last byte of a response has been written. *)
LEMMA WriteEndKeeps ==
  ASSUME IInv, WriteEnd, UNCHANGED <<romVars, envVars>>, image = "server"
  PROVE  IInv' /\ StreamStep
  <1>0. TypeOK /\ pending \in Seq(Bytes) /\ count \in 0 .. Len(pending) /\ Len(pending) \in Nat
    BY LenProperties DEF IInv, TypeOK, PortTypeOK
  <1>1. /\ pending' = Rest(pending, count) /\ pending' \in Seq(Bytes)
        /\ count' = 0 /\ count' \in 0 .. Len(pending')
        /\ Rest(pending', count') = Rest(pending, count)
        /\ count = Len(pending) => pending' = <<>>
    <2>1. pending' = Rest(pending, count) /\ count' = 0
      BY DEF WriteEnd
    <2>2. Rest(pending, count) \in Seq(Bytes) /\ (count = Len(pending) => Rest(pending, count) = <<>>)
      BY <1>0, RestEnds
    <2>3. Rest(Rest(pending, count), 0) = Rest(pending, count) /\ Len(Rest(pending, count)) \in Nat
      BY <2>2, RestEnds, LenProperties
    <2> QED
      BY <2>1, <2>2, <2>3
  <1>2. UNCHANGED <<devices, lineHist, serverVars>> /\ pc = "w_end"
        /\ pc' = IF count = Len(pending) THEN "r_status" ELSE "led"
    BY DEF WriteEnd
  <1>3. TypeOK'
    BY <1>0, <1>1, <1>2 DEF TypeOK, PortTypeOK, DevicesTypeOK, ServerTypeOK, RomTypeOK,
         ServerSteps, RomSteps, devices, lineHist, lineVars, progVars, sendVars, serverVars, romVars, mainVars, envVars
  <1>4. StatusFresh' /\ Position' /\ EchoBytes' /\ ResponsesWhole'
    BY <1>1, <1>2 DEF IInv, StatusFresh, Position, EchoBytes, ResponsesWhole, devices, lineHist,
         lineVars, progVars, sendVars,
         serverVars, romVars, mainVars, envVars
  <1>5. StreamStep
    BY <1>2 DEF StreamStep, Plain!streamVars, devices, lineHist, lineVars, progVars, sendVars,
         serverVars, romVars, mainVars, envVars
  <1> QED
    BY <1>3, <1>4, <1>5 DEF IInv

(* The driver has read as much as it was asked for. *)
LEMMA ReadEndKeeps ==
  ASSUME IInv, ReadEnd, UNCHANGED <<romVars, envVars>>, image = "server"
  PROVE  IInv' /\ StreamStep
  <1>0. TypeOK /\ answers \in Seq(Bytes) /\ wire \in Seq(Bytes) /\ txQueue \in Seq(Bytes)
        /\ pending = <<>> /\ count = 0 /\ pc = "r_end"
    BY DEF IInv, Position, TypeOK, PortTypeOK, ServerTypeOK, ReadEnd
  <1>1. PICK r \in Responses \cup {<<>>} : pending' = r /\ answers' = answers \o r
    BY DEF ReadEnd
  <1>2. r \in Seq(Bytes) /\ Len(r) \in Nat
    BY ResponsesAssumption, EmptySeq, LenProperties
  <1>3. answers' \in Seq(Bytes)
    BY <1>0, <1>1, <1>2, ConcatProperties
  <1>4. UNCHANGED <<devices, lineHist, count, DEVICE_PERIPHERALS, led_out_next, want>>
        /\ buf' = <<>> /\ pc' = "led"
    BY DEF ReadEnd
  <1>5. TypeOK'
    BY <1>0, <1>1, <1>2, <1>3, <1>4, EmptySeq DEF TypeOK, PortTypeOK, DevicesTypeOK, ServerTypeOK,
         RomTypeOK,
         ServerSteps, RomSteps, devices, lineHist, lineVars, progVars, sendVars, serverVars, romVars, mainVars, envVars
  <1>6. StatusFresh' /\ Position' /\ EchoBytes'
    BY <1>0, <1>4 DEF IInv, StatusFresh, Position, EchoBytes, devices, lineHist, lineVars,
         progVars, sendVars,
         serverVars, romVars, mainVars, envVars
  <1>7. ResponsesWhole'
    <2>1. wire \o txQueue \in Seq(Bytes)
      BY <1>0, ConcatProperties
    <2>2. Rest(pending, count) = <<>> /\ Rest(r, 0) = r
      BY <1>0, <1>2, RestEnds, EmptySeq
    <2>3. wire \o txQueue = answers
      BY <1>0, <2>1, <2>2, ConcatEmptySeq DEF IInv, ResponsesWhole
    <2>4. pending' = r /\ count' = 0 /\ wire' = wire /\ txQueue' = txQueue
      BY <1>0, <1>1, <1>4 DEF devices, lineHist, lineVars
    <2> QED
      BY <1>1, <2>2, <2>3, <2>4 DEF ResponsesWhole
  <1>8. StreamStep
    BY <1>4 DEF StreamStep, Plain!streamVars, devices, lineHist, lineVars, progVars, sendVars,
         serverVars, romVars, mainVars, envVars
  <1> QED
    BY <1>5, <1>6, <1>7, <1>8 DEF IInv

(* Steps that load the status: what the flags say is so, and stays so.     *)
LEMMA WriteStatusKeeps ==
  ASSUME IInv, WriteStatus, UNCHANGED <<romVars, envVars>>, image = "server"
  PROVE  IInv' /\ StreamStep
  <1>0. TypeOK /\ DevicesTypeOK
    BY DEF IInv, TypeOK, PortTypeOK
  <1>1. /\ pc = "w_status" /\ pc' = "w_data" /\ JustLoad(status.offset)
        /\ UNCHANGED <<lineHist, sendVars, serverVars>>
    BY DEF WriteStatus
  <1>2. /\ 0 \in word' <=> Len(txQueue) < Depth
        /\ 1 \in word' <=> rxQueue # <<>>
        /\ UNCHANGED <<outReg, inReg, txQueue, rxQueue>>
        /\ DevicesTypeOK'
    BY <1>0, <1>1, UartOffsets, StatusStep
  <1>3. TypeOK'
    <2>1. PortTypeOK'
      BY <1>0, <1>1, <1>2 DEF TypeOK, PortTypeOK, lineHist, lineVars, progVars, sendVars,
         serverVars, romVars, mainVars, envVars
    <2> QED
      BY <1>0, <1>1, <2>1 DEF TypeOK, ServerTypeOK, RomTypeOK, ServerSteps, RomSteps, lineHist,
           lineVars, progVars, sendVars,
         serverVars, romVars, mainVars, envVars
  <1>4. StatusFresh' /\ Position' /\ EchoBytes' /\ ResponsesWhole'
    BY <1>1, <1>2 DEF IInv, StatusFresh, Position, EchoBytes, ResponsesWhole, lineHist, lineVars,
         progVars, sendVars,
         serverVars, romVars, mainVars, envVars
  <1>5. StreamStep
    BY <1>1, <1>2 DEF StreamStep, Plain!streamVars, lineHist, lineVars, progVars, sendVars,
         serverVars, romVars, mainVars, envVars
  <1> QED
    BY <1>3, <1>4, <1>5 DEF IInv

(* The driver loads the status register before it takes a byte. *)
LEMMA ReadStatusKeeps ==
  ASSUME IInv, ReadStatus, UNCHANGED <<romVars, envVars>>, image = "server"
  PROVE  IInv' /\ StreamStep
  <1>0. TypeOK /\ DevicesTypeOK
    BY DEF IInv, TypeOK, PortTypeOK
  <1>1. /\ pc = "r_status" /\ pc' = "r_data" /\ JustLoad(status.offset)
        /\ UNCHANGED <<lineHist, sendVars, serverVars>>
    BY DEF ReadStatus
  <1>2. /\ 0 \in word' <=> Len(txQueue) < Depth
        /\ 1 \in word' <=> rxQueue # <<>>
        /\ UNCHANGED <<outReg, inReg, txQueue, rxQueue>>
        /\ DevicesTypeOK'
    BY <1>0, <1>1, UartOffsets, StatusStep
  <1>3. TypeOK'
    <2>1. PortTypeOK'
      BY <1>0, <1>1, <1>2 DEF TypeOK, PortTypeOK, lineHist, lineVars, progVars, sendVars,
         serverVars, romVars, mainVars, envVars
    <2> QED
      BY <1>0, <1>1, <2>1 DEF TypeOK, ServerTypeOK, RomTypeOK, ServerSteps, RomSteps, lineHist,
           lineVars, progVars, sendVars,
         serverVars, romVars, mainVars, envVars
  <1>4. StatusFresh' /\ Position' /\ EchoBytes' /\ ResponsesWhole'
    BY <1>1, <1>2 DEF IInv, StatusFresh, Position, EchoBytes, ResponsesWhole, lineHist, lineVars,
         progVars, sendVars,
         serverVars, romVars, mainVars, envVars
  <1>5. StreamStep
    BY <1>1, <1>2 DEF StreamStep, Plain!streamVars, lineHist, lineVars, progVars, sendVars,
         serverVars, romVars, mainVars, envVars
  <1> QED
    BY <1>3, <1>4, <1>5 DEF IInv

(* The turn of the light touches no queue.                                 *)
LEMMA LedKeeps ==
  ASSUME IInv, Led, UNCHANGED <<romVars, envVars>>, image = "server"
  PROVE  IInv' /\ StreamStep
  <1>0. TypeOK /\ DevicesTypeOK /\ led_out_next \in SUBSET (0 .. 5) /\ pending \in Seq(Bytes) /\ count = 0
    BY DEF IInv, TypeOK, PortTypeOK, ServerTypeOK, Position, Led
  <1>1. /\ pc = "led" /\ pc' = IF pending = <<>> THEN "r_status" ELSE "w_status"
        /\ led_out_next' = Rotate(led_out_next) /\ count' = 0 /\ want' \in 1 .. MaxRead
        /\ UNCHANGED <<lineHist, pending, DEVICE_PERIPHERALS, buf, answers>>
    BY DEF Led
  <1>2. UNCHANGED <<inReg, txQueue, rxQueue, word>> /\ DevicesTypeOK'
    <2>1. RawBits(WriteStart(led_out), led_out_next) = led_out_next
      BY DEF RawBits
    <2>2. led_out_next \in Word
      BY <1>0 DEF Word, Positions
    <2>3. JustStore(led_out.offset, led_out_next)
      BY <2>1 DEF Led
    <2> QED
      BY <1>0, <2>2, <2>3, LedStep
  <1>3. led_out_next' \in SUBSET (0 .. 5)
    <2>1. Shl(led_out_next, 1) \cap (0 .. 5) \subseteq 0 .. 5
      OBVIOUS
    <2>2. \A i \in Shr(led_out_next, 5) : i \in 0 .. 5
      BY <1>0 DEF Shr, Positions
    <2> QED
      BY <1>1, <2>1, <2>2 DEF Rotate
  <1>4. TypeOK'
    <2>1. PortTypeOK'
      BY <1>0, <1>1, <1>2 DEF TypeOK, PortTypeOK, lineHist, lineVars, progVars, sendVars,
         serverVars, romVars, mainVars, envVars
    <2> QED
      BY <1>0, <1>1, <1>3, <2>1 DEF TypeOK, ServerTypeOK, RomTypeOK, ServerSteps, RomSteps,
           lineHist, lineVars, progVars, sendVars,
         serverVars, romVars, mainVars, envVars
  <1>5. StatusFresh' /\ Position' /\ EchoBytes' /\ ResponsesWhole'
    <2>1. pending # <<>> => 0 < Len(pending)
      BY <1>0, EmptySeq
    <2>2. Position'
      BY <1>0, <1>1, <2>1 DEF Position, lineHist, lineVars, progVars, sendVars,
         serverVars, romVars, mainVars, envVars
    <2> QED
      BY <1>0, <1>1, <1>2, <2>2 DEF IInv, StatusFresh, EchoBytes, ResponsesWhole, lineHist,
           lineVars, progVars, sendVars,
         serverVars, romVars, mainVars, envVars
  <1>6. StreamStep
    BY <1>1, <1>2 DEF StreamStep, Plain!streamVars, lineHist, lineVars, progVars, sendVars,
         serverVars, romVars, mainVars, envVars
  <1> QED
    BY <1>4, <1>5, <1>6 DEF IInv

(* A byte is stored when the status said there is room, and joins the      *)
(* bytes on their way.                                                     *)
LEMMA WriteDataKeeps ==
  ASSUME IInv, WriteData, UNCHANGED <<romVars, envVars>>, image = "server"
  PROVE  IInv' /\ StreamStep
  <1>0. TypeOK /\ DevicesTypeOK /\ word \in SUBSET Positions /\ pending \in Seq(Bytes)
        /\ wire \in Seq(Bytes) /\ txQueue \in Seq(Bytes) /\ told \in Seq(Bytes)
    BY DEF IInv, TypeOK, PortTypeOK, DevicesTypeOK, Word
  <1> DEFINE b == pending[count + 1]
  <1>1. count \in Nat /\ count < Len(pending) /\ Len(pending) \in Nat /\ b \in Bytes /\ b \in Byte
    <2>1. count \in 0 .. Len(pending) /\ Len(pending) \in Nat
      BY <1>0, LenProperties DEF TypeOK, PortTypeOK
    <2>2. count < Len(pending)
      BY DEF IInv, Position, WriteData
    <2>3. count + 1 \in 1 .. Len(pending)
      BY <2>1, <2>2
    <2> QED
      BY <1>0, <2>1, <2>2, <2>3, ElementOfSeq, BytesAreByte
  <1>2. Len(txQueue) < Depth
    BY <1>0, FlagBits DEF IInv, StatusFresh, WriteData, WriteReady
  <1>3. /\ txQueue' = Append(txQueue, b)
        /\ UNCHANGED <<outReg, inReg, rxQueue, word>>
        /\ DevicesTypeOK'
    <2>1. SetField(WriteStart(txd), txd.fields.data, b) = b
      BY <1>1, ByteFields
    <2>2. JustStore(txd.offset, b)
      BY <2>1 DEF WriteData
    <2> QED
      BY <1>0, <1>1, <1>2, <2>2, SendStep, UartOffsets
  <1>4. /\ told' = Append(told, b) /\ count' = count + 1 /\ pc = "w_data"
        /\ pc' = IF count' = Len(pending) THEN "w_end" ELSE "w_status"
        /\ UNCHANGED <<lineVars, got, pending, serverVars>>
    BY DEF WriteData
  <1>5. txQueue' \in Seq(Bytes) /\ told' \in Seq(Bytes) /\ count' \in 0 .. Len(pending)
    BY <1>0, <1>1, <1>3, <1>4, AppendProperties
  <1>6. TypeOK'
    <2>1. PortTypeOK'
      BY <1>0, <1>3, <1>4, <1>5 DEF TypeOK, PortTypeOK, lineHist, lineVars, progVars, sendVars,
         serverVars, romVars, mainVars, envVars
    <2> QED
      BY <1>0, <1>4, <2>1 DEF TypeOK, ServerTypeOK, RomTypeOK, ServerSteps, RomSteps, lineHist,
           lineVars, progVars, sendVars,
         serverVars, romVars, mainVars, envVars
  <1>7. StatusFresh' /\ Position' /\ EchoBytes'
    BY <1>1, <1>4 DEF IInv, StatusFresh, Position, EchoBytes, lineHist, lineVars, progVars,
         sendVars,
         serverVars, romVars, mainVars, envVars
  <1>8. ResponsesWhole'
    <2>1. wire \o txQueue \in Seq(Bytes)
      BY <1>0, ConcatProperties
    <2>2. wire \o Append(txQueue, b) = Append(wire \o txQueue, b)
      <3>1. <<b>> \in Seq(Bytes)
        BY <1>1
      <3>2. wire \o (txQueue \o <<b>>) = (wire \o txQueue) \o <<b>>
        BY <1>0, <3>1, ConcatAssociative
      <3>3. Append(txQueue, b) = txQueue \o <<b>> /\ Append(wire \o txQueue, b) = (wire \o txQueue) \o <<b>>
        BY <1>0, <1>1, <2>1, AppendIsConcat
      <3> QED
        BY <3>2, <3>3
    <2>3. Append(wire \o txQueue, b) \o Rest(pending, count + 1) = (wire \o txQueue) \o Rest(pending, count)
      BY <1>0, <1>1, <2>1, RestStep
    <2>4. wire' = wire /\ pending' = pending /\ answers' = answers /\ image' = image
      BY <1>4 DEF lineVars, serverVars, envVars
    <2> QED
      BY <1>3, <1>4, <2>2, <2>3, <2>4 DEF IInv, ResponsesWhole
  <1>9. StreamStep
    <2>1. Plain!Write(b)
      BY <1>2, <1>3, <1>4 DEF Plain!Write, lineVars
    <2> QED
      BY <1>1, <2>1 DEF StreamStep, Plain!StreamNext
  <1> QED
    BY <1>6, <1>7, <1>8, <1>9 DEF IInv

(* A byte is loaded when the status said there is one: it is the oldest.   *)
LEMMA ReadDataKeeps ==
  ASSUME IInv, ReadData, UNCHANGED <<romVars, envVars>>, image = "server"
  PROVE  IInv' /\ StreamStep
  <1>0. TypeOK /\ DevicesTypeOK /\ word \in SUBSET Positions /\ rxQueue \in Seq(Bytes)
        /\ held \in Seq(Bytes) /\ got \in Seq(Bytes) /\ buf \in Seq(Bytes)
    BY DEF IInv, TypeOK, PortTypeOK, DevicesTypeOK, ServerTypeOK, Word
  <1>1. rxQueue # <<>>
    BY <1>0, FlagBits DEF IInv, StatusFresh, ReadData, ReadReady
  <1>2. /\ word' = Head(rxQueue) \cup {16} /\ Head(rxQueue) \in Byte /\ rxQueue' = Tail(rxQueue)
        /\ UNCHANGED <<outReg, inReg, txQueue>>
        /\ DevicesTypeOK'
    <2>1. JustLoad(rxd.offset)
      BY DEF ReadData
    <2> QED
      BY <1>0, <1>1, <2>1, DataStep, UartOffsets
  <1>3. FieldBits(word', rxd.fields.rxd) = Head(rxQueue)
    BY <1>2, ByteFields
  <1>4. /\ got' = Append(got, Head(rxQueue)) /\ buf' = Append(buf, Head(rxQueue))
        /\ pc = "r_data" /\ pc' \in {"r_end", "r_status"}
        /\ UNCHANGED <<lineVars, told, sendVars, DEVICE_PERIPHERALS, led_out_next, want, answers>>
    BY <1>3 DEF ReadData
  <1>5. Head(rxQueue) \in Bytes /\ rxQueue' \in Seq(Bytes) /\ got' \in Seq(Bytes) /\ buf' \in Seq(Bytes)
    BY <1>0, <1>1, <1>2, <1>4, HeadTailProperties, AppendProperties
  <1>6. TypeOK'
    <2>1. PortTypeOK'
      BY <1>0, <1>2, <1>4, <1>5 DEF TypeOK, PortTypeOK, lineHist, lineVars, progVars, sendVars,
         serverVars, romVars, mainVars, envVars
    <2> QED
      BY <1>0, <1>4, <1>5, <2>1 DEF TypeOK, ServerTypeOK, RomTypeOK, ServerSteps, RomSteps,
           lineHist, lineVars, progVars, sendVars,
         serverVars, romVars, mainVars, envVars
  <1>7. StatusFresh' /\ Position' /\ EchoBytes' /\ ResponsesWhole'
    BY <1>2, <1>4 DEF IInv, StatusFresh, Position, EchoBytes, ResponsesWhole, lineHist, lineVars,
         progVars, sendVars,
         serverVars, romVars, mainVars, envVars
  <1>8. StreamStep
    <2>1. /\ rxQueue \o held # <<>>
          /\ Head(rxQueue \o held) = Head(rxQueue)
          /\ Tail(rxQueue \o held) = Tail(rxQueue) \o held
      BY <1>0, <1>1, FrontOfTwo
    <2>2. (rxQueue \o held)' = Tail(rxQueue) \o held
      BY <1>2, <1>4 DEF lineVars
    <2>3. Plain!Consume
      BY <1>2, <1>4, <2>1, <2>2 DEF Plain!Consume, lineVars
    <2> QED
      BY <2>3 DEF StreamStep, Plain!StreamNext
  <1> QED
    BY <1>6, <1>7, <1>8 DEF IInv

-----------------------------------------------------------------------------
(* The steps of the boot program.                                          *)

(* Steps that touch no device.                                             *)
LEMMA enable_interruptKeeps ==
  ASSUME IInv, enable_interrupt, last' = pc, UNCHANGED <<serverVars, envVars, precise>>, image = "bootrom"
  PROVE  IInv' /\ StreamStep
  <1>1. TypeOK'
    BY DEF IInv, enable_interrupt, TypeOK, PortTypeOK, DevicesTypeOK, ServerTypeOK, RomTypeOK,
         ServerSteps, RomSteps, Word, Tested, devices, lineVars, progVars, sendVars,
         serverVars, romVars, mainVars, envVars
  <1>2. StatusFresh' /\ Position' /\ EchoBytes' /\ ResponsesWhole'
    BY BytesAreByte DEF IInv, enable_interrupt, StatusFresh, Position, EchoBytes, ResponsesWhole,
         Tested, LowByte,
         devices, lineVars, progVars, sendVars,
         serverVars, romVars, mainVars, envVars
  <1>3. StreamStep
    BY DEF enable_interrupt, StreamStep, Plain!streamVars, devices, lineVars, progVars, sendVars,
         serverVars, romVars, mainVars, envVars
  <1> QED
    BY <1>1, <1>2, <1>3 DEF IInv

(* The boot program loads uart_rx_data ahead of its loop. *)
LEMMA HoistKeeps ==
  ASSUME IInv, Hoist, last' = pc, UNCHANGED <<serverVars, envVars, precise>>, image = "bootrom"
  PROVE  IInv' /\ StreamStep
  <1>1. TypeOK'
    BY DEF IInv, Hoist, TypeOK, PortTypeOK, DevicesTypeOK, ServerTypeOK, RomTypeOK,
         ServerSteps, RomSteps, Word, Tested, devices, lineVars, progVars, sendVars,
         serverVars, romVars, mainVars, envVars
  <1>2. StatusFresh' /\ Position' /\ EchoBytes' /\ ResponsesWhole'
    BY BytesAreByte DEF IInv, Hoist, StatusFresh, Position, EchoBytes, ResponsesWhole, Tested,
         LowByte,
         devices, lineVars, progVars, sendVars,
         serverVars, romVars, mainVars, envVars
  <1>3. StreamStep
    BY DEF Hoist, StreamStep, Plain!streamVars, devices, lineVars, progVars, sendVars,
         serverVars, romVars, mainVars, envVars
  <1> QED
    BY <1>1, <1>2, <1>3 DEF IInv

(* The boot program tests uart_rx_data. *)
LEMMA TestKeeps ==
  ASSUME IInv, Test, last' = pc, UNCHANGED <<serverVars, envVars, precise>>, image = "bootrom"
  PROVE  IInv' /\ StreamStep
  <1>1. TypeOK'
    BY DEF IInv, Test, TypeOK, PortTypeOK, DevicesTypeOK, ServerTypeOK, RomTypeOK,
         ServerSteps, RomSteps, Word, Tested, devices, lineVars, progVars, sendVars,
         serverVars, romVars, mainVars, envVars
  <1>2. StatusFresh' /\ Position' /\ EchoBytes' /\ ResponsesWhole'
    BY BytesAreByte DEF IInv, Test, StatusFresh, Position, EchoBytes, ResponsesWhole, Tested,
         LowByte,
         devices, lineVars, progVars, sendVars,
         serverVars, romVars, mainVars, envVars
  <1>3. StreamStep
    BY DEF Test, StreamStep, Plain!streamVars, devices, lineVars, progVars, sendVars,
         serverVars, romVars, mainVars, envVars
  <1> QED
    BY <1>1, <1>2, <1>3 DEF IInv

(* The boot program takes a byte out of uart_rx_data and clears it. *)
LEMMA ClearKeeps ==
  ASSUME IInv, Clear, last' = pc, UNCHANGED <<serverVars, envVars, precise>>, image = "bootrom"
  PROVE  IInv' /\ StreamStep
  <1>1. TypeOK'
    BY DEF IInv, Clear, TypeOK, PortTypeOK, DevicesTypeOK, ServerTypeOK, RomTypeOK,
         ServerSteps, RomSteps, Word, Tested, devices, lineVars, progVars, sendVars,
         serverVars, romVars, mainVars, envVars
  <1>2. StatusFresh' /\ Position' /\ EchoBytes' /\ ResponsesWhole'
    BY BytesAreByte DEF IInv, Clear, StatusFresh, Position, EchoBytes, ResponsesWhole, Tested,
         LowByte,
         devices, lineVars, progVars, sendVars,
         serverVars, romVars, mainVars, envVars
  <1>3. StreamStep
    BY DEF Clear, StreamStep, Plain!streamVars, devices, lineVars, progVars, sendVars,
         serverVars, romVars, mainVars, envVars
  <1> QED
    BY <1>1, <1>2, <1>3 DEF IInv

(* Steps that load the status.                                             *)
LEMMA HelloPollKeeps ==
  ASSUME IInv, HelloPoll, last' = pc, UNCHANGED <<serverVars, envVars, precise>>, image = "bootrom"
  PROVE  IInv' /\ StreamStep
  <1>0. TypeOK /\ DevicesTypeOK
    BY DEF IInv, TypeOK, PortTypeOK
  <1>1. /\ pc = "h_poll" /\ pc' = IF 0 \in word' THEN "h_send" ELSE "h_poll"
        /\ UNCHANGED <<lineVars, told, got, sendVars, mainVars>>
    BY DEF HelloPoll
  <1>2. /\ 0 \in word' <=> Len(txQueue) < Depth
        /\ UNCHANGED <<outReg, inReg, txQueue, rxQueue>>
        /\ DevicesTypeOK'
    <2>1. JustLoad(REG_UART_STATUS) /\ IsStatus(REG_UART_STATUS)
      BY UartOffsets DEF HelloPoll, REG_UART_STATUS
    <2> QED
      BY <1>0, <2>1, StatusStep
  <1>3. arg' \in Bytes
    BY <1>0, <1>1 DEF IInv, EchoBytes, Seen, TypeOK, RomTypeOK, mainVars
  <1>4. TypeOK'
    <2>1. PortTypeOK'
      BY <1>0, <1>1, <1>2 DEF TypeOK, PortTypeOK, lineVars, progVars, sendVars,
         serverVars, romVars, mainVars, envVars
    <2> QED
      BY <1>0, <1>1, <1>3, <2>1 DEF TypeOK, ServerTypeOK, RomTypeOK, ServerSteps, RomSteps,
           lineVars, progVars, sendVars,
         serverVars, romVars, mainVars, envVars
  <1>5. StatusFresh' /\ Position' /\ EchoBytes' /\ ResponsesWhole'
    BY <1>1, <1>2 DEF IInv, StatusFresh, Position, EchoBytes, ResponsesWhole, lineVars, progVars,
         sendVars,
         serverVars, romVars, mainVars, envVars
  <1>6. StreamStep
    BY <1>1, <1>2 DEF StreamStep, Plain!streamVars, lineVars, progVars, sendVars,
         serverVars, romVars, mainVars, envVars
  <1> QED
    BY <1>4, <1>5, <1>6 DEF IInv

(* The boot program tests the transmit flag. *)
LEMMA ReadyKeeps ==
  ASSUME IInv, Ready, last' = pc, UNCHANGED <<serverVars, envVars, precise>>, image = "bootrom"
  PROVE  IInv' /\ StreamStep
  <1>0. TypeOK /\ DevicesTypeOK
    BY DEF IInv, TypeOK, PortTypeOK
  <1>1. /\ pc = "ready" /\ pc' = IF 0 \in word' THEN "poll" ELSE "test"
        /\ UNCHANGED <<lineVars, told, got, sendVars, reload, mie, uart_rx_data, cached>> /\ arg' = LowByte(Seen)
    BY DEF Ready
  <1>2. /\ 0 \in word' <=> Len(txQueue) < Depth
        /\ UNCHANGED <<outReg, inReg, txQueue, rxQueue>>
        /\ DevicesTypeOK'
    <2>1. JustLoad(REG_UART_STATUS) /\ IsStatus(REG_UART_STATUS)
      BY UartOffsets DEF Ready, REG_UART_STATUS
    <2> QED
      BY <1>0, <2>1, StatusStep
  <1>3. arg' \in Bytes
    BY <1>0, <1>1 DEF IInv, EchoBytes, Seen, TypeOK, RomTypeOK, mainVars
  <1>4. TypeOK'
    <2>1. PortTypeOK'
      BY <1>0, <1>1, <1>2 DEF TypeOK, PortTypeOK, lineVars, progVars, sendVars,
         serverVars, romVars, mainVars, envVars
    <2> QED
      BY <1>0, <1>1, <1>3, <2>1 DEF TypeOK, ServerTypeOK, RomTypeOK, ServerSteps, RomSteps,
           lineVars, progVars, sendVars,
         serverVars, romVars, mainVars, envVars
  <1>5. StatusFresh' /\ Position' /\ EchoBytes' /\ ResponsesWhole'
    BY <1>1, <1>2 DEF IInv, StatusFresh, Position, EchoBytes, ResponsesWhole, lineVars, progVars,
         sendVars,
         serverVars, romVars, mainVars, envVars
  <1>6. StreamStep
    BY <1>1, <1>2 DEF StreamStep, Plain!streamVars, lineVars, progVars, sendVars,
         serverVars, romVars, mainVars, envVars
  <1> QED
    BY <1>4, <1>5, <1>6 DEF IInv

(* The boot program or its handler loads the status register. *)
LEMMA PollKeeps ==
  ASSUME IInv, Poll, last' = pc, UNCHANGED <<serverVars, envVars, precise>>, image = "bootrom"
  PROVE  IInv' /\ StreamStep
  <1>0. TypeOK /\ DevicesTypeOK
    BY DEF IInv, TypeOK, PortTypeOK
  <1>1. /\ pc = "poll" /\ pc' = IF 0 \in word' THEN "send" ELSE "poll"
        /\ UNCHANGED <<lineVars, told, got, sendVars, mainVars>>
    BY DEF Poll
  <1>2. /\ 0 \in word' <=> Len(txQueue) < Depth
        /\ UNCHANGED <<outReg, inReg, txQueue, rxQueue>>
        /\ DevicesTypeOK'
    <2>1. JustLoad(REG_UART_STATUS) /\ IsStatus(REG_UART_STATUS)
      BY UartOffsets DEF Poll, REG_UART_STATUS
    <2> QED
      BY <1>0, <2>1, StatusStep
  <1>3. arg' \in Bytes
    BY <1>0, <1>1 DEF IInv, EchoBytes, Seen, TypeOK, RomTypeOK, mainVars
  <1>4. TypeOK'
    <2>1. PortTypeOK'
      BY <1>0, <1>1, <1>2 DEF TypeOK, PortTypeOK, lineVars, progVars, sendVars,
         serverVars, romVars, mainVars, envVars
    <2> QED
      BY <1>0, <1>1, <1>3, <2>1 DEF TypeOK, ServerTypeOK, RomTypeOK, ServerSteps, RomSteps,
           lineVars, progVars, sendVars,
         serverVars, romVars, mainVars, envVars
  <1>5. StatusFresh' /\ Position' /\ EchoBytes' /\ ResponsesWhole'
    BY <1>1, <1>2 DEF IInv, StatusFresh, Position, EchoBytes, ResponsesWhole, lineVars, progVars,
         sendVars,
         serverVars, romVars, mainVars, envVars
  <1>6. StreamStep
    BY <1>1, <1>2 DEF StreamStep, Plain!streamVars, lineVars, progVars, sendVars,
         serverVars, romVars, mainVars, envVars
  <1> QED
    BY <1>4, <1>5, <1>6 DEF IInv

(* Steps that store a byte: the status has said that there is room.        *)
LEMMA HelloSendKeeps ==
  ASSUME IInv, HelloSend, last' = pc, UNCHANGED <<serverVars, envVars, precise>>, image = "bootrom"
  PROVE  IInv' /\ StreamStep
  <1>0. TypeOK /\ DevicesTypeOK /\ pending \in Seq(Bytes)
        /\ txQueue \in Seq(Bytes) /\ told \in Seq(Bytes)
    BY DEF IInv, TypeOK, PortTypeOK
  <1> DEFINE b == pending[count + 1]
  <1>1. b \in Bytes /\ b \in Byte /\ count \in Nat /\ count < Len(pending) /\ Len(pending) \in Nat
    <2>1. count \in 0 .. Len(pending) /\ Len(pending) \in Nat
      BY <1>0, LenProperties DEF TypeOK, PortTypeOK
    <2>2. count < Len(pending)
      BY DEF IInv, Position, HelloSend
    <2>3. count + 1 \in 1 .. Len(pending)
      BY <2>1, <2>2
    <2> QED
      BY <1>0, <2>1, <2>2, <2>3, ElementOfSeq, BytesAreByte
  <1>2. precise => Len(txQueue) < Depth
    BY DEF IInv, StatusFresh, HelloSend
  <1>3. /\ txQueue' = IF Len(txQueue) < Depth THEN Append(txQueue, b) ELSE txQueue
        /\ UNCHANGED <<outReg, inReg, rxQueue, word>>
        /\ DevicesTypeOK'
    <2>1. JustStore(REG_UART_DATA, b) /\ IsData(REG_UART_DATA)
      BY UartOffsets DEF HelloSend, REG_UART_DATA
    <2> QED
      BY <1>0, <1>1, <2>1, SendStep
  <1>4. /\ told' = Append(told, b) /\ pc = "h_send"
        /\ count' = count + 1 /\ pc' = IF count' = Len(pending) THEN "hoist" ELSE "h_poll"
        /\ UNCHANGED <<lineVars, got, pending, mainVars>>
    BY DEF HelloSend
  <1>5. txQueue' \in Seq(Bytes) /\ told' \in Seq(Bytes) /\ count' \in 0 .. Len(pending')
    BY <1>0, <1>1, <1>3, <1>4, AppendProperties DEF TypeOK, PortTypeOK, sendVars
  <1>6. TypeOK'
    <2>1. PortTypeOK'
      BY <1>0, <1>3, <1>4, <1>5 DEF TypeOK, PortTypeOK, lineVars, progVars, sendVars,
         serverVars, romVars, mainVars, envVars
    <2> QED
      BY <1>0, <1>4, <2>1 DEF TypeOK, ServerTypeOK, RomTypeOK, ServerSteps, RomSteps, lineVars,
           progVars, sendVars,
         serverVars, romVars, mainVars, envVars
  <1>7. StatusFresh' /\ Position' /\ EchoBytes' /\ ResponsesWhole'
    BY <1>1, <1>4 DEF IInv, StatusFresh, Position, EchoBytes, ResponsesWhole, lineVars, progVars,
         sendVars,
         serverVars, romVars, mainVars, envVars
  <1>8. StreamStep
    <2>1. precise => Plain!Write(b)
      BY <1>2, <1>3, <1>4 DEF Plain!Write, lineVars
    <2> QED
      BY <1>1, <2>1 DEF StreamStep, Plain!StreamNext
  <1> QED
    BY <1>6, <1>7, <1>8 DEF IInv

(* The boot program stores a byte: it is one of the bytes of the stream. *)
LEMMA SendKeeps ==
  ASSUME IInv, Send, last' = pc, UNCHANGED <<serverVars, envVars, precise>>, image = "bootrom"
  PROVE  IInv' /\ StreamStep
  <1>0. TypeOK /\ DevicesTypeOK /\ pending \in Seq(Bytes)
        /\ txQueue \in Seq(Bytes) /\ told \in Seq(Bytes)
    BY DEF IInv, TypeOK, PortTypeOK
  <1> DEFINE b == arg
  <1>1. b \in Bytes /\ b \in Byte
    BY <1>0, BytesAreByte DEF TypeOK, RomTypeOK
  <1>2. precise => Len(txQueue) < Depth
    BY DEF IInv, StatusFresh, Send
  <1>3. /\ txQueue' = IF Len(txQueue) < Depth THEN Append(txQueue, b) ELSE txQueue
        /\ UNCHANGED <<outReg, inReg, rxQueue, word>>
        /\ DevicesTypeOK'
    <2>1. JustStore(REG_UART_DATA, b) /\ IsData(REG_UART_DATA)
      BY UartOffsets DEF Send, REG_UART_DATA
    <2> QED
      BY <1>0, <1>1, <2>1, SendStep
  <1>4. /\ told' = Append(told, b) /\ pc = "send"
        /\ pc' = "clear"
        /\ UNCHANGED <<lineVars, got, sendVars, mainVars>>
    BY DEF Send
  <1>5. txQueue' \in Seq(Bytes) /\ told' \in Seq(Bytes) /\ count' \in 0 .. Len(pending')
    BY <1>0, <1>1, <1>3, <1>4, AppendProperties DEF TypeOK, PortTypeOK, sendVars
  <1>6. TypeOK'
    <2>1. PortTypeOK'
      BY <1>0, <1>3, <1>4, <1>5 DEF TypeOK, PortTypeOK, lineVars, progVars, sendVars,
         serverVars, romVars, mainVars, envVars
    <2> QED
      BY <1>0, <1>4, <2>1 DEF TypeOK, ServerTypeOK, RomTypeOK, ServerSteps, RomSteps, lineVars,
           progVars, sendVars,
         serverVars, romVars, mainVars, envVars
  <1>7. StatusFresh' /\ Position' /\ EchoBytes' /\ ResponsesWhole'
    BY <1>1, <1>4 DEF IInv, StatusFresh, Position, EchoBytes, ResponsesWhole, lineVars, progVars,
         sendVars,
         serverVars, romVars, mainVars, envVars
  <1>8. StreamStep
    <2>1. precise => Plain!Write(b)
      BY <1>2, <1>3, <1>4 DEF Plain!Write, lineVars
    <2> QED
      BY <1>1, <2>1 DEF StreamStep, Plain!StreamNext
  <1> QED
    BY <1>6, <1>7, <1>8 DEF IInv

(* Outside main the boot program does nothing. *)
LEMMA WanderKeeps ==
  ASSUME IInv, Wander, last' = pc, UNCHANGED <<serverVars, envVars, precise>>, image = "bootrom"
  PROVE  IInv' /\ StreamStep
  <1>1. TypeOK'
    BY DEF IInv, Wander, TypeOK, PortTypeOK, DevicesTypeOK, ServerTypeOK, RomTypeOK,
         RomSteps, devices, lineVars, progVars, sendVars, serverVars, mainVars, envVars
  <1>2. StatusFresh' /\ Position' /\ EchoBytes' /\ ResponsesWhole'
    BY DEF IInv, Wander, StatusFresh, Position, EchoBytes, ResponsesWhole,
         devices, lineVars, progVars, sendVars, serverVars, mainVars, envVars
  <1>3. StreamStep
    BY DEF Wander, StreamStep, Plain!streamVars, devices, lineVars, progVars, sendVars
  <1> QED
    BY <1>1, <1>2, <1>3 DEF IInv

(* Where main goes on after an entry, it finds its bytes. *)
LEMMA ResumesSomewhere ==
  ASSUME IInv, Between \/ Replayed \/ Misled, last' = pc', image = "bootrom"
  PROVE  /\ pc' \in RomSteps /\ count' \in 0 .. Len(pending)
         /\ pc' \in {"enable", "h_poll", "h_send"} => count' < Len(pending)
         /\ precise => UNCHANGED <<pc, count>>
  <1>1. /\ pc \in RomSteps /\ last \in RomSteps /\ Len(pending) \in Nat
        /\ count \in 0 .. Len(pending)
        /\ pc \in {"enable", "h_poll", "h_send"} => count < Len(pending)
        /\ last \in {"enable", "h_poll"} => count < Len(pending)
        /\ last = "h_send" => pc = last \/ count > 0
    BY LenProperties DEF IInv, Position, TypeOK, PortTypeOK, RomTypeOK
  <1>2. CASE Between
    BY <1>1, <1>2 DEF Between
  <1>3. CASE Replayed
    <2>1. /\ pc' = last /\ ~precise
          /\ count' = IF last = "h_send" /\ pc # last THEN count - 1 ELSE count
      BY <1>3 DEF Replayed, Again
    <2>2. CASE last = "h_send" /\ pc # last
      <3>1. count' = count - 1 /\ count > 0
        BY <1>1, <2>1, <2>2
      <3>2. \A l, c \in Nat : c \in 0 .. l /\ c > 0 => c - 1 \in 0 .. l /\ c - 1 < l
        OBVIOUS
      <3>3. count - 1 \in 0 .. Len(pending) /\ count - 1 < Len(pending)
        BY <1>1, <3>1, <3>2
      <3> QED
        BY <1>1, <2>1, <3>1, <3>3
    <2>3. CASE ~(last = "h_send" /\ pc # last)
      <3>1. count' = count
        BY <2>1, <2>3
      <3> QED
        BY <1>1, <2>1, <2>3, <3>1
    <2> QED
      BY <2>2, <2>3
  <1>4. CASE Misled
    <2>1. ~precise /\ count' = count
      BY <1>4 DEF Misled
    <2>2. \/ pc' = "astray"
          \/ pc' \in {"h_poll", "h_send"} /\ pc \in {"h_poll", "h_send"}
          \/ pc' \in {"test", "ready", "poll", "send"}
      BY <1>4 DEF Misled, Tests
    <2> QED
      BY <1>1, <2>1, <2>2 DEF RomSteps
  <1> QED
    BY <1>2, <1>3, <1>4

(* The handler runs when the queue holds a byte, and takes the oldest.     *)
LEMMA HandlerKeeps ==
  ASSUME IInv, Between \/ Replayed \/ Misled, last' = pc',
         UNCHANGED <<serverVars, envVars>>, image = "bootrom"
  PROVE  IInv' /\ StreamStep
  <1>handler. isr_extint_handler
    BY DEF Between, Replayed, Again, Misled
  <1>0. TypeOK /\ DevicesTypeOK /\ rxQueue \in Seq(Bytes) /\ held \in Seq(Bytes) /\ got \in Seq(Bytes)
        /\ rxQueue # <<>>
    BY <1>handler DEF IInv, TypeOK, PortTypeOK, isr_extint_handler, interrupt_in
  <1>1. /\ word' = Head(rxQueue) \cup {16} /\ Head(rxQueue) \in Byte /\ rxQueue' = Tail(rxQueue)
        /\ UNCHANGED <<outReg, inReg, txQueue>>
        /\ DevicesTypeOK'
    <2>1. JustLoad(REG_UART_DATA) /\ IsData(REG_UART_DATA)
      BY <1>handler, UartOffsets DEF isr_extint_handler, REG_UART_DATA
    <2> QED
      BY <1>0, <2>1, DataStep
  <1>2. LowByte(word') = Head(rxQueue)
    <2>1. LowByte(word') = word' \cap (0 .. 7) /\ Head(rxQueue) \cap (0 .. 7) = Head(rxQueue)
      BY <1>1, ByteIsWord DEF LowByte
    <2>2. 16 \notin 0 .. 7
      OBVIOUS
    <2> QED
      BY <1>1, <2>1, <2>2
  <1>3. /\ uart_rx_data' = word' /\ got' = Append(got, Head(rxQueue))
        /\ UNCHANGED <<lineVars, told, pending, reload, mie, cached, arg, precise>>
    BY <1>handler, <1>2 DEF isr_extint_handler
  <1>4. Head(rxQueue) \in Bytes /\ rxQueue' \in Seq(Bytes) /\ got' \in Seq(Bytes) /\ word' \in Word
    BY <1>0, <1>1, <1>3, HeadTailProperties, AppendProperties DEF DevicesTypeOK
  <1>resume. /\ pc' \in RomSteps /\ count' \in 0 .. Len(pending)
             /\ pc' \in {"enable", "h_poll", "h_send"} => count' < Len(pending)
             /\ precise => UNCHANGED <<pc, count>>
    BY ResumesSomewhere
  <1>5. TypeOK'
    <2>1. PortTypeOK'
      BY <1>0, <1>1, <1>3, <1>4, <1>resume DEF TypeOK, PortTypeOK, lineVars, progVars, sendVars,
         serverVars, romVars, mainVars, envVars
    <2> QED
      BY <1>0, <1>3, <1>4, <1>resume, <2>1 DEF TypeOK, ServerTypeOK, RomTypeOK, ServerSteps, RomSteps,
           lineVars, progVars, sendVars,
         serverVars, romVars, mainVars, envVars
  <1>6. StatusFresh' /\ Position' /\ ResponsesWhole'
    BY <1>0, <1>1, <1>3, <1>resume DEF IInv, TypeOK, RomSteps, StatusFresh, Position, ResponsesWhole,
         lineVars, progVars, sendVars,
         serverVars, romVars, mainVars, envVars
  <1>7. EchoBytes'
    BY <1>2, <1>3, <1>4 DEF IInv, EchoBytes
  <1>8. StreamStep
    <2>1. /\ rxQueue \o held # <<>>
          /\ Head(rxQueue \o held) = Head(rxQueue)
          /\ Tail(rxQueue \o held) = Tail(rxQueue) \o held
      BY <1>0, FrontOfTwo
    <2>2. (rxQueue \o held)' = Tail(rxQueue) \o held
      BY <1>1, <1>3 DEF lineVars
    <2>3. Plain!Consume
      BY <1>1, <1>3, <2>1, <2>2 DEF Plain!Consume, lineVars
    <2> QED
      BY <2>3 DEF StreamStep, Plain!StreamNext
  <1> QED
    BY <1>5, <1>6, <1>7, <1>8 DEF IInv

(* An entry that is lost turns interrupts off, and leaves the rest alone.   *)
LEMMA LostKeeps ==
  ASSUME IInv, Overtaken, UNCHANGED <<serverVars, envVars>>, image = "bootrom"
  PROVE  IInv' /\ StreamStep
  <1>1. /\ mie' = FALSE
        /\ UNCHANGED <<devices, lineVars, progVars, reload, uart_rx_data, cached, arg, precise, last>>
    BY DEF Overtaken, Lost
  <1>2. TypeOK'
    BY <1>1 DEF IInv, TypeOK, PortTypeOK, DevicesTypeOK, ServerTypeOK, RomTypeOK,
         devices, lineVars, progVars, sendVars, serverVars, envVars
  <1>3. StatusFresh' /\ Position' /\ EchoBytes' /\ ResponsesWhole'
    BY <1>1 DEF IInv, StatusFresh, Position, EchoBytes, ResponsesWhole,
         devices, lineVars, progVars, sendVars, serverVars, envVars
  <1>4. StreamStep
    BY <1>1 DEF StreamStep, Plain!streamVars, devices, lineVars, progVars
  <1> QED
    BY <1>2, <1>3, <1>4 DEF IInv

-----------------------------------------------------------------------------
(* All steps together.                                                     *)

(* Every step of the board keeps the invariant, and is one of ByteStream   *)
(* or none.                                                                *)
LEMMA StepKeeps == IInv /\ [Next]_vars => IInv' /\ StreamStep
  <1> SUFFICES ASSUME IInv, [Next]_vars PROVE IInv' /\ StreamStep
    OBVIOUS
  <1>1. CASE ServerStep /\ image = "server" /\ UNCHANGED <<romVars, envVars>>
    BY <1>1, TakeKeeps, LedKeeps, WriteStatusKeeps, WriteBlocksKeeps, WriteDataKeeps, WriteEndKeeps,
       ReadStatusKeeps, ReadBlocksKeeps, ReadDataKeeps, ReadEndKeeps DEF ServerStep
  <1>2. CASE RomStep /\ image = "bootrom" /\ UNCHANGED <<serverVars, envVars>>
    BY <1>2, enable_interruptKeeps, HelloPollKeeps, HelloSendKeeps, HoistKeeps, TestKeeps,
         ReadyKeeps,
       PollKeeps, SendKeeps, ClearKeeps, WanderKeeps DEF RomStep
  <1>3. CASE Entry /\ image = "bootrom" /\ UNCHANGED <<serverVars, envVars>>
    BY <1>3, HandlerKeeps, LostKeeps DEF Entry
  <1>4. CASE (Receive \/ Enqueue \/ Transmit) /\ UNCHANGED <<serverVars, romVars, envVars>>
    BY <1>4, ReceiveKeeps, EnqueueKeeps, TransmitKeeps
  <1>5. CASE UNCHANGED vars
    <2>1. TypeOK'
      BY <1>5 DEF IInv, vars, portVars, TypeOK, PortTypeOK, DevicesTypeOK, ServerTypeOK, RomTypeOK,
         ServerSteps, RomSteps, devices, lineVars, progVars, sendVars,
         serverVars, romVars, mainVars, envVars
    <2>2. StatusFresh' /\ Position' /\ EchoBytes' /\ ResponsesWhole'
      BY <1>5 DEF IInv, vars, portVars, StatusFresh, Position, EchoBytes, ResponsesWhole,
         devices, lineVars, progVars, sendVars,
         serverVars, romVars, mainVars, envVars
    <2>3. StreamStep
      BY <1>5 DEF vars, portVars, StreamStep, Plain!streamVars, devices, lineVars, progVars,
           sendVars,
         serverVars, romVars, mainVars, envVars
    <2> QED
      BY <2>1, <2>2, <2>3 DEF IInv
  <1> QED
    BY <1>1, <1>2, <1>3, <1>4, <1>5 DEF Next, Program, Interrupt, Arrival, Hardware

(* Every register, queue and variable of the two programs keeps a value it *)
(* can hold, whatever arrives: the driver of the boards never overfills a  *)
(* queue of TopWithSegmentLed and indexes no response past its end.        *)
THEOREM BoardTypeCorrect == Spec => []TypeOK
  <1>1. IInv => TypeOK
    BY DEF IInv
  <1> QED
    BY InitIInv, StepKeeps, <1>1, PTL DEF Spec

(* A flag of the UART status is still true when the program acts on it,    *)
(* although bytes come, are sent and interrupt it in between.              *)
THEOREM FlagsStayTrue == Spec => []StatusFresh
  <1>1. IInv => StatusFresh
    BY DEF IInv
  <1> QED
    BY InitIInv, StepKeeps, <1>1, PTL DEF Spec

(* The responses of the server reach the wire whole and in order, for any  *)
(* depth of the queue and any response.                                    *)
THEOREM ResponsesCorrect == Spec => []ResponsesWhole
  <1>1. IInv => ResponsesWhole
    BY DEF IInv
  <1> QED
    BY InitIInv, StepKeeps, <1>1, PTL DEF Spec

(* What is promised where entries are precise is the stream as it is, and  *)
(* nothing elsewhere.                                                      *)
LEMMA PromiseKept ==
  ASSUME precise \in BOOLEAN, precise' = precise, StreamStep
  PROVE  [Abstract!StreamNext]_(Abstract!streamVars)
  <1>1. CASE precise
    <2> DEFINE all == <<rxQueue \o held, got, txQueue, told, wire>>
    <2>1. \/ Plain!StreamNext
          \/ UNCHANGED all
      BY <1>1 DEF StreamStep, Plain!streamVars
    <2>2. /\ Promised(rxQueue \o held) = rxQueue \o held /\ Promised(got) = got
          /\ Promised(txQueue) = txQueue /\ Promised(told) = told /\ Promised(wire) = wire
          /\ Promised(rxQueue \o held)' = (rxQueue \o held)' /\ Promised(got)' = got'
          /\ Promised(txQueue)' = txQueue' /\ Promised(told)' = told' /\ Promised(wire)' = wire'
      BY <1>1 DEF Promised
    <2>3. CASE Plain!StreamNext
      BY <2>2, <2>3 DEF Plain!StreamNext, Plain!Arrive, Plain!Write, Plain!Consume, Plain!Send,
         Abstract!StreamNext, Abstract!Arrive, Abstract!Write, Abstract!Consume, Abstract!Send
    <2>4. CASE UNCHANGED all
      BY <2>2, <2>4 DEF Abstract!streamVars
    <2> QED
      BY <2>1, <2>3, <2>4
  <1>2. CASE ~precise
    BY <1>2 DEF Promised, Abstract!streamVars
  <1> QED
    BY <1>1, <1>2

(* The safety part of ImplementsStream: from the first state on, every     *)
(* step of the board is a step of ByteStream or leaves its state alone,    *)
(* with either program, where each entry falls between two instructions.   *)
THEOREM StreamCorrect == Spec => Abstract!StreamInit /\ [][Abstract!StreamNext]_(Abstract!streamVars)
  <1>1. IInv /\ [Next]_vars => [Abstract!StreamNext]_(Abstract!streamVars)
    <2> SUFFICES ASSUME IInv, [Next]_vars PROVE [Abstract!StreamNext]_(Abstract!streamVars)
      OBVIOUS
    <2>1. precise \in BOOLEAN
      BY DEF IInv, TypeOK, RomTypeOK
    <2>2. precise' = precise
      BY DEF Next, Program, Interrupt, Arrival, Hardware, RomStep, Entry, Between, Replayed, Again,
         Misled, Overtaken, Lost, isr_extint_handler, romVars, vars
    <2> QED
      BY <2>1, <2>2, StepKeeps, PromiseKept
  <1>2. BoardInit => Abstract!StreamInit
    BY InitIInv DEF Plain!StreamInit, Abstract!StreamInit, Promised
  <1> QED
    BY InitIInv, StepKeeps, <1>1, <1>2, PTL DEF Spec

-----------------------------------------------------------------------------
(* The echo of the boot program.                                           *)

Echo == Rest(told, Len(Hello))

(* s is, in order, some of the first m elements of t.                      *)
EmbedsIn(s, t, m) == \E at \in [DOMAIN s -> 1 .. m] :
    \A i, j \in DOMAIN s : s[i] = t[at[i]] /\ (i < j => at[i] < at[j])

(* A byte marked in value was received after the m-th.                     *)
Received(b, m)   == \E k \in m + 1 .. Len(got) : b = got[k]
NewerThan(value, m) == Flagged(value) => Received(LowByte(value), m)

Greeting == pc \in {"enable", "h_poll", "h_send"}

(* What is echoed comes from the first m bytes received, and what is next  *)
(* to be echoed, wherever the build keeps it, from a later one.            *)
EchoFrom(m) ==
    /\ EmbedsIn(Echo, got, m)
    /\ Greeting \/ pc = "hoist" => NewerThan(uart_rx_data, m)
    /\ pc \in {"test", "ready"} => NewerThan(Tested, m)
    /\ pc = "ready" => Flagged(Seen) /\ NewerThan(Seen, m)
    /\ pc \in {"poll", "send"} => Received(arg, m)

EchoInv ==
    /\ Greeting => pending = Hello /\ Len(told) = count
    /\ ~Greeting => Len(told) >= Len(Hello)
    /\ \E m \in 0 .. Len(got) : EchoFrom(m)

EchoKept == image = "bootrom" /\ precise => EchoInv

(* Another byte received leaves an embedding as it is. *)
LEMMA EmbedsLonger ==
  ASSUME NEW t \in Seq(Bytes), NEW m \in 0 .. Len(t), NEW s, NEW b \in Bytes, EmbedsIn(s, t, m)
  PROVE  EmbedsIn(s, Append(t, b), m)
  <1>1. PICK at \in [DOMAIN s -> 1 .. m] :
           \A i, j \in DOMAIN s : s[i] = t[at[i]] /\ (i < j => at[i] < at[j])
    BY DEF EmbedsIn
  <1>2. Len(t) \in Nat /\ \A k \in 1 .. Len(t) : Append(t, b)[k] = t[k]
    BY LenProperties, AppendProperties
  <1>3. \A i \in DOMAIN s : at[i] \in 1 .. Len(t)
    BY <1>1, <1>2
  <1> DEFINE u == Append(t, b)
  <1>4. \A i \in DOMAIN s : u[at[i]] = t[at[i]]
    BY <1>2, <1>3
  <1> HIDE DEF u
  <1>5. EmbedsIn(s, u, m)
    BY <1>1, <1>4, ZenonT(60) DEF EmbedsIn
  <1> QED BY <1>5 DEF u

(* A later byte may be put behind those embedded. *)
LEMMA EmbedsMore ==
  ASSUME NEW s \in Seq(Bytes), NEW t \in Seq(Bytes), NEW m \in 0 .. Len(t), EmbedsIn(s, t, m),
         NEW k \in m + 1 .. Len(t)
  PROVE  EmbedsIn(Append(s, t[k]), t, k)
  <1>1. PICK at \in [DOMAIN s -> 1 .. m] :
           \A i, j \in DOMAIN s : s[i] = t[at[i]] /\ (i < j => at[i] < at[j])
    BY DEF EmbedsIn
  <1> DEFINE u  == Append(s, t[k])
             n  == Len(s)
             to == [i \in DOMAIN u |-> IF i = n + 1 THEN k ELSE at[i]]
  <1>2. n \in Nat /\ Len(t) \in Nat /\ m \in Nat /\ k \in Nat /\ m < k /\ k <= Len(t)
    BY LenProperties
  <1>3. t[k] \in Bytes
    BY <1>2, ElementOfSeq
  <1>4. /\ DOMAIN s = 1 .. n /\ DOMAIN u = 1 .. n + 1
        /\ u[n + 1] = t[k] /\ \A i \in 1 .. n : u[i] = s[i]
    BY <1>2, <1>3, LenProperties, AppendProperties
  <1>5. \A i \in 1 .. n : i # n + 1 /\ to[i] = at[i] /\ at[i] \in 1 .. m /\ i \in 1 .. n + 1
    BY <1>1, <1>2, <1>4
  <1>6. to[n + 1] = k /\ n + 1 \in 1 .. n + 1
    BY <1>2, <1>4
  <1>7. \A i \in 1 .. n + 1 : i \in 1 .. n \/ i = n + 1
    BY <1>2
  <1> HIDE DEF to, u
  <1>8. to \in [DOMAIN u -> 1 .. k]
    <2>1. \A i \in 1 .. n + 1 : to[i] \in 1 .. k
      BY <1>2, <1>5, <1>6, <1>7
    <2>2. to = [i \in DOMAIN u |-> to[i]]
      BY DEF to
    <2> QED BY <1>4, <2>1, <2>2
  <1>9. ASSUME NEW i \in DOMAIN u, NEW j \in DOMAIN u
        PROVE  u[i] = t[to[i]] /\ (i < j => to[i] < to[j])
    <2>1. u[i] = t[to[i]]
      BY <1>1, <1>4, <1>5, <1>6, <1>7
    <2>2. ASSUME i < j PROVE to[i] < to[j]
      <3>1. i \in 1 .. n
        BY <1>2, <1>4, <1>7, <2>2
      <3>2. CASE j \in 1 .. n
        BY <1>1, <1>4, <1>5, <2>2, <3>1, <3>2
      <3>3. CASE j = n + 1
        BY <1>2, <1>5, <1>6, <3>1, <3>3
      <3> QED BY <1>4, <1>7, <3>2, <3>3
    <2> QED BY <2>1, <2>2
  <1>10. EmbedsIn(u, t, k)
    BY <1>8, <1>9 DEF EmbedsIn
  <1> QED BY <1>10 DEF u

(* What is appended to a sequence is appended to its rest. *)
LEMMA RestAppends ==
  ASSUME NEW s \in Seq(Bytes), NEW b \in Bytes, NEW n \in 0 .. Len(s)
  PROVE  Rest(Append(s, b), n) = Append(Rest(s, n), b)
  <1> DEFINE u == Append(s, b)
  <1>1. Len(s) \in Nat /\ u \in Seq(Bytes) /\ Len(u) = Len(s) + 1 /\ u[Len(s) + 1] = b
        /\ \A i \in 1 .. Len(s) : u[i] = s[i]
    BY LenProperties, AppendProperties
  <1>2. Rest(s, n) \in Seq(Bytes) /\ Len(Rest(s, n)) = Len(s) - n
    BY RestEnds
  <1>3. Rest(u, n) \in Seq(Bytes) /\ Len(Rest(u, n)) = Len(s) + 1 - n
    <2>1. n \in 0 .. Len(u)
      BY <1>1
    <2>2. u \in Seq(Bytes) /\ Len(u) = Len(s) + 1
      BY <1>1
    <2> HIDE DEF u
    <2>3. Rest(u, n) \in Seq(Bytes) /\ Len(Rest(u, n)) = Len(u) - n
      BY <2>1, <2>2, RestEnds
    <2> QED BY <1>1, <2>2, <2>3
  <1>4. \A i \in 1 .. Len(s) - n : Rest(s, n)[i] = s[n + i]
    <2>1. \A i \in n + 1 .. Len(s) : s[i] \in Bytes
      BY <1>1, ElementOfSeq
    <2>2. \A i \in 1 .. Len(Rest(s, n)) : SubSeq(s, n + 1, Len(s))[i] = s[n + 1 + i - 1]
      BY <1>1, <1>2, <2>1, SubSeqProperties DEF Rest
    <2> QED BY <1>2, <2>2 DEF Rest
  <1>5. \A i \in 1 .. Len(s) + 1 - n : Rest(u, n)[i] = u[n + i]
    <2>1. \A i \in n + 1 .. Len(u) : u[i] \in Bytes
      BY <1>1, ElementOfSeq
    <2>2. \A i \in 1 .. Len(Rest(u, n)) : SubSeq(u, n + 1, Len(u))[i] = u[n + 1 + i - 1]
      BY <1>1, <1>3, <2>1, SubSeqProperties DEF Rest
    <2> QED BY <1>3, <2>2 DEF Rest
  <1> DEFINE r == Rest(s, n)
  <1>6. /\ Append(r, b) \in Seq(Bytes) /\ Len(Append(r, b)) = Len(s) - n + 1
        /\ Append(r, b)[Len(s) - n + 1] = b
        /\ \A i \in 1 .. Len(s) - n : Append(r, b)[i] = r[i]
    BY <1>2, AppendProperties
  <1>7. ASSUME NEW i \in 1 .. Len(s) + 1 - n PROVE Rest(u, n)[i] = Append(r, b)[i]
    <2>1. CASE i = Len(s) - n + 1
      <3>1. n + i = Len(s) + 1
        BY <1>1, <2>1
      <3> QED BY <1>1, <1>5, <1>6, <2>1, <3>1
    <2>2. CASE i # Len(s) - n + 1
      <3>1. i \in 1 .. Len(s) - n /\ n + i \in 1 .. Len(s)
        BY <1>1, <2>2
      <3> QED BY <1>1, <1>4, <1>5, <1>6, <3>1
    <2> QED BY <2>1, <2>2
  <1> HIDE DEF u, r
  <1>8. Len(Rest(u, n)) = Len(Append(r, b))
    BY <1>1, <1>3, <1>6
  <1>9. Rest(u, n) = Append(r, b)
    BY <1>3, <1>6, <1>7, <1>8, SeqEqual
  <1> QED BY <1>9 DEF u, r

(* Nothing is echoed while the greeting goes out. *)
LEMMA NoEcho ==
  ASSUME NEW s \in Seq(Bytes), Len(s) <= Len(Hello), NEW t
  PROVE  EmbedsIn(Rest(s, Len(Hello)), t, 0)
  <1>1. Len(s) \in Nat /\ Len(Hello) \in Nat
    BY LenProperties, HelloAssumption
  <1>2. Rest(s, Len(Hello)) = <<>>
    BY <1>1, SubSeqEmpty DEF Rest
  <1>3. DOMAIN <<>> = {}
    OBVIOUS
  <1>4. [i \in {} |-> 0] \in [{} -> 1 .. 0]
    OBVIOUS
  <1> QED BY <1>2, <1>3, <1>4 DEF EmbedsIn

(* After reset. *)
LEMMA InitEcho == BoardInit => EchoKept
  <1> SUFFICES ASSUME BoardInit, image = "bootrom" PROVE EchoInv
    BY DEF EchoKept
  <1>1. pc = "enable" /\ pending = Hello /\ told = <<>> /\ got = <<>> /\ count = 0 /\ uart_rx_data = {}
    BY DEF BoardInit, PortInit, RomInit
  <1>2. <<>> \in Seq(Bytes) /\ Len(<<>>) = 0
    OBVIOUS
  <1>3. Len(Hello) \in Nat
    BY LenProperties, HelloAssumption
  <1>4. EmbedsIn(Echo, got, 0)
    <2>1. told \in Seq(Bytes) /\ Len(told) <= Len(Hello)
      BY <1>1, <1>2, <1>3
    <2> QED BY <2>1, NoEcho DEF Echo
  <1>5. EchoFrom(0) /\ Greeting
    BY <1>1, <1>4 DEF EchoFrom, Greeting, NewerThan, Flagged
  <1> QED BY <1>1, <1>2, <1>5 DEF EchoInv

(* A step of the boot program keeps it. *)
LEMMA RomStepEcho ==
  ASSUME IInv, image = "bootrom", EchoInv, RomStep
  PROVE  EchoInv'
  <1>1. PICK m \in 0 .. Len(got) : EchoFrom(m)
    BY DEF EchoInv
  <1>2. /\ got \in Seq(Bytes) /\ told \in Seq(Bytes) /\ pending \in Seq(Bytes) /\ arg \in Bytes
        /\ Hello \in Seq(Bytes) /\ got' = got /\ reload' = reload
    BY HelloAssumption DEF IInv, TypeOK, PortTypeOK, RomTypeOK, RomStep, enable_interrupt, HelloPoll, HelloSend,
       Hoist, Test, Ready, Poll, Send, Clear, Wander, mainVars, progVars
  <1>3. Len(got) \in Nat /\ Len(told) \in Nat /\ Len(Hello) \in Nat /\ m \in Nat
    BY <1>2, LenProperties
  <1>4. ASSUME told' = told, Greeting' => Greeting /\ pending' = pending /\ count' = count,
               Greeting => Greeting', EchoFrom(m)'
        PROVE  EchoInv'
    BY <1>2, <1>4 DEF EchoInv
  <1>5. told' = told => (EmbedsIn(Echo, got, m))'
    BY <1>1, <1>2 DEF EchoFrom, Echo, EmbedsIn
  <1>6. CASE enable_interrupt \/ HelloPoll
    <2>1. /\ pc \in {"enable", "h_poll"} /\ pc' \in {"h_poll", "h_send"}
          /\ UNCHANGED <<told, pending, count, uart_rx_data>>
      BY <1>6 DEF enable_interrupt, HelloPoll, sendVars, mainVars
    <2>2. EchoFrom(m)'
      BY <1>1, <1>2, <1>5, <2>1 DEF EchoFrom, Greeting, NewerThan, Received
    <2> QED BY <1>4, <2>1, <2>2 DEF Greeting
  <1>7. CASE HelloSend
    <2> DEFINE b == pending[count + 1]
    <2>1. /\ pc = "h_send" /\ told' = Append(told, b) /\ count' = count + 1
          /\ pc' = IF count' = Len(pending) THEN "hoist" ELSE "h_poll"
          /\ UNCHANGED <<pending, uart_rx_data>>
      BY <1>7 DEF HelloSend, mainVars
    <2>2. pending = Hello /\ Len(told) = count /\ count < Len(Hello) /\ count \in Nat
      BY <1>3, <2>1 DEF EchoInv, Greeting, IInv, Position
    <2>3. b \in Bytes
      BY <1>2, <1>3, <2>2, ElementOfSeq, count + 1 \in 1 .. Len(Hello)
    <2>4. Len(told') = count + 1 /\ told' \in Seq(Bytes)
      BY <1>2, <2>1, <2>2, <2>3, AppendProperties
    <2>5. (EmbedsIn(Echo, got, 0))'
      BY <1>3, <2>2, <2>4, NoEcho DEF Echo
    <2>6. NewerThan(uart_rx_data, 0)
      BY <1>1, <1>3, <2>1 DEF EchoFrom, Greeting, NewerThan, Received
    <2>7. EchoFrom(0)'
      BY <1>2, <2>1, <2>5, <2>6 DEF EchoFrom, Greeting, NewerThan, Received
    <2> QED BY <1>3, <2>1, <2>2, <2>4, <2>7 DEF EchoInv, Greeting
  <1>8. CASE Hoist
    <2>1. /\ pc = "hoist" /\ pc' = "test" /\ cached' = uart_rx_data
          /\ UNCHANGED <<told, uart_rx_data>>
      BY <1>8 DEF Hoist
    <2>2. Tested' = uart_rx_data
      BY <2>1 DEF Tested
    <2>3. EchoFrom(m)'
      BY <1>1, <1>2, <1>5, <2>1, <2>2 DEF EchoFrom, Greeting, NewerThan, Received
    <2> QED BY <1>4, <2>1, <2>3 DEF Greeting
  <1>9. CASE Test
    <2>1. /\ pc = "test" /\ pc' = IF Flagged(Tested) THEN "ready" ELSE "test"
          /\ cached' = IF reload = "each" THEN cached ELSE Tested
          /\ UNCHANGED <<told, uart_rx_data>>
      BY <1>9 DEF Test
    <2>2. Tested' = Tested /\ Seen' = Tested
      BY <1>2, <2>1 DEF Tested, Seen
    <2>3. EchoFrom(m)'
      BY <1>1, <1>2, <1>5, <2>1, <2>2 DEF EchoFrom, Greeting, NewerThan, Received
    <2> QED BY <1>4, <2>1, <2>3 DEF Greeting
  <1>10. CASE Ready
    <2>1. /\ pc = "ready" /\ pc' \in {"poll", "test"} /\ arg' = LowByte(Seen)
          /\ UNCHANGED <<told, uart_rx_data, cached>>
      BY <1>10 DEF Ready
    <2>2. Tested' = Tested
      BY <1>2, <2>1 DEF Tested
    <2>3. EchoFrom(m)'
      BY <1>1, <1>2, <1>5, <2>1, <2>2 DEF EchoFrom, Greeting, NewerThan, Received
    <2> QED BY <1>4, <2>1, <2>3 DEF Greeting
  <1>11. CASE Poll
    <2>1. pc = "poll" /\ pc' \in {"poll", "send"} /\ UNCHANGED <<told, arg>>
      BY <1>11 DEF Poll, mainVars
    <2>2. EchoFrom(m)'
      BY <1>1, <1>2, <1>5, <2>1 DEF EchoFrom, Greeting, Received
    <2> QED BY <1>4, <2>1, <2>2 DEF Greeting
  <1>12. CASE Send
    <2>1. pc = "send" /\ pc' = "clear" /\ told' = Append(told, arg)
      BY <1>12 DEF Send
    <2>2. Len(told) >= Len(Hello)
      BY <2>1 DEF EchoInv, Greeting
    <2>3. PICK k \in m + 1 .. Len(got) : arg = got[k]
      BY <1>1, <2>1 DEF EchoFrom, Received
    <2>4. Echo' = Append(Echo, got[k])
      BY <1>2, <1>3, <2>1, <2>2, <2>3, RestAppends, Len(Hello) \in 0 .. Len(told) DEF Echo
    <2>5. Echo \in Seq(Bytes)
      BY <1>2, <1>3, <2>2, RestEnds, Len(Hello) \in 0 .. Len(told) DEF Echo
    <2>6. EmbedsIn(Append(Echo, got[k]), got, k)
      BY <1>1, <1>2, <2>5, EmbedsMore DEF EchoFrom
    <2>7. k \in 0 .. Len(got)
      BY <1>3
    <2>8. EchoFrom(k)'
      BY <1>2, <2>1, <2>4, <2>6 DEF EchoFrom, Greeting
    <2>9. Len(told') = Len(told) + 1
      BY <1>2, <2>1, AppendProperties
    <2> QED BY <1>2, <1>3, <2>1, <2>2, <2>7, <2>8, <2>9 DEF EchoInv, Greeting
  <1>13. CASE Clear
    <2>1. /\ pc = "clear" /\ pc' = "test" /\ told' = told /\ cached' = {}
          /\ uart_rx_data' = IF reload = "once" THEN uart_rx_data ELSE {}
      BY <1>13 DEF Clear
    <2>2. Tested' = {}
      BY <1>2, <2>1 DEF Tested
    <2>3. EchoFrom(m)'
      BY <1>5, <2>1, <2>2 DEF EchoFrom, Greeting, NewerThan, Flagged
    <2> QED BY <1>4, <2>1, <2>3 DEF Greeting
  <1>14. CASE Wander
    BY <1>14 DEF Wander, EchoInv, EchoFrom, Echo, EmbedsIn, Greeting, NewerThan, Received, Tested,
       Seen, mainVars, progVars, sendVars
  <1> QED BY <1>6, <1>7, <1>8, <1>9, <1>10, <1>11, <1>12, <1>13, <1>14 DEF RomStep

(* So does the handler: what it leaves in uart_rx_data is the newest byte. *)
LEMMA HandlerEcho ==
  ASSUME IInv, image = "bootrom", EchoInv, Between
  PROVE  EchoInv'
  <1>1. PICK m \in 0 .. Len(got) : EchoFrom(m)
    BY DEF EchoInv
  <1> DEFINE b == LowByte(word')
             n == Len(got) + 1
  <1>2. /\ got \in Seq(Bytes) /\ DevicesTypeOK /\ rxQueue \in Seq(Bytes) /\ rxQueue # <<>>
        /\ JustLoad(REG_UART_DATA) /\ uart_rx_data' = word' /\ got' = Append(got, b)
        /\ UNCHANGED <<told, pc, pending, count, reload, cached, arg>>
    BY DEF IInv, TypeOK, PortTypeOK, Between, isr_extint_handler, interrupt_in
  <1>3. word' = Head(rxQueue) \cup {16} /\ Head(rxQueue) \in Byte /\ Head(rxQueue) \in Bytes
    <2>1. IsData(REG_UART_DATA)
      BY UartOffsets DEF REG_UART_DATA
    <2>2. Head(rxQueue) \in Bytes
      BY <1>2, HeadTailProperties
    <2> QED BY <1>2, <2>1, <2>2, DataStep
  <1>4. b \in Bytes
    <2>1. Head(rxQueue) \cap (0 .. 7) = Head(rxQueue) /\ 16 \notin 0 .. 7
      BY <1>3, ByteIsWord
    <2>2. b = Head(rxQueue)
      BY <1>3, <2>1 DEF LowByte
    <2> QED BY <1>3, <2>2
  <1>5. Flagged(uart_rx_data')
    BY <1>2, <1>3 DEF Flagged
  <1>6. /\ Len(got) \in Nat /\ m \in Nat /\ Len(got') = n /\ got'[n] = b
        /\ \A k \in m + 1 .. Len(got) : got'[k] = got[k] /\ k \in m + 1 .. Len(got')
    <2>1. Len(got) \in Nat /\ Len(got') = n /\ got'[n] = b /\ \A k \in 1 .. Len(got) : got'[k] = got[k]
      BY <1>2, <1>4, LenProperties, AppendProperties
    <2>2. \A k \in m + 1 .. Len(got) : k \in 1 .. Len(got) /\ k \in m + 1 .. n
      BY <2>1
    <2> QED BY <2>1, <2>2
  <1>7. (EmbedsIn(Echo, got, m))'
    BY <1>1, <1>2, <1>4, EmbedsLonger DEF EchoFrom, Echo
  <1>8. ASSUME NEW x, Received(x, m) PROVE \E k \in m + 1 .. Len(got') : x = got'[k]
    BY <1>6, <1>8 DEF Received
  <1>9. (NewerThan(uart_rx_data, m))'
    <2>1. n \in m + 1 .. Len(got')
      BY <1>6
    <2> QED BY <1>2, <1>6, <2>1 DEF NewerThan, Received
  <1>10. NewerThan(cached, m) => (NewerThan(cached, m))'
    BY <1>2, <1>8 DEF NewerThan, Received
  <1>11. Received(arg, m) => (Received(arg, m))'
    BY <1>2, <1>8 DEF Received
  <1>12. pc \in {"test", "ready"} => (NewerThan(Tested, m))'
    <2>1. CASE reload = "once"
      BY <1>1, <1>2, <1>10, <2>1 DEF EchoFrom, Tested, NewerThan, Received
    <2>2. CASE reload # "once"
      BY <1>2, <1>9, <2>2 DEF Tested, NewerThan, Received
    <2> QED BY <2>1, <2>2
  <1>13. pc = "ready" => (Flagged(Seen) /\ NewerThan(Seen, m))'
    <2>1. CASE reload = "each"
      BY <1>2, <1>5, <1>9, <2>1 DEF Seen, NewerThan, Received
    <2>2. CASE reload # "each"
      BY <1>1, <1>2, <1>10, <2>2 DEF EchoFrom, Seen, NewerThan, Received
    <2> QED BY <2>1, <2>2
  <1>14. EchoFrom(m)'
    BY <1>1, <1>2, <1>7, <1>9, <1>11, <1>12, <1>13 DEF EchoFrom, Greeting
  <1>15. m \in 0 .. Len(got')
    BY <1>6
  <1> QED BY <1>2, <1>14, <1>15 DEF EchoInv, Greeting

(* Every step of the board keeps it. *)
LEMMA StepEcho == IInv /\ EchoKept /\ [Next]_vars => EchoKept'
  <1> SUFFICES ASSUME IInv, EchoKept, [Next]_vars, image' = "bootrom", precise' PROVE EchoInv'
    BY DEF EchoKept
  <1>1. image' = image /\ precise
    BY DEF Next, Program, Interrupt, Arrival, Hardware, RomStep, Entry, Between, Replayed, Again,
       Misled, Overtaken, Lost, isr_extint_handler, romVars, envVars, vars
  <1>2. EchoInv
    BY <1>1 DEF EchoKept
  <1>3. CASE RomStep
    BY <1>1, <1>2, <1>3, RomStepEcho
  <1>4. CASE Between
    BY <1>1, <1>2, <1>4, HandlerEcho
  <1>5. CASE UNCHANGED <<told, got, pc, pending, count, mainVars>>
    BY <1>2, <1>5 DEF EchoInv, EchoFrom, Echo, EmbedsIn, Greeting, NewerThan, Received, Tested,
       Seen, mainVars
  <1>6. \/ RomStep \/ Between \/ UNCHANGED <<told, got, pc, pending, count, mainVars>>
    BY <1>1 DEF Next, Program, Interrupt, Entry, Replayed, Misled, Overtaken, Arrival, Hardware,
       Receive, Enqueue, Transmit, progVars, sendVars, romVars, vars, portVars
  <1> QED BY <1>3, <1>4, <1>5, <1>6

(***************************************************************************)
(* Where the core enters each interrupt between two instructions of main,  *)
(* the boot program echoes only what it has received, in the order of its  *)
(* arrival and each byte at most once: for any bytes, any greeting, queues *)
(* of any depth, any such moments, and for each of the three ways a        *)
(* compiler may load the variable that the handler writes.                 *)
(***************************************************************************)
THEOREM EchoCorrect == Spec => []EchoInOrder
  <1>1. IInv /\ EchoKept => EchoInOrder
    <2> SUFFICES ASSUME IInv, EchoInv PROVE Embeds(Echo, got)
      BY DEF EchoKept, EchoInOrder, Echo
    <2>1. got \in Seq(Bytes) /\ Len(got) \in Nat
      BY LenProperties DEF IInv, TypeOK, PortTypeOK
    <2>2. PICK m \in 0 .. Len(got) : EmbedsIn(Echo, got, m)
      BY DEF EchoInv, EchoFrom
    <2>3. DOMAIN got = 1 .. Len(got) /\ 1 .. m \subseteq 1 .. Len(got)
      BY <2>1, LenProperties
    <2>4. PICK at \in [DOMAIN Echo -> 1 .. m] :
             \A i, j \in DOMAIN Echo : Echo[i] = got[at[i]] /\ (i < j => at[i] < at[j])
      BY <2>2 DEF EmbedsIn
    <2>5. at \in [DOMAIN Echo -> DOMAIN got]
      BY <2>3
    <2> QED BY <2>4, <2>5 DEF Embeds
  <1> QED BY InitIInv, StepKeeps, InitEcho, StepEcho, <1>1, PTL DEF Spec
=============================================================================
