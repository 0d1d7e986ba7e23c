---------------------------- MODULE ProbeProofs -----------------------------
(***************************************************************************)
(* Proofs about the probe, for every depth of its queue, every position of *)
(* the trigger in it and every way the adapter and the host delay it.      *)
(***************************************************************************)
EXTENDS ProbeLink, SequenceTheorems, TLAPS

Samples == 0 .. Signals - 1

(* WindowHeld is not inductive: a window is in order because each sample   *)
(* put into the queue follows the one before it, and the trigger is at its *)
(* position because the queue held triggerPosition samples when it came.   *)
ProbeInv ==
    /\ ProbeTypeOK
    /\ InOrder(buffer)
    /\ state \in {"FillPreTrigger", "AwaitingTrigger", "FillPostTrigger"} =>
          /\ ~outValid
          /\ buffer # <<>> => Succ(buffer[Len(buffer)]) = signal
    /\ state = "FillPreTrigger" => Len(buffer) = triggerCount /\ triggerCount < triggerPosition
    /\ state = "AwaitingTrigger" => Len(buffer) = triggerPosition
    /\ state = "FillPostTrigger" => Len(buffer) > triggerPosition /\ buffer[triggerPosition + 1] = trig
    /\ WindowHeld

-----------------------------------------------------------------------------
(* Queues of samples. *)

(* The next sample of a signal is a sample. *)
LEMMA SuccIsSample == \A s \in Samples : Succ(s) \in Samples
  BY ProbeLinkAssumption DEF Samples, Succ

(* A queue in order stays so when the sample that follows is put into it. *)
LEMMA Extended ==
    ASSUME NEW s \in Seq(Samples), NEW x \in Samples, InOrder(s),
           s # <<>> => Succ(s[Len(s)]) = x
    PROVE  /\ s \o <<x>> \in Seq(Samples) /\ Len(s \o <<x>>) = Len(s) + 1 /\ s \o <<x>> # <<>>
           /\ \A i \in 1 .. Len(s) : (s \o <<x>>)[i] = s[i]
           /\ (s \o <<x>>)[Len(s) + 1] = x
           /\ InOrder(s \o <<x>>)
  <1> DEFINE t == s \o <<x>>
  <1>1. /\ t \in Seq(Samples) /\ Len(t) = Len(s) + 1 /\ t # <<>>
        /\ \A i \in 1 .. Len(s) : t[i] = s[i]
        /\ t[Len(s) + 1] = x
    OBVIOUS
  <1>2. Len(s) \in Nat /\ (Len(s) # 0 => s # <<>>)
    OBVIOUS
  <1> HIDE DEF t
  <1>3. ASSUME NEW i \in 1 .. Len(t) - 1 PROVE t[i + 1] = Succ(t[i])
    <2>1. CASE i = Len(s)
      BY <1>1, <1>2, <2>1
    <2>2. CASE i < Len(s)
      <3>1. i \in 1 .. Len(s) - 1 /\ i \in 1 .. Len(s) /\ i + 1 \in 1 .. Len(s)
        BY <1>1, <1>2, <2>2
      <3> QED
        BY <1>1, <3>1 DEF InOrder
    <2> QED
      BY <1>1, <1>2, <2>1, <2>2
  <1>4. InOrder(t)
    BY <1>3 DEF InOrder
  <1> QED
    BY <1>1, <1>4 DEF t

(* And when its oldest sample is taken out. *)
LEMMA Shortened ==
    ASSUME NEW s \in Seq(Samples), InOrder(s), s # <<>>
    PROVE  /\ SubSeq(s, 2, Len(s)) \in Seq(Samples) /\ Len(SubSeq(s, 2, Len(s))) = Len(s) - 1
           /\ \A i \in 1 .. Len(s) - 1 : SubSeq(s, 2, Len(s))[i] = s[i + 1]
           /\ Head(s) = s[1] /\ Head(s) \in Samples /\ Len(s) \in Nat /\ Len(s) > 0
           /\ InOrder(SubSeq(s, 2, Len(s)))
  <1> DEFINE t == SubSeq(s, 2, Len(s))
  <1>1. /\ t \in Seq(Samples) /\ Len(t) = Len(s) - 1
        /\ \A i \in 1 .. Len(s) - 1 : t[i] = s[i + 1]
        /\ Head(s) = s[1] /\ Head(s) \in Samples /\ Len(s) \in Nat /\ Len(s) > 0
    <2>1. Len(s) \in Nat /\ Len(s) > 0 /\ Head(s) = s[1]
      OBVIOUS
    <2>2. t = Tail(s)
      BY TailIsSubSeq
    <2>3. /\ Head(s) \in Samples /\ Tail(s) \in Seq(Samples) /\ Len(Tail(s)) = Len(s) - 1
          /\ \A i \in 1 .. Len(Tail(s)) : Tail(s)[i] = s[i + 1]
      BY HeadTailProperties
    <2> HIDE DEF t
    <2> QED
      BY <2>1, <2>2, <2>3
  <1> HIDE DEF t
  <1>2. ASSUME NEW i \in 1 .. Len(t) - 1 PROVE t[i + 1] = Succ(t[i])
    <2>1. i \in 1 .. Len(s) - 1 /\ i + 1 \in 1 .. Len(s) - 1
      BY <1>1
    <2> QED
      BY <1>1, <2>1 DEF InOrder
  <1>3. InOrder(t)
    BY <1>2 DEF InOrder
  <1> QED
    BY <1>1, <1>3 DEF t

-----------------------------------------------------------------------------
(* Steps of the circuit. *)

(* What every state uses of the assumptions and the types. *)
LEMMA ProbeFacts ==
    ASSUME ProbeInv
    PROVE  /\ bufferDepth \in Nat /\ triggerPosition \in 1 .. bufferDepth - 1
           /\ signal \in Samples /\ outData \in Samples /\ buffer \in Seq(Samples)
           /\ Len(buffer) \in Nat /\ Len(buffer) <= bufferDepth /\ triggerCount \in 0 .. bufferDepth - 1
           /\ (buffer = <<>> <=> Len(buffer) = 0)
           /\ InOrder(buffer)
  BY ProbeLinkAssumption DEF ProbeInv, ProbeTypeOK, Samples

(* The types, of the next state. *)
LEMMA TypeFacts ==
    ASSUME state' \in {"Reset", "FillPreTrigger", "AwaitingTrigger", "FillPostTrigger", "Output"},
           signal' \in Samples, outData' \in Samples,
           buffer' \in Seq(Samples), Len(buffer') <= bufferDepth,
           triggerCount' \in 0 .. bufferDepth - 1,
           hasTriggered' \in BOOLEAN, outValid' \in BOOLEAN
    PROVE  ProbeTypeOK'
  BY Zenon DEF ProbeTypeOK, Samples

(* The history of the trigger changes where the circuit accepts one. *)
TrigEdge(trigger) == trig' = IF triggered(trigger) THEN signal ELSE trig

(* A sample put into a queue that has room for it. *)
LEMMA Recorded ==
    ASSUME ProbeInv, state \in {"FillPreTrigger", "AwaitingTrigger", "FillPostTrigger"},
           Len(buffer) < bufferDepth, NextSample
    PROVE  /\ buffer \o Sample \in Seq(Samples) /\ Len(buffer \o Sample) = Len(buffer) + 1
           /\ \A i \in 1 .. Len(buffer) : (buffer \o Sample)[i] = buffer[i]
           /\ (buffer \o Sample)[Len(buffer) + 1] = signal
           /\ InOrder(buffer \o Sample)
           /\ signal' \in Samples /\ Succ(signal) = signal'
  <1>1. Sample = <<signal>>
    BY DEF Sample, Room
  <1>2. signal' = Succ(signal)
    BY DEF NextSample, Succ
  <1>3. buffer \in Seq(Samples) /\ signal \in Samples /\ InOrder(buffer)
    BY ProbeFacts
  <1>4. buffer # <<>> => Succ(buffer[Len(buffer)]) = signal
    BY DEF ProbeInv
  <1> QED
    BY <1>1, <1>2, <1>3, <1>4, Extended, SuccIsSample

(* Reset empties the queue. *)
LEMMA ResetKeeps ==
    ASSUME ProbeInv, NEW trigger \in BOOLEAN, Reset(trigger), TrigEdge(trigger)
    PROVE  ProbeInv'
  <1>1. /\ state' = "FillPreTrigger" /\ buffer' = <<>> /\ triggerCount' = 0 /\ outValid' = FALSE
        /\ hasTriggered' \in BOOLEAN /\ signal' = signal /\ outData' = outData
    BY ProbeFacts DEF Reset, Remember, ProbeInv, ProbeTypeOK
  <1>2. InOrder(<<>>)
    BY DEF InOrder
  <1>3. ProbeTypeOK'
    <2>1. buffer' \in Seq(Samples) /\ Len(buffer') <= bufferDepth
      BY <1>1, ProbeFacts
    <2>2. signal' \in Samples /\ outData' \in Samples
      BY <1>1, ProbeFacts
    <2>3. triggerCount' \in 0 .. bufferDepth - 1
      BY <1>1, ProbeFacts
    <2>4. state' \in {"Reset", "FillPreTrigger", "AwaitingTrigger", "FillPostTrigger", "Output"}
      BY <1>1
    <2>5. hasTriggered' \in BOOLEAN /\ outValid' \in BOOLEAN
      BY <1>1
    <2> QED
      BY <2>1, <2>2, <2>3, <2>4, <2>5, TypeFacts, Zenon
  <1> QED
    BY <1>1, <1>2, <1>3, ProbeFacts DEF ProbeInv, WindowHeld

(* A sample before the trigger may come. *)
LEMMA FillPreKeeps ==
    ASSUME ProbeInv, NEW trigger \in BOOLEAN, FillPreTrigger(trigger), TrigEdge(trigger)
    PROVE  ProbeInv'
  <1>1. /\ state = "FillPreTrigger" /\ Len(buffer) = triggerCount /\ triggerCount < triggerPosition
        /\ ~outValid
    BY DEF FillPreTrigger, ProbeInv
  <1>2. /\ buffer' = buffer \o Sample /\ NextSample
        /\ triggerCount' = triggerCount + 1
        /\ hasTriggered' \in BOOLEAN /\ outValid' = FALSE /\ outData' = outData
        /\ state' = IF triggerCount = triggerPosition - 1 THEN "AwaitingTrigger" ELSE "FillPreTrigger"
    <2>1. (triggerCount + 1) % bufferDepth = triggerCount + 1
      BY <1>1, ProbeFacts
    <2> QED
      BY <1>1, <2>1 DEF FillPreTrigger, Remember, ProbeInv, ProbeTypeOK
  <1>3. /\ buffer' \in Seq(Samples) /\ Len(buffer') = Len(buffer) + 1
        /\ buffer'[Len(buffer')] = signal /\ InOrder(buffer')
        /\ signal' \in Samples /\ Succ(signal) = signal'
    BY <1>1, <1>2, ProbeFacts, Recorded
  <1>4. ProbeTypeOK'
    <2>1. buffer' \in Seq(Samples) /\ Len(buffer') <= bufferDepth
      BY <1>1, <1>2, <1>3, ProbeFacts
    <2>2. signal' \in Samples /\ outData' \in Samples
      BY <1>1, <1>2, <1>3, ProbeFacts
    <2>3. triggerCount' \in 0 .. bufferDepth - 1
      BY <1>1, <1>2, <1>3, ProbeFacts, SMTT(30)
    <2>4. state' \in {"Reset", "FillPreTrigger", "AwaitingTrigger", "FillPostTrigger", "Output"}
      BY <1>1, <1>2, <1>3
    <2>5. hasTriggered' \in BOOLEAN /\ outValid' \in BOOLEAN
      BY <1>1, <1>2, <1>3
    <2> QED
      BY <2>1, <2>2, <2>3, <2>4, <2>5, TypeFacts, Zenon
  <1>5. state' = "FillPreTrigger" => Len(buffer') = triggerCount' /\ triggerCount' < triggerPosition
    BY <1>1, <1>2, <1>3, ProbeFacts
  <1>6. state' = "AwaitingTrigger" => Len(buffer') = triggerPosition
    BY <1>1, <1>2, <1>3, ProbeFacts
  <1>7. state' # "FillPostTrigger" /\ state' # "Output" /\ outValid' = FALSE
    BY <1>2
  <1>8. Succ(buffer'[Len(buffer')]) = signal'
    BY <1>3
  <1> QED
    BY <1>3, <1>4, <1>5, <1>6, <1>7, <1>8 DEF ProbeInv, WindowHeld

(* A sample for the oldest one, or the one at the trigger. *)
LEMMA AwaitingKeeps ==
    ASSUME ProbeInv, NEW trigger \in BOOLEAN, AwaitingTrigger(trigger), TrigEdge(trigger)
    PROVE  ProbeInv'
  <1>1. state = "AwaitingTrigger" /\ Len(buffer) = triggerPosition /\ ~outValid
    BY DEF AwaitingTrigger, ProbeInv
  <1>2. /\ NextSample /\ triggerCount' = triggerCount /\ hasTriggered' \in BOOLEAN
        /\ outValid' = FALSE /\ outData' = outData
    BY <1>1 DEF AwaitingTrigger, Remember, ProbeInv, ProbeTypeOK
  <1>3. signal' \in Samples /\ Succ(signal) = signal'
    BY <1>1, <1>2, ProbeFacts, Recorded
  <1>4. CASE triggered(trigger)
    <2>1. state' = "FillPostTrigger" /\ buffer' = buffer \o Sample /\ trig' = signal
      BY <1>4 DEF AwaitingTrigger, TrigEdge
    <2>2. /\ buffer' \in Seq(Samples) /\ Len(buffer') = Len(buffer) + 1
          /\ buffer'[Len(buffer) + 1] = signal /\ InOrder(buffer')
      BY <1>1, <1>2, <2>1, ProbeFacts, Recorded
    <2>3. ProbeTypeOK'
      <3>1. buffer' \in Seq(Samples) /\ Len(buffer') <= bufferDepth
        BY <1>1, <1>2, <1>3, <2>1, <2>2, ProbeFacts
      <3>2. signal' \in Samples /\ outData' \in Samples
        BY <1>1, <1>2, <1>3, <2>1, <2>2, ProbeFacts
      <3>3. triggerCount' \in 0 .. bufferDepth - 1
        BY <1>1, <1>2, <1>3, <2>1, <2>2, ProbeFacts
      <3>4. state' \in {"Reset", "FillPreTrigger", "AwaitingTrigger", "FillPostTrigger", "Output"}
        BY <1>1, <1>2, <1>3, <2>1, <2>2
      <3>5. hasTriggered' \in BOOLEAN /\ outValid' \in BOOLEAN
        BY <1>1, <1>2, <1>3, <2>1, <2>2
      <3> QED
        BY <3>1, <3>2, <3>3, <3>4, <3>5, TypeFacts, Zenon
    <2>4. Len(buffer') > triggerPosition /\ buffer'[triggerPosition + 1] = trig'
      BY <1>1, <2>1, <2>2, ProbeFacts
    <2>5. Succ(buffer'[Len(buffer')]) = signal'
      BY <1>3, <2>2
    <2> QED
      BY <1>2, <2>1, <2>2, <2>3, <2>4, <2>5 DEF ProbeInv, WindowHeld
  <1>5. CASE ~triggered(trigger)
    <2>1. state' = "AwaitingTrigger" /\ buffer' = Rest \o Sample
      BY <1>1, <1>5 DEF AwaitingTrigger
    <2>2. /\ Rest \in Seq(Samples) /\ Len(Rest) = Len(buffer) - 1 /\ InOrder(Rest)
          /\ \A i \in 1 .. Len(buffer) - 1 : Rest[i] = buffer[i + 1]
      BY <1>1, ProbeFacts, Shortened DEF Rest
    <2>3. Rest # <<>> => Succ(Rest[Len(Rest)]) = signal
      <3> SUFFICES ASSUME Rest # <<>> PROVE Succ(Rest[Len(Rest)]) = signal
        OBVIOUS
      <3>1. Len(Rest) \in 1 .. Len(buffer) - 1
        BY <2>2, ProbeFacts
      <3>2. Rest[Len(Rest)] = buffer[Len(buffer)]
        BY <2>2, <3>1, ProbeFacts
      <3>3. buffer # <<>>
        BY <3>1, ProbeFacts
      <3> QED
        BY <1>1, <3>2, <3>3 DEF ProbeInv
    <2>4. Sample = <<signal>>
      BY <1>1, ProbeFacts DEF Sample, Room
    <2>5. /\ buffer' \in Seq(Samples) /\ Len(buffer') = Len(buffer)
          /\ buffer'[Len(buffer')] = signal /\ InOrder(buffer')
      <3>1. signal \in Samples
        BY ProbeFacts
      <3>2. /\ Rest \o <<signal>> \in Seq(Samples) /\ Len(Rest \o <<signal>>) = Len(Rest) + 1
            /\ (Rest \o <<signal>>)[Len(Rest) + 1] = signal /\ InOrder(Rest \o <<signal>>)
        BY <2>2, <2>3, <3>1, Extended
      <3> QED
        BY <2>1, <2>2, <2>4, <3>2, ProbeFacts
    <2>6. ProbeTypeOK'
      <3>1. buffer' \in Seq(Samples) /\ Len(buffer') <= bufferDepth
        BY <1>2, <1>3, <2>1, <2>5, ProbeFacts
      <3>2. signal' \in Samples /\ outData' \in Samples
        BY <1>2, <1>3, <2>1, <2>5, ProbeFacts
      <3>3. triggerCount' \in 0 .. bufferDepth - 1
        BY <1>2, <1>3, <2>1, <2>5, ProbeFacts
      <3>4. state' \in {"Reset", "FillPreTrigger", "AwaitingTrigger", "FillPostTrigger", "Output"}
        BY <1>2, <1>3, <2>1, <2>5
      <3>5. hasTriggered' \in BOOLEAN /\ outValid' \in BOOLEAN
        BY <1>2, <1>3, <2>1, <2>5
      <3> QED
        BY <3>1, <3>2, <3>3, <3>4, <3>5, TypeFacts, Zenon
    <2>7. Succ(buffer'[Len(buffer')]) = signal' /\ Len(buffer') = triggerPosition
      BY <1>1, <1>3, <2>5
    <2> QED
      BY <1>2, <2>1, <2>5, <2>6, <2>7 DEF ProbeInv, WindowHeld
  <1> QED
    BY <1>4, <1>5

(* A sample after the trigger, or the queue found full. *)
LEMMA FillPostKeeps ==
    ASSUME ProbeInv, NEW trigger \in BOOLEAN, FillPostTrigger(trigger), TrigEdge(trigger)
    PROVE  ProbeInv'
  <1>1. /\ state = "FillPostTrigger" /\ ~outValid
        /\ Len(buffer) > triggerPosition /\ buffer[triggerPosition + 1] = trig
    BY DEF FillPostTrigger, ProbeInv
  <1>2. /\ NextSample /\ triggerCount' = triggerCount /\ hasTriggered' \in BOOLEAN
        /\ outValid' = FALSE /\ outData' = outData /\ trig' = trig
    BY <1>1 DEF FillPostTrigger, Remember, ProbeInv, ProbeTypeOK, TrigEdge, triggered
  <1>3. signal' = Succ(signal) /\ signal' \in Samples
    BY <1>2, ProbeFacts, SuccIsSample DEF NextSample, Succ
  <1>4. CASE Room
    <2>1. state' = "FillPostTrigger" /\ buffer' = buffer \o Sample
      BY <1>1, <1>4 DEF FillPostTrigger
    <2>2. /\ buffer' \in Seq(Samples) /\ Len(buffer') = Len(buffer) + 1
          /\ buffer'[Len(buffer) + 1] = signal /\ InOrder(buffer')
          /\ \A i \in 1 .. Len(buffer) : buffer'[i] = buffer[i]
      BY <1>1, <1>2, <1>4, <2>1, Recorded DEF Room
    <2>3. ProbeTypeOK'
      <3>1. buffer' \in Seq(Samples) /\ Len(buffer') <= bufferDepth
        BY <1>2, <1>3, <1>4, <2>1, <2>2, ProbeFacts DEF Room
      <3>2. signal' \in Samples /\ outData' \in Samples
        BY <1>2, <1>3, <1>4, <2>1, <2>2, ProbeFacts
      <3>3. triggerCount' \in 0 .. bufferDepth - 1
        BY <1>2, <1>3, <1>4, <2>1, <2>2, ProbeFacts
      <3>4. state' \in {"Reset", "FillPreTrigger", "AwaitingTrigger", "FillPostTrigger", "Output"}
        BY <1>2, <1>3, <1>4, <2>1, <2>2
      <3>5. hasTriggered' \in BOOLEAN /\ outValid' \in BOOLEAN
        BY <1>2, <1>3, <1>4, <2>1, <2>2
      <3> QED
        BY <3>1, <3>2, <3>3, <3>4, <3>5, TypeFacts, Zenon
    <2>4. Len(buffer') > triggerPosition /\ buffer'[triggerPosition + 1] = trig'
      BY <1>1, <1>2, <2>2, ProbeFacts, SMTT(30)
    <2>5. Succ(buffer'[Len(buffer')]) = signal'
      BY <1>3, <2>2
    <2> QED
      BY <1>2, <2>1, <2>2, <2>3, <2>4, <2>5 DEF ProbeInv, WindowHeld
  <1>5. CASE ~Room
    <2>1. state' = "Output" /\ buffer' = buffer
      <3>1. Sample = <<>>
        BY <1>5 DEF Sample
      <3>2. buffer \o <<>> = buffer
        BY ProbeFacts
      <3> QED
        BY <1>5, <3>1, <3>2 DEF FillPostTrigger
    <2>2. Len(buffer) = bufferDepth
      BY <1>5, ProbeFacts DEF Room
    <2>3. ProbeTypeOK'
      <3>1. buffer' \in Seq(Samples) /\ Len(buffer') <= bufferDepth
        BY <1>2, <1>3, <2>1, ProbeFacts
      <3>2. signal' \in Samples /\ outData' \in Samples
        BY <1>2, <1>3, <2>1, ProbeFacts
      <3>3. triggerCount' \in 0 .. bufferDepth - 1
        BY <1>2, <1>3, <2>1, ProbeFacts
      <3>4. state' \in {"Reset", "FillPreTrigger", "AwaitingTrigger", "FillPostTrigger", "Output"}
        BY <1>2, <1>3, <2>1
      <3>5. hasTriggered' \in BOOLEAN /\ outValid' \in BOOLEAN
        BY <1>2, <1>3, <2>1
      <3> QED
        BY <3>1, <3>2, <3>3, <3>4, <3>5, TypeFacts, Zenon
    <2>4. buffer'[Len(buffer') - PostTrigger + 1] = trig'
      BY <1>1, <1>2, <2>1, <2>2, ProbeFacts DEF PostTrigger
    <2>5. WindowHeld'
      BY <1>2, <2>1, <2>2, <2>4, ProbeFacts DEF WindowHeld, PostTrigger
    <2> QED
      BY <2>1, <2>3, <2>5, ProbeFacts DEF ProbeInv
  <1> QED
    BY <1>4, <1>5

(* A sample goes out, waits, or was the last. *)
LEMMA OutputKeeps ==
    ASSUME ProbeInv, NEW trigger \in BOOLEAN, NEW ready, Output(ready), TrigEdge(trigger)
    PROVE  ProbeInv'
  <1>1. /\ state = "Output"
        /\ outValid /\ buffer # <<>> => buffer[1] = Succ(outData)
        /\ Len(buffer) >= PostTrigger => buffer[Len(buffer) - PostTrigger + 1] = trig
        /\ outValid /\ Len(buffer) + 1 = PostTrigger => outData = trig
        /\ ~outValid => Len(buffer) = bufferDepth
        /\ outValid \in BOOLEAN
    BY DEF Output, ProbeInv, WindowHeld, ProbeTypeOK
  <1>2. /\ signal' = signal /\ triggerCount' = triggerCount /\ hasTriggered' = FALSE
        /\ trig' = trig
    BY <1>1 DEF Output, TrigEdge, triggered
  <1>3. CASE outValid /\ ~ready
    <2>1. state' = "Output" /\ outValid' = outValid /\ outData' = outData /\ buffer' = buffer
      BY <1>1, <1>3 DEF Output
    <2>2. ProbeTypeOK'
      <3>1. buffer' \in Seq(Samples) /\ Len(buffer') <= bufferDepth
        BY <1>1, <1>2, <2>1, ProbeFacts
      <3>2. signal' \in Samples /\ outData' \in Samples
        BY <1>1, <1>2, <2>1, ProbeFacts
      <3>3. triggerCount' \in 0 .. bufferDepth - 1
        BY <1>1, <1>2, <2>1, ProbeFacts
      <3>4. state' \in {"Reset", "FillPreTrigger", "AwaitingTrigger", "FillPostTrigger", "Output"}
        BY <1>1, <1>2, <2>1
      <3>5. hasTriggered' \in BOOLEAN /\ outValid' \in BOOLEAN
        BY <1>1, <1>2, <2>1
      <3> QED
        BY <3>1, <3>2, <3>3, <3>4, <3>5, TypeFacts, Zenon
    <2>3. WindowHeld'
      BY <1>1, <1>2, <2>1, ProbeFacts DEF WindowHeld, PostTrigger
    <2> QED
      BY <2>1, <2>2, <2>3, ProbeFacts DEF ProbeInv
  <1>4. CASE (~outValid \/ ready) /\ buffer = <<>>
    <2>1. outValid /\ ready
      BY <1>1, <1>4, ProbeFacts
    <2>2. state' = "Reset" /\ outValid' = FALSE /\ outData' = outData /\ buffer' = <<>>
      <3>1. Rest = <<>>
        BY <1>4, ProbeFacts, SubSeqEmpty DEF Rest
      <3>2. outLast
        BY <1>1, <1>4 DEF outLast
      <3> QED
        BY <1>4, <2>1, <3>1, <3>2 DEF Output
    <2>3. ProbeTypeOK'
      <3>1. buffer' \in Seq(Samples) /\ Len(buffer') <= bufferDepth
        BY <1>2, <1>4, <2>2, ProbeFacts
      <3>2. signal' \in Samples /\ outData' \in Samples
        BY <1>2, <1>4, <2>2, ProbeFacts
      <3>3. triggerCount' \in 0 .. bufferDepth - 1
        BY <1>2, <1>4, <2>2, ProbeFacts
      <3>4. state' \in {"Reset", "FillPreTrigger", "AwaitingTrigger", "FillPostTrigger", "Output"}
        BY <1>2, <1>4, <2>2
      <3>5. hasTriggered' \in BOOLEAN /\ outValid' \in BOOLEAN
        BY <1>2, <1>4, <2>2
      <3> QED
        BY <3>1, <3>2, <3>3, <3>4, <3>5, TypeFacts, Zenon
    <2>4. InOrder(buffer')
      BY <1>4, <2>2, ProbeFacts
    <2> QED
      BY <2>2, <2>3, <2>4 DEF ProbeInv, WindowHeld
  <1>5. CASE (~outValid \/ ready) /\ buffer # <<>>
    <2>1. state' = "Output" /\ outValid' = TRUE /\ outData' = Head(buffer) /\ buffer' = Rest
      BY <1>1, <1>5 DEF Output, outLast
    <2>2. /\ buffer' \in Seq(Samples) /\ Len(buffer') = Len(buffer) - 1 /\ InOrder(buffer')
          /\ \A i \in 1 .. Len(buffer) - 1 : buffer'[i] = buffer[i + 1]
          /\ outData' = buffer[1] /\ outData' \in Samples /\ Len(buffer) > 0
      BY <1>5, <2>1, ProbeFacts, Shortened DEF Rest
    <2>3. ProbeTypeOK'
      <3>1. buffer' \in Seq(Samples) /\ Len(buffer') <= bufferDepth
        BY <1>2, <2>1, <2>2, ProbeFacts
      <3>2. signal' \in Samples /\ outData' \in Samples
        BY <1>2, <2>1, <2>2, ProbeFacts
      <3>3. triggerCount' \in 0 .. bufferDepth - 1
        BY <1>2, <2>1, <2>2, ProbeFacts
      <3>4. state' \in {"Reset", "FillPreTrigger", "AwaitingTrigger", "FillPostTrigger", "Output"}
        BY <1>2, <2>1, <2>2
      <3>5. hasTriggered' \in BOOLEAN /\ outValid' \in BOOLEAN
        BY <1>2, <2>1, <2>2
      <3> QED
        BY <3>1, <3>2, <3>3, <3>4, <3>5, TypeFacts, Zenon
    <2>4. buffer' # <<>> => buffer'[1] = Succ(outData')
      <3> SUFFICES ASSUME buffer' # <<>> PROVE buffer'[1] = Succ(outData')
        OBVIOUS
      <3>1. Len(buffer') > 0
        BY <2>2
      <3>2. 1 \in 1 .. Len(buffer) - 1
        BY <2>2, <3>1, ProbeFacts
      <3>3. buffer[1 + 1] = Succ(buffer[1])
        BY <3>2, ProbeFacts DEF InOrder
      <3> QED
        BY <2>2, <3>2, <3>3
    <2>5. PostTrigger \in 1 .. bufferDepth - 1
      BY ProbeFacts DEF PostTrigger
    <2>6. Len(buffer') >= PostTrigger => buffer'[Len(buffer') - PostTrigger + 1] = trig'
      <3> SUFFICES ASSUME Len(buffer') >= PostTrigger
                   PROVE buffer'[Len(buffer') - PostTrigger + 1] = trig'
        OBVIOUS
      <3> DEFINE i == Len(buffer') - PostTrigger + 1
      <3>1. i \in 1 .. Len(buffer) - 1 /\ i + 1 = Len(buffer) - PostTrigger + 1
        BY <2>2, <2>5, ProbeFacts
      <3>2. Len(buffer) >= PostTrigger
        BY <2>2, <2>5, ProbeFacts
      <3> HIDE DEF i
      <3>3. buffer'[i] = trig'
        BY <1>1, <1>2, <2>2, <3>1, <3>2
      <3> QED
        BY <3>3 DEF i
    <2>7. Len(buffer') + 1 = PostTrigger => outData' = trig'
      <3> SUFFICES ASSUME Len(buffer') + 1 = PostTrigger PROVE outData' = trig'
        OBVIOUS
      <3>1. Len(buffer) = PostTrigger /\ Len(buffer) - PostTrigger + 1 = 1
        BY <2>2, <2>5, ProbeFacts
      <3>2. buffer[Len(buffer) - PostTrigger + 1] = trig
        BY <1>1, <2>5, <3>1
      <3> QED
        BY <1>2, <2>2, <3>1, <3>2
    <2>8. WindowHeld'
      BY <2>1, <2>2, <2>4, <2>6, <2>7 DEF WindowHeld, PostTrigger
    <2> QED
      BY <2>1, <2>2, <2>3, <2>8 DEF ProbeInv
  <1> QED
    BY <1>1, <1>3, <1>4, <1>5

-----------------------------------------------------------------------------
(* Steps of the host leave the probe alone. *)
LEMMA StillKeeps == ProbeInv /\ UNCHANGED <<probeVars, trig>> => ProbeInv'
  BY DEF ProbeInv, ProbeTypeOK, WindowHeld, probeVars, InOrder, PostTrigger, Succ

(* The inductive invariant of the probe holds. *)
LEMMA ProbeInvAlways == Spec => []ProbeInv
  <1>1. Init => ProbeInv
    <2> SUFFICES ASSUME Init PROVE ProbeInv
      OBVIOUS
    <2>1. /\ state = "Reset" /\ buffer = <<>> /\ triggerCount = 0
          /\ hasTriggered = FALSE /\ outValid = FALSE /\ outData = 0 /\ signal = 0
      BY DEF Init, ProbeInit
    <2>2. ProbeTypeOK
      <3>1. bufferDepth \in Nat /\ bufferDepth > 1 /\ Signals \in Nat /\ Signals > 0
        BY ProbeLinkAssumption
      <3>2. 0 \in 0 .. Signals - 1 /\ 0 \in 0 .. bufferDepth - 1 /\ 0 <= bufferDepth
        BY <3>1
      <3>3. buffer \in Seq(0 .. Signals - 1) /\ Len(buffer) <= bufferDepth
        BY <2>1, <3>2
      <3>4. hasTriggered \in BOOLEAN /\ outValid \in BOOLEAN
        BY <2>1
      <3> QED
        BY <2>1, <3>2, <3>3, <3>4, Zenon DEF ProbeTypeOK
    <2>3. InOrder(<<>>)
      BY DEF InOrder
    <2> QED
      BY <2>1, <2>2, <2>3 DEF ProbeInv, WindowHeld
  <1>2. ProbeInv /\ [Next]_vars => ProbeInv'
    <2> SUFFICES ASSUME ProbeInv, [Next]_vars PROVE ProbeInv'
      OBVIOUS
    <2>1. CASE \E ready \in BOOLEAN : Edge(ready)
      <3>1. PICK trigger \in BOOLEAN : ProbeEdge(trigger, sampleReady) /\ TrigEdge(trigger)
        BY <2>1 DEF Edge, TrigEdge
      <3> QED
        BY <3>1, ResetKeeps, FillPreKeeps, AwaitingKeeps, FillPostKeeps, OutputKeeps DEF ProbeEdge
    <2>2. CASE Listen \/ Decode \/ UNCHANGED vars
      BY <2>2, StillKeeps DEF Listen, Decode, vars
    <2> QED
      BY <2>1, <2>2 DEF Next
  <1> QED
    BY <1>1, <1>2, PTL DEF Spec

(***************************************************************************)
(* What is left of a window while it is sent is in order, without a gap,   *)
(* and has its trigger in place, and the queue and the counters keep their *)
(* bounds: for every depth, trigger position and signal, whenever triggers *)
(* come and samples are taken.                                             *)
(***************************************************************************)
THEOREM WindowCorrect == Spec => [](ProbeTypeOK /\ WindowHeld)
  <1>1. ProbeInv => ProbeTypeOK /\ WindowHeld
    BY DEF ProbeInv
  <1> QED
    BY <1>1, ProbeInvAlways, PTL
-----------------------------------------------------------------------------
(* Frames.  A frame is FrameLength bytes, the chunks of the samples of a   *)
(* window between its markers.                                             *)
At(t, j)     == (t + Signals * bufferDepth + j - triggerPosition) % Signals
Before(s, k) == (s + Signals * bufferDepth - k) % Signals
FrameChunks  == bufferDepth * numberOfPhases
FrameLength  == FrameChunks + 2
ChunkAt(t, g) == Chunk(At(t, g \div numberOfPhases), g % numberOfPhases)
FrameByte(t, z) == IF z = 0 THEN START_OF_FRAME
                   ELSE IF z = FrameLength - 1 THEN END_OF_FRAME ELSE ChunkAt(t, z - 1)

(* Which samples of the signal are in the queue. *)
SampleInv ==
    /\ trig \in Samples
    /\ state = "Reset" => ~outValid
    /\ state \in {"FillPreTrigger", "AwaitingTrigger"} =>
          \A i \in 1 .. Len(buffer) : buffer[i] = Before(signal, Len(buffer) + 1 - i)
    /\ state = "FillPostTrigger" =>
          /\ \A i \in 1 .. Len(buffer) : buffer[i] = At(trig, i - 1)
          /\ Len(buffer) < bufferDepth => signal = At(trig, Len(buffer))
    /\ state = "Output" =>
          /\ \A i \in 1 .. Len(buffer) : buffer[i] = At(trig, bufferDepth - Len(buffer) + i - 1)
          /\ outValid => /\ Len(buffer) < bufferDepth
                         /\ outData = At(trig, bufferDepth - Len(buffer) - 1)

(* The probe has sent m samples of the window around t, or, before the     *)
(* first and after the last of them, none of the window it holds.          *)
Taken == bufferDepth - Len(buffer) - (IF outValid THEN 1 ELSE 0)
Taking(m, t) == IF m \in 1 .. bufferDepth - 1
                THEN state = "Output" /\ trig = t /\ Taken = m
                ELSE state = "Output" => Taken = 0

(* The converter gives chunk x of the window around t next. *)
Splitting(x, t) ==
    \/ /\ phaseCounter > 0
       /\ \E m \in 0 .. bufferDepth - 1 :
             /\ x = (m + 1) * numberOfPhases - phaseCounter
             /\ inData = At(t, m) /\ (inLast <=> m = bufferDepth - 1) /\ Taking(m + 1, t)
    \/ /\ phaseCounter = 0
       /\ \E m \in 0 .. bufferDepth - 1 :
             x = m * numberOfPhases /\ Taking(m, t) /\ (m = 0 => t = trig)

(* The adapter takes chunk g of the window around t next. *)
Coming(g, t) ==
    \/ ~chunkValid /\ Splitting(g, t)
    \/ /\ chunkValid /\ chunk = ChunkAt(t, g) /\ (chunkLast <=> g = FrameChunks - 1)
       /\ IF g = FrameChunks - 1 THEN Splitting(0, trig) ELSE Splitting(g + 1, t)

(* The adapter is between frames, has begun one, is before a later chunk   *)
(* of it, or at its end.                                                   *)
Seen(t) == expected # <<>> => t = expected[Len(expected)]
BetweenFrames ==
    /\ frame = "Idle" /\ Coming(0, trig)
    /\ byteValid => byte = END_OF_FRAME
FrameBegun(t) ==
    /\ frame = "InFrame" /\ Coming(0, t) /\ chunkValid
    /\ byteValid /\ byte = START_OF_FRAME
InFrame(g, t) ==
    /\ frame = "InFrame" /\ Coming(g, t) /\ Seen(t)
    /\ byteValid => byte = ChunkAt(t, g - 1)
AtEnd(t) ==
    /\ frame = "EndOfFrame" /\ Coming(0, trig) /\ Seen(t)
    /\ byteValid /\ byte = ChunkAt(t, FrameChunks - 1)

(* What the host has: the rest of a frame whose begin it missed, and then, *)
(* but for what is owed of the last, whole frames of what it expects.      *)
Delivered(bytes, frames, owed) ==
    /\ bytes \in Seq(0 .. END_OF_FRAME) /\ frames \in Seq(Samples)
    /\ \E p \in 0 .. Len(bytes) :
          /\ \A i \in 1 .. p : bytes[i] # START_OF_FRAME
          /\ IF frames = <<>> THEN p = Len(bytes)
             ELSE Len(bytes) - p + owed = Len(frames) * FrameLength
          /\ \A q \in 0 .. Len(bytes) - p - 1 :
                bytes[p + 1 + q] = FrameByte(frames[q \div FrameLength + 1], q % FrameLength)
HostHas(owed) == Delivered(src, expected, owed) /\ (expected # <<>> => listening)

FrameInv ==
    /\ phaseCounter \in 0 .. numberOfPhases
    /\ chunkValid \in BOOLEAN /\ byteValid \in BOOLEAN
    /\ \E h \in {0, 1}, t \in Samples :
          /\ byteValid <=> h = 1
          /\ \/ BetweenFrames /\ HostHas(h)
             \/ FrameBegun(t) /\ HostHas(0)
             \/ \E g \in 1 .. FrameChunks - 1 : InFrame(g, t) /\ HostHas(FrameChunks - g + 1 + h)
             \/ AtEnd(t) /\ HostHas(2)

-----------------------------------------------------------------------------
(* Numbers. *)

(* What is put together from quotient and remainder, and taken apart. *)
LEMMA PutTogether ==
  ASSUME NEW n \in Nat \ {0}, NEW m \in Nat, NEW k \in 0 .. n - 1
  PROVE  (m * n + k) \div n = m /\ (m * n + k) % n = k
  OBVIOUS

LEMMA TakenApart ==
  ASSUME NEW n \in Nat \ {0}, NEW g \in Nat
  PROVE  g \div n \in Nat /\ g % n \in 0 .. n - 1 /\ g = (g \div n) * n + (g % n)
  OBVIOUS

(* The remainder of the next number, and of one a period away. *)
LEMMA NextRemainder ==
  ASSUME NEW n \in Nat \ {0}, NEW x \in Nat
  PROVE  (x + 1) % n = ((x % n) + 1) % n /\ (x + n) % n = x % n
  <1> DEFINE m == x \div n
             k == x % n
  <1>1. m \in Nat /\ k \in 0 .. n - 1 /\ x = m * n + k
    BY TakenApart
  <1> HIDE DEF m, k
  <1>2. (x + n) % n = k
    <2>1. x + n = (m + 1) * n + k
      <3>1. \A a, b \in Nat : (a + 1) * b = a * b + b
        OBVIOUS
      <3>2. m * n \in Nat
        BY <1>1
      <3> QED BY <1>1, <3>1, <3>2
    <2> QED BY <1>1, <2>1, PutTogether
  <1>3. CASE k = n - 1
    <2>1. x + 1 = (m + 1) * n + 0
      <3>1. \A a, b \in Nat : (a + 1) * b = a * b + b
        OBVIOUS
      <3>2. m * n \in Nat
        BY <1>1
      <3> QED BY <1>1, <1>3, <3>1, <3>2
    <2>2. (x + 1) % n = 0
      BY <1>1, <2>1, PutTogether
    <2>3. k + 1 = 1 * n + 0 /\ (1 * n + 0) % n = 0
      BY <1>1, <1>3, PutTogether
    <2> QED BY <1>2, <2>2, <2>3 DEF k
  <1>4. CASE k # n - 1
    <2>1. x + 1 = m * n + (k + 1) /\ k + 1 \in 0 .. n - 1 /\ k + 1 = 0 * n + (k + 1)
      <3>1. m * n \in Nat
        BY <1>1
      <3> QED BY <1>1, <1>4, <3>1
    <2>2. (x + 1) % n = k + 1 /\ (k + 1) % n = k + 1
      <3>1. \A y \in 0 .. n - 1 : y % n = y
        OBVIOUS
      <3> QED BY <1>1, <2>1, <3>1, PutTogether, SMTT(30)
    <2> QED BY <1>2, <2>2 DEF k
  <1> QED BY <1>3, <1>4

-----------------------------------------------------------------------------
(* Windows. *)
LEMMA LinkFacts ==
  /\ bufferDepth \in Nat \ {0, 1} /\ triggerPosition \in 1 .. bufferDepth - 1
  /\ numberOfPhases \in Nat \ {0, 1} /\ Signals \in Nat \ {0} /\ Chunks \in Nat \ {0}
  /\ Signals * bufferDepth \in Nat /\ Signals * bufferDepth >= bufferDepth
  <1>1. /\ bufferDepth \in Nat \ {0, 1} /\ triggerPosition \in 1 .. bufferDepth - 1
        /\ numberOfPhases \in Nat \ {0, 1} /\ Signals \in Nat \ {0} /\ Chunks \in Nat \ {0}
    BY ProbeLinkAssumption
  <1>2. \A a, b \in Nat : a # 0 => a * b \in Nat /\ a * b >= b
    OBVIOUS
  <1> QED BY <1>1, <1>2

(* The samples of a window are consecutive, and the trigger is in place. *)
LEMMA WindowSamples ==
  ASSUME NEW t \in Samples
  PROVE  /\ \A j \in Nat : At(t, j) \in Samples /\ At(t, j + 1) = Succ(At(t, j))
         /\ At(t, triggerPosition) = t
  <1> DEFINE base == t + Signals * bufferDepth - triggerPosition
  <1>1. base \in Nat /\ \A j \in Nat : At(t, j) = (base + j) % Signals
    BY LinkFacts DEF Samples, At
  <1> HIDE DEF base
  <1>2. ASSUME NEW j \in Nat
        PROVE  At(t, j) \in Samples /\ At(t, j + 1) = Succ(At(t, j))
    <2>1. base + j \in Nat /\ base + (j + 1) = (base + j) + 1
      BY <1>1
    <2>2. (base + j) % Signals \in 0 .. Signals - 1
      BY <2>1, LinkFacts, TakenApart
    <2>3. ((base + j) + 1) % Signals = (((base + j) % Signals) + 1) % Signals
      BY <2>1, LinkFacts, NextRemainder
    <2> QED BY <1>1, <2>1, <2>2, <2>3 DEF Samples, Succ
  <1>3. At(t, triggerPosition) = t
    <2>1. At(t, triggerPosition) = (bufferDepth * Signals + t) % Signals
      <3>1. t + Signals * bufferDepth + triggerPosition - triggerPosition = bufferDepth * Signals + t
        BY LinkFacts DEF Samples
      <3> QED BY <3>1 DEF At
    <2> QED BY <2>1, LinkFacts, PutTogether DEF Samples
  <1> QED BY <1>2, <1>3

(* The samples before the next one are the samples before this one. *)
LEMMA SamplesBefore ==
  ASSUME NEW s \in Samples
  PROVE  /\ Before(Succ(s), 1) = s
         /\ \A k \in 1 .. bufferDepth - 1 : Before(Succ(s), k + 1) = Before(s, k)
         /\ \A i \in 0 .. triggerPosition - 1 : Before(s, triggerPosition - i) = At(s, i)
  <1> DEFINE span == Signals * bufferDepth
  <1>1. span \in Nat /\ span >= bufferDepth /\ s \in Nat /\ s < Signals
    BY LinkFacts DEF Samples
  <1>2. \A x, k : Before(x, k) = (x + span - k) % Signals
    BY DEF Before
  <1>3. Succ(s) = IF s = Signals - 1 THEN 0 ELSE s + 1
    BY <1>1, LinkFacts DEF Succ
  <1>4. (s + span) % Signals = s
    <2>1. s + span = bufferDepth * Signals + s
      BY LinkFacts DEF Samples
    <2> QED BY <2>1, LinkFacts, PutTogether DEF Samples
  <1> HIDE DEF span
  <1>5. ASSUME NEW k \in 0 .. bufferDepth - 1
        PROVE  Before(Succ(s), k + 1) = (s + span - k) % Signals
    <2>1. CASE s # Signals - 1
      <3>1. (s + 1) + span - (k + 1) = s + span - k
        BY <1>1, LinkFacts
      <3> QED BY <1>2, <1>3, <2>1, <3>1
    <2>2. CASE s = Signals - 1
      <3> DEFINE x == 0 + span - (k + 1)
      <3>1. x \in Nat /\ x + Signals = s + span - k
        BY <1>1, <2>2, LinkFacts
      <3>2. (x + Signals) % Signals = x % Signals
        BY <3>1, LinkFacts, NextRemainder
      <3>3. Before(Succ(s), k + 1) = x % Signals
        BY <1>2, <1>3, <2>2
      <3> QED BY <3>1, <3>2, <3>3
    <2> QED BY <2>1, <2>2
  <1>6. Before(Succ(s), 1) = s
    <2>1. 0 \in 0 .. bufferDepth - 1 /\ 0 + 1 = 1 /\ s + span - 0 = s + span
      BY <1>1, LinkFacts
    <2> QED BY <1>4, <1>5, <2>1
  <1>7. \A k \in 1 .. bufferDepth - 1 : Before(Succ(s), k + 1) = Before(s, k)
    <2> TAKE k \in 1 .. bufferDepth - 1
    <2>1. k \in 0 .. bufferDepth - 1
      BY LinkFacts
    <2> QED BY <1>2, <1>5, <2>1
  <1>8. \A i \in 0 .. triggerPosition - 1 : Before(s, triggerPosition - i) = At(s, i)
    <2> TAKE i \in 0 .. triggerPosition - 1
    <2>1. s + span - (triggerPosition - i) = s + span + i - triggerPosition
      BY <1>1, LinkFacts
    <2> QED BY <1>2, <2>1 DEF At, span
  <1> QED BY <1>6, <1>7, <1>8

-----------------------------------------------------------------------------
(* The queue holds the samples up to the next, and then those of the       *)
(* window around the trigger.                                              *)
LEMMA SamplesRecorded ==
  ASSUME ProbeInv, SampleInv, NEW trigger \in BOOLEAN, TrigEdge(trigger),
         Reset(trigger) \/ FillPreTrigger(trigger) \/ AwaitingTrigger(trigger)
  PROVE  SampleInv'
  <1>0. /\ buffer \in Seq(Samples) /\ Len(buffer) \in Nat /\ signal \in Samples /\ trig \in Samples
        /\ outValid \in BOOLEAN
    BY ProbeFacts DEF SampleInv, ProbeInv, ProbeTypeOK
  <1>1. CASE Reset(trigger)
    <2>1. state' = "FillPreTrigger" /\ buffer' = <<>> /\ trig' = trig
      BY <1>1, LinkFacts DEF Reset, TrigEdge, triggered
    <2> QED BY <1>0, <2>1 DEF SampleInv
  <1>2. CASE FillPreTrigger(trigger)
    <2>1. /\ state = "FillPreTrigger" /\ Len(buffer) < triggerPosition /\ Len(buffer) < bufferDepth
          /\ trig' = trig /\ buffer' = buffer \o Sample /\ NextSample
          /\ state' \in {"FillPreTrigger", "AwaitingTrigger"}
      BY <1>2, LinkFacts, ProbeFacts DEF FillPreTrigger, ProbeInv, TrigEdge, triggered
    <2>2. /\ Len(buffer') = Len(buffer) + 1 /\ \A i \in 1 .. Len(buffer) : buffer'[i] = buffer[i]
          /\ buffer'[Len(buffer) + 1] = signal /\ signal' = Succ(signal)
      BY <2>1, Recorded
    <2>3. ASSUME NEW i \in 1 .. Len(buffer')
          PROVE  buffer'[i] = Before(signal', Len(buffer') + 1 - i)
      <3>1. CASE i = Len(buffer) + 1
        <4>1. Len(buffer') + 1 - i = 1
          BY <1>0, <2>2, <3>1
        <4> QED BY <1>0, <2>2, <3>1, <4>1, SamplesBefore
      <3>2. CASE i \in 1 .. Len(buffer)
        <4>1. /\ Len(buffer) + 1 - i \in 1 .. bufferDepth - 1
              /\ Len(buffer') + 1 - i = (Len(buffer) + 1 - i) + 1
          BY <1>0, <2>1, <2>2, <3>2, LinkFacts
        <4>2. buffer[i] = Before(signal, Len(buffer) + 1 - i)
          BY <2>1, <3>2 DEF SampleInv
        <4> QED BY <1>0, <2>2, <3>2, <4>1, <4>2, SamplesBefore
      <3> QED BY <1>0, <2>2, <3>1, <3>2
    <2> QED BY <1>0, <2>1, <2>3 DEF SampleInv
  <1>3. CASE AwaitingTrigger(trigger) /\ ~triggered(trigger)
    <2>1. /\ state = "AwaitingTrigger" /\ Len(buffer) = triggerPosition /\ trig' = trig
          /\ buffer' = Rest \o Sample /\ NextSample /\ state' = "AwaitingTrigger"
      BY <1>3 DEF AwaitingTrigger, ProbeInv, TrigEdge
    <2>2. signal' = Succ(signal) /\ Sample = <<signal>>
      BY <2>1, LinkFacts DEF NextSample, Succ, Sample, Room
    <2>3. /\ Rest \in Seq(Samples) /\ Len(Rest) = Len(buffer) - 1
          /\ \A i \in 1 .. Len(buffer) - 1 : Rest[i] = buffer[i + 1]
      BY <1>0, <2>1, LinkFacts, ProbeFacts, Shortened DEF Rest
    <2>4. /\ Len(buffer') = Len(buffer) /\ buffer'[Len(buffer)] = signal
          /\ \A i \in 1 .. Len(buffer) - 1 : buffer'[i] = buffer[i + 1]
      BY <1>0, <2>1, <2>2, <2>3, LinkFacts
    <2>5. ASSUME NEW i \in 1 .. Len(buffer')
          PROVE  buffer'[i] = Before(signal', Len(buffer') + 1 - i)
      <3>1. CASE i = Len(buffer)
        <4>1. Len(buffer') + 1 - i = 1
          BY <1>0, <2>4, <3>1
        <4> QED BY <1>0, <2>2, <2>4, <3>1, <4>1, SamplesBefore
      <3>2. CASE i \in 1 .. Len(buffer) - 1
        <4>1. /\ Len(buffer) - i \in 1 .. bufferDepth - 1 /\ i + 1 \in 1 .. Len(buffer)
              /\ Len(buffer) + 1 - i = (Len(buffer) - i) + 1
              /\ Len(buffer) + 1 - (i + 1) = Len(buffer) - i
          BY <1>0, <2>1, <3>2, LinkFacts
        <4>2. buffer[i + 1] = Before(signal, Len(buffer) + 1 - (i + 1))
          BY <2>1, <4>1 DEF SampleInv
        <4>3. PICK k \in 1 .. bufferDepth - 1 : k = Len(buffer) - i
          BY <4>1
        <4>4. Before(Succ(signal), k + 1) = Before(signal, k)
          BY <1>0, SamplesBefore
        <4>5. Len(buffer') + 1 - i = k + 1
          BY <2>4, <4>1, <4>3
        <4>6. buffer'[i] = Before(signal, k)
          BY <2>4, <3>2, <4>1, <4>2, <4>3
        <4> QED BY <2>2, <4>4, <4>5, <4>6
      <3> QED BY <1>0, <2>4, <3>1, <3>2
    <2> QED BY <1>0, <2>1, <2>5 DEF SampleInv
  <1>4. CASE AwaitingTrigger(trigger) /\ triggered(trigger)
    <2>1. /\ state = "AwaitingTrigger" /\ Len(buffer) = triggerPosition /\ trig' = signal
          /\ buffer' = buffer \o Sample /\ NextSample /\ state' = "FillPostTrigger"
      BY <1>4 DEF AwaitingTrigger, ProbeInv, TrigEdge
    <2>2. /\ Len(buffer') = Len(buffer) + 1 /\ \A i \in 1 .. Len(buffer) : buffer'[i] = buffer[i]
          /\ buffer'[Len(buffer) + 1] = signal /\ signal' = Succ(signal)
      BY <2>1, LinkFacts, Recorded
    <2>3. ASSUME NEW i \in 1 .. Len(buffer')
          PROVE  buffer'[i] = At(trig', i - 1)
      <3>1. CASE i = Len(buffer) + 1
        <4>1. i - 1 = triggerPosition
          BY <1>0, <2>1, <3>1
        <4> QED BY <1>0, <2>1, <2>2, <3>1, <4>1, WindowSamples
      <3>2. CASE i \in 1 .. Len(buffer)
        <4>1. /\ i - 1 \in 0 .. triggerPosition - 1
              /\ Len(buffer) + 1 - i = triggerPosition - (i - 1)
          BY <1>0, <2>1, <3>2, LinkFacts
        <4>2. buffer[i] = Before(signal, Len(buffer) + 1 - i)
          BY <2>1, <3>2 DEF SampleInv
        <4>3. PICK k \in 0 .. triggerPosition - 1 : k = i - 1
          BY <4>1
        <4>4. Before(signal, triggerPosition - k) = At(signal, k)
          BY <1>0, SamplesBefore
        <4>5. buffer'[i] = Before(signal, triggerPosition - k)
          BY <2>2, <3>2, <4>1, <4>2, <4>3
        <4> QED BY <2>1, <4>3, <4>4, <4>5
      <3> QED BY <1>0, <2>2, <3>1, <3>2
    <2>4. signal' = At(trig', Len(buffer'))
      <3>1. triggerPosition \in Nat /\ Len(buffer') = triggerPosition + 1
        BY <2>1, <2>2, LinkFacts
      <3> QED BY <1>0, <2>1, <2>2, <3>1, WindowSamples
    <2> QED BY <1>0, <2>1, <2>3, <2>4 DEF SampleInv
  <1> QED BY <1>1, <1>2, <1>3, <1>4

LEMMA SamplesKept ==
  ASSUME ProbeInv, SampleInv, NEW trigger \in BOOLEAN, NEW ready, TrigEdge(trigger),
         FillPostTrigger(trigger) \/ Output(ready)
  PROVE  SampleInv'
  <1>0. /\ buffer \in Seq(Samples) /\ Len(buffer) \in Nat /\ signal \in Samples /\ trig \in Samples
        /\ outValid \in BOOLEAN /\ trig' = trig
    BY ProbeFacts DEF SampleInv, ProbeInv, ProbeTypeOK, TrigEdge, triggered, FillPostTrigger, Output
  <1>1. CASE FillPostTrigger(trigger) /\ Room
    <2>1. /\ state = "FillPostTrigger" /\ buffer' = buffer \o Sample /\ NextSample
          /\ state' = "FillPostTrigger" /\ Len(buffer) < bufferDepth
      BY <1>1 DEF FillPostTrigger, Room
    <2>2. /\ Len(buffer') = Len(buffer) + 1 /\ \A i \in 1 .. Len(buffer) : buffer'[i] = buffer[i]
          /\ buffer'[Len(buffer) + 1] = signal /\ signal' = Succ(signal)
      BY <2>1, Recorded
    <2>3. signal = At(trig, Len(buffer)) /\ \A i \in 1 .. Len(buffer) : buffer[i] = At(trig, i - 1)
      BY <2>1 DEF SampleInv
    <2>4. ASSUME NEW i \in 1 .. Len(buffer')
          PROVE  buffer'[i] = At(trig, i - 1)
      <3>1. CASE i = Len(buffer) + 1
        <4>1. i - 1 = Len(buffer)
          BY <1>0, <3>1
        <4> QED BY <2>2, <2>3, <3>1, <4>1
      <3>2. CASE i \in 1 .. Len(buffer)
        BY <2>2, <2>3, <3>2
      <3> QED BY <1>0, <2>2, <3>1, <3>2
    <2>5. signal' = At(trig, Len(buffer'))
      BY <1>0, <2>2, <2>3, WindowSamples
    <2> QED BY <1>0, <2>1, <2>4, <2>5 DEF SampleInv
  <1>2. CASE FillPostTrigger(trigger) /\ ~Room
    <2>1. /\ state = "FillPostTrigger" /\ state' = "Output" /\ outValid' = outValid /\ ~outValid
          /\ Len(buffer) = bufferDepth /\ Sample = <<>>
      BY <1>2, ProbeFacts DEF FillPostTrigger, Room, Sample, ProbeInv
    <2>2. buffer' = buffer
      <3>1. buffer \o <<>> = buffer
        BY <1>0
      <3> QED BY <1>2, <2>1, <3>1 DEF FillPostTrigger
    <2>3. ASSUME NEW i \in 1 .. Len(buffer')
          PROVE  buffer'[i] = At(trig, bufferDepth - Len(buffer') + i - 1)
      <3>1. bufferDepth - Len(buffer') + i - 1 = i - 1
        BY <2>1, <2>2, LinkFacts
      <3> QED BY <2>1, <2>2, <3>1 DEF SampleInv
    <2> QED BY <1>0, <2>1, <2>3 DEF SampleInv
  <1>3. CASE Output(ready) /\ outValid /\ ~ready
    <2>1. state = "Output" /\ state' = "Output" /\ UNCHANGED <<outValid, outData, buffer>>
      BY <1>3 DEF Output
    <2> QED BY <1>0, <2>1 DEF SampleInv
  <1>4. CASE Output(ready) /\ (~outValid \/ ready) /\ buffer = <<>>
    <2>1. state = "Output" /\ outValid /\ ready /\ outLast
      BY <1>0, <1>4, LinkFacts DEF Output, ProbeInv, WindowHeld, outLast
    <2>2. state' = "Reset" /\ outValid' = (buffer # <<>>)
      BY <1>4, <2>1 DEF Output
    <2>3. ~outValid'
      BY <1>4, <2>2, Zenon
    <2> QED BY <1>0, <2>2, <2>3 DEF SampleInv
  <1>5. CASE Output(ready) /\ (~outValid \/ ready) /\ buffer # <<>>
    <2>1. /\ state = "Output" /\ state' = "Output" /\ outValid' = TRUE /\ outData' = Head(buffer)
          /\ buffer' = Rest
      BY <1>5 DEF Output, outLast
    <2>2. /\ Len(buffer') = Len(buffer) - 1 /\ Len(buffer) > 0 /\ outData' = buffer[1]
          /\ \A i \in 1 .. Len(buffer) - 1 : buffer'[i] = buffer[i + 1]
      BY <1>5, <2>1, ProbeFacts, Shortened DEF Rest
    <2>3. Len(buffer) <= bufferDepth /\ bufferDepth \in Nat
      BY ProbeFacts
    <2>4. \A i \in 1 .. Len(buffer) : buffer[i] = At(trig, bufferDepth - Len(buffer) + i - 1)
      BY <2>1 DEF SampleInv
    <2>5. outData' = At(trig, bufferDepth - Len(buffer') - 1)
      <3>1. 1 \in 1 .. Len(buffer) /\ bufferDepth - Len(buffer') - 1 = bufferDepth - Len(buffer) + 1 - 1
        BY <1>0, <2>2, <2>3
      <3> QED BY <2>2, <2>4, <3>1
    <2>6. ASSUME NEW i \in 1 .. Len(buffer')
          PROVE  buffer'[i] = At(trig, bufferDepth - Len(buffer') + i - 1)
      <3>1. /\ i \in 1 .. Len(buffer) - 1 /\ i + 1 \in 1 .. Len(buffer)
            /\ bufferDepth - Len(buffer') + i - 1 = bufferDepth - Len(buffer) + (i + 1) - 1
        BY <1>0, <2>2, <2>3
      <3> QED BY <2>2, <2>4, <3>1
    <2>7. Len(buffer') < bufferDepth
      BY <1>0, <2>2, <2>3
    <2> QED BY <1>0, <2>1, <2>5, <2>6, <2>7 DEF SampleInv
  <1> QED BY <1>0, <1>1, <1>2, <1>3, <1>4, <1>5

LEMMA SampleStep ==
  ASSUME ProbeInv, SampleInv, NEW trigger \in BOOLEAN, NEW ready,
         ProbeEdge(trigger, ready), TrigEdge(trigger)
  PROVE  SampleInv'
  BY SamplesRecorded, SamplesKept DEF ProbeEdge
-----------------------------------------------------------------------------
(* Through the converter. *)

(* A step of the probe: a sample taken from it is the next of the window,  *)
(* and otherwise as many are taken as before.                              *)
LEMMA TakingOn ==
  ASSUME ProbeInv, SampleInv, NEW trigger \in BOOLEAN, NEW ready \in BOOLEAN,
         ProbeEdge(trigger, ready), TrigEdge(trigger)
  PROVE  /\ outValid /\ ready =>
               \E m \in 0 .. bufferDepth - 1 :
                  /\ state = "Output" /\ trig' = trig /\ Taken = m
                  /\ outData = At(trig, m) /\ (outLast <=> m = bufferDepth - 1)
                  /\ Taking(m + 1, trig)'
         /\ ~(outValid /\ ready) => \A m, t : Taking(m, t) => Taking(m, t)'
  <1>0. /\ Len(buffer) \in Nat /\ bufferDepth \in Nat \ {0, 1} /\ (buffer = <<>> <=> Len(buffer) = 0)
        /\ outValid \in BOOLEAN /\ Len(buffer) <= bufferDepth
    BY ProbeFacts, LinkFacts DEF ProbeInv, ProbeTypeOK
  <1>1. /\ state \in {"FillPreTrigger", "AwaitingTrigger", "FillPostTrigger", "Reset"} => ~outValid
        /\ state \in {"Reset", "FillPreTrigger", "AwaitingTrigger", "FillPostTrigger", "Output"}
        /\ state = "Output" /\ ~outValid => Len(buffer) = bufferDepth
    <2>1. /\ state \in {"Reset", "FillPreTrigger", "AwaitingTrigger", "FillPostTrigger", "Output"}
          /\ state = "Output" /\ ~outValid => Len(buffer) = bufferDepth
      BY DEF ProbeInv, ProbeTypeOK, WindowHeld
    <2>2. state \in {"FillPreTrigger", "AwaitingTrigger", "FillPostTrigger"} => ~outValid
      BY DEF ProbeInv
    <2>3. state = "Reset" => ~outValid
      BY DEF SampleInv
    <2> QED BY <2>1, <2>2, <2>3
  <1>6. state = "Output" => trig' = trig
    BY DEF TrigEdge, triggered
  <1>2. ASSUME outValid, ready
        PROVE  \E m \in 0 .. bufferDepth - 1 :
                  /\ state = "Output" /\ trig' = trig /\ Taken = m
                  /\ outData = At(trig, m) /\ (outLast <=> m = bufferDepth - 1)
                  /\ Taking(m + 1, trig)'
    <2>1. /\ state = "Output" /\ trig' = trig /\ Len(buffer) < bufferDepth
          /\ outData = At(trig, bufferDepth - Len(buffer) - 1)
      BY <1>1, <1>2, <1>6 DEF SampleInv
    <2>2. PICK m \in 0 .. bufferDepth - 1 : m = bufferDepth - Len(buffer) - 1
      <3>1. bufferDepth - Len(buffer) - 1 \in 0 .. bufferDepth - 1
        BY <1>0, <2>1
      <3> QED BY <3>1
    <2>3. Taken = m /\ outData = At(trig, m) /\ (outLast <=> m = bufferDepth - 1)
      <3>1. Taken = m
        BY <1>0, <1>2, <2>2 DEF Taken
      <3>2. outLast <=> Len(buffer) = 0
        BY <1>0, <2>1 DEF outLast
      <3> QED BY <1>0, <2>1, <2>2, <3>1, <3>2
    <2>4. Output(ready)
      BY <2>1 DEF ProbeEdge, Reset, FillPreTrigger, AwaitingTrigger, FillPostTrigger
    <2>5. CASE buffer = <<>>
      <3>1. state' = "Reset" /\ m + 1 = bufferDepth
        BY <1>0, <1>2, <2>1, <2>2, <2>3, <2>4, <2>5 DEF Output
      <3>2. Taking(m + 1, trig)'
        BY <1>0, <3>1 DEF Taking
      <3> QED BY <2>1, <2>3, <3>2
    <2>6. CASE buffer # <<>>
      <3>1. state' = "Output" /\ outValid' = TRUE /\ buffer' = Rest
        <4>1. ~outLast
          BY <2>6 DEF outLast
        <4> QED BY <1>0, <1>2, <2>1, <2>4, <2>6, <4>1 DEF Output
      <3>2. Len(buffer') = Len(buffer) - 1
        BY <2>6, <3>1, ProbeFacts, Shortened DEF Rest
      <3>3. Taken' = bufferDepth - Len(buffer') - 1
        BY <3>1 DEF Taken
      <3>4. bufferDepth - (Len(buffer) - 1) - 1 = m + 1
        BY <1>0, <2>2
      <3>5. Taken' = m + 1
        BY <3>2, <3>3, <3>4
      <3>6. m + 1 \in 1 .. bufferDepth - 1
        BY <1>0, <2>2, <2>6
      <3>7. Taking(m + 1, trig)'
        BY <3>1, <3>5, <3>6 DEF Taking
      <3> QED BY <2>1, <2>3, <3>7
    <2> QED BY <2>5, <2>6
  <1>3. ASSUME ~(outValid /\ ready), state = "Output"
        PROVE  state' = "Output" /\ trig' = trig /\ Taken' = Taken
    <2>1. Output(ready) /\ trig' = trig
      BY <1>1, <1>3, <1>6 DEF ProbeEdge, Reset, FillPreTrigger, AwaitingTrigger, FillPostTrigger
    <2>2. CASE outValid
      BY <1>3, <2>1, <2>2 DEF Output, Taken
    <2>3. CASE ~outValid
      <3>1. buffer # <<>> /\ Len(buffer) = bufferDepth
        BY <1>0, <1>1, <1>3, <2>3
      <3>2. state' = "Output" /\ outValid' = TRUE /\ buffer' = Rest
        BY <1>3, <2>1, <2>3, <3>1 DEF Output
      <3>3. Len(buffer') = bufferDepth - 1
        BY <3>1, <3>2, ProbeFacts, Shortened DEF Rest
      <3>4. Taken = 0
        <4>1. Taken = bufferDepth - Len(buffer) - 0
          BY <2>3 DEF Taken
        <4> QED BY <1>0, <3>1, <4>1
      <3>5. Taken' = bufferDepth - Len(buffer') - 1
        BY <3>2 DEF Taken
      <3>6. bufferDepth - (bufferDepth - 1) - 1 = 0
        BY <1>0
      <3>7. Taken' = 0
        BY <3>3, <3>5, <3>6
      <3> QED BY <2>1, <3>2, <3>4, <3>7
    <2> QED BY <2>2, <2>3
  <1>4. ASSUME ~(state = "Output"), state' = "Output"
        PROVE  Taken' = 0
    <2>1. FillPostTrigger(trigger) /\ ~Room /\ ~outValid
      BY <1>1, <1>4 DEF ProbeEdge, Reset, FillPreTrigger, AwaitingTrigger, FillPostTrigger, Output
    <2>2. outValid' = FALSE /\ Len(buffer) = bufferDepth
      BY <1>0, <2>1 DEF FillPostTrigger, Room
    <2>3. buffer' = buffer
      <3>1. buffer \o <<>> = buffer
        BY ProbeFacts
      <3> QED BY <2>1, <3>1 DEF FillPostTrigger, Sample
    <2> QED BY <1>0, <2>2, <2>3 DEF Taken
  <1>5. ASSUME ~(outValid /\ ready), NEW m, NEW t, Taking(m, t)
        PROVE  Taking(m, t)'
    <2>1. CASE state = "Output"
      BY <1>3, <1>5, <2>1 DEF Taking
    <2>2. CASE ~(state = "Output")
      BY <1>4, <1>5, <2>2 DEF Taking
    <2> QED BY <2>1, <2>2
  <1> QED BY <1>2, <1>5

(* A chunk's number says which of the sample's it is. *)
LEMMA ChunkNumbers ==
  ASSUME NEW m \in 0 .. bufferDepth - 1, NEW c \in 1 .. numberOfPhases
  PROVE  LET x == (m + 1) * numberOfPhases - c
         IN  /\ x \in 0 .. FrameChunks - 1
             /\ x \div numberOfPhases = m /\ x % numberOfPhases = numberOfPhases - c
             /\ x = FrameChunks - 1 <=> c = 1 /\ m = bufferDepth - 1
             /\ x < 2 => m = 0 /\ c = numberOfPhases - x
             /\ (m + 1) * numberOfPhases \in Nat
  <1> DEFINE n == numberOfPhases
             x == (m + 1) * n - c
  <1>1. n \in Nat \ {0, 1} /\ m \in Nat /\ n - c \in 0 .. n - 1 /\ c \in Nat /\ bufferDepth \in Nat
    BY LinkFacts
  <1> HIDE DEF n
  <1>2. /\ (m + 1) * n = m * n + n /\ m * n \in Nat /\ m * n + (n - c) \in Nat
        /\ m # 0 => m * n >= n
    <2>1. \A a, b \in Nat : (a + 1) * b = a * b + b /\ a * b \in Nat /\ (a # 0 => a * b >= b)
      OBVIOUS
    <2> QED BY <1>1, <2>1
  <1>3. x = m * n + (n - c)
    BY <1>1, <1>2
  <1>4. x \div n = m /\ x % n = n - c
    <2>1. (m * n + (n - c)) \div n = m /\ (m * n + (n - c)) % n = n - c
      BY <1>1, PutTogether
    <2> QED BY <1>3, <2>1
  <1>5. (m + 1) * n <= bufferDepth * n /\ bufferDepth * n \in Nat
        /\ (m + 1 < bufferDepth => (m + 1) * n + n <= bufferDepth * n)
    <2>1. \A a, b \in Nat : a + 1 <= b => a * n + n <= b * n /\ a * n \in Nat /\ b * n \in Nat
      BY <1>1
    <2>2. m + 1 <= bufferDepth /\ m + 1 \in Nat
      BY <1>1
    <2>3. m + 1 < bufferDepth => (m + 1) * n + n <= bufferDepth * n
      BY <1>1, <2>1, <2>2
    <2>4. bufferDepth * n \in Nat /\ m * n + n <= bufferDepth * n
      BY <1>1, <2>1, <2>2
    <2> QED BY <1>2, <2>3, <2>4
  <1>6. x \in 0 .. bufferDepth * n - 1
    BY <1>1, <1>2, <1>3, <1>5
  <1>7. x = bufferDepth * n - 1 <=> c = 1 /\ m = bufferDepth - 1
    <2>1. CASE m = bufferDepth - 1
      <3>1. (m + 1) * n = bufferDepth * n
        BY <1>1, <2>1
      <3> QED BY <1>1, <1>5, <2>1, <3>1
    <2>2. CASE m # bufferDepth - 1
      <3>1. m + 1 < bufferDepth
        BY <1>1, <2>2
      <3>2. (m + 1) * n \in Nat /\ (m + 1) * n + n <= bufferDepth * n
        BY <1>1, <1>2, <1>5, <3>1
      <3> QED BY <1>1, <1>5, <2>2, <3>2
    <2> QED BY <2>1, <2>2
  <1>8. x < 2 => m = 0 /\ c = n - x
    BY <1>1, <1>2, <1>3
  <1> QED BY <1>1, <1>2, <1>4, <1>6, <1>7, <1>8 DEF FrameChunks, n

(* The first chunks of a window are those of its first sample. *)
LEMMA FirstSample ==
  ASSUME NEW x \in {0, 1}, NEW t, Splitting(x, t), phaseCounter \in 0 .. numberOfPhases
  PROVE  /\ t = trig
         /\ x = 1 \/ phaseCounter > 0 => state = "Output"
  <1>0. bufferDepth \in Nat \ {0, 1} /\ numberOfPhases \in Nat \ {0, 1}
    BY LinkFacts
  <1>1. CASE phaseCounter > 0
    <2>1. PICK m \in 0 .. bufferDepth - 1 :
             x = (m + 1) * numberOfPhases - phaseCounter /\ Taking(m + 1, t)
      BY <1>0, <1>1 DEF Splitting
    <2>2. m = 0
      BY <1>0, <1>1, <2>1, ChunkNumbers
    <2>3. Taking(1, t)
      BY <2>1, <2>2
    <2> QED BY <1>0, <2>3 DEF Taking
  <1>2. CASE phaseCounter = 0
    <2>1. PICK m \in 0 .. bufferDepth - 1 :
             x = m * numberOfPhases /\ Taking(m, t) /\ (m = 0 => t = trig)
      BY <1>0, <1>2 DEF Splitting
    <2>2. m = 0 /\ x = 0
      <3>1. \A a \in Nat, b \in Nat \ {0, 1} : (a # 0 => a * b >= b /\ a * b \in Nat) /\ 0 * b = 0
        OBVIOUS
      <3> QED BY <1>0, <2>1, <3>1
    <2> QED BY <1>2, <2>1, <2>2
  <1> QED BY <1>0, <1>1, <1>2

(* A clock of the converter. *)
LEMMA SplittingOn ==
  ASSUME ProbeInv, SampleInv, NEW trigger \in BOOLEAN, NEW ready \in BOOLEAN,
         ProbeEdge(trigger, sampleReady), TrigEdge(trigger), ConverterEdge(offered, ready),
         phaseCounter \in 0 .. numberOfPhases, chunkValid \in BOOLEAN,
         NEW x \in 0 .. FrameChunks - 1, NEW t \in Samples, Splitting(x, t)
  PROVE  LET gives == phaseCounter > 0 /\ (~chunkValid \/ ready)
         IN  /\ phaseCounter' \in 0 .. numberOfPhases /\ chunkValid' \in BOOLEAN
             /\ gives => /\ chunkValid' /\ chunk' = ChunkAt(t, x)
                         /\ chunkLast' <=> x = FrameChunks - 1
                         /\ IF x = FrameChunks - 1 THEN Splitting(0, trig)' ELSE Splitting(x + 1, t)'
                         /\ x = 0 => t = trig'
             /\ ~gives => /\ chunkValid' <=> chunkValid /\ ~ready
                          /\ chunkValid' => chunk' = chunk /\ (chunkLast' <=> chunkLast)
                          /\ IF x = 0 THEN Splitting(0, trig)' ELSE Splitting(x, t)'
  <1>0. /\ bufferDepth \in Nat \ {0, 1} /\ numberOfPhases \in Nat \ {0, 1}
        /\ phaseCounter \in Nat /\ phaseCounter <= numberOfPhases
    BY LinkFacts
  <1>1. CASE phaseCounter > 0 /\ (~chunkValid \/ ready)
    <2>1. /\ phaseCounter' = phaseCounter - 1 /\ chunkValid' = TRUE
          /\ chunk' = Chunk(inData, numberOfPhases - phaseCounter)
          /\ (chunkLast' <=> phaseCounter = 1 /\ inLast)
          /\ inData' = inData /\ inLast' = inLast
      <3>1. SplitSample(ready)
        <4>1. phaseCounter # 0
          BY <1>0, <1>1
        <4> QED BY <1>1, <4>1 DEF ConverterEdge, TakeSample
      <3>2. chunkLast' <=> phaseCounter = 1 /\ inLast
        BY <3>1, Zenon DEF SplitSample
      <3> QED BY <3>1, <3>2 DEF SplitSample
    <2>2. PICK m \in 0 .. bufferDepth - 1 :
             /\ x = (m + 1) * numberOfPhases - phaseCounter
             /\ inData = At(t, m) /\ (inLast <=> m = bufferDepth - 1) /\ Taking(m + 1, t)
      BY <1>0, <1>1 DEF Splitting
    <2>3. phaseCounter \in 1 .. numberOfPhases
      BY <1>0, <1>1
    <2>4. /\ x \div numberOfPhases = m /\ x % numberOfPhases = numberOfPhases - phaseCounter
          /\ x = FrameChunks - 1 <=> phaseCounter = 1 /\ m = bufferDepth - 1
          /\ (m + 1) * numberOfPhases \in Nat
      BY <2>2, <2>3, ChunkNumbers
    <2>5. chunk' = ChunkAt(t, x) /\ (chunkLast' <=> x = FrameChunks - 1)
      BY <2>1, <2>2, <2>4 DEF ChunkAt
    <2>6. ~sampleReady /\ sampleReady \in BOOLEAN
      BY <1>0, <1>1 DEF sampleReady
    <2>7. Taking(m + 1, t)'
      BY <2>2, <2>6, TakingOn
    <2>8. x = 0 => t = trig'
      <3> SUFFICES ASSUME x = 0 PROVE t = trig'
        OBVIOUS
      <3>1. t = trig /\ state = "Output"
        BY <1>1, FirstSample
      <3> QED BY <3>1 DEF TrigEdge, triggered
    <2>9. phaseCounter' \in 0 .. numberOfPhases
      BY <1>0, <1>1, <2>1
    <2>10. CASE phaseCounter > 1
      <3>1. /\ phaseCounter' > 0 /\ x + 1 = (m + 1) * numberOfPhases - phaseCounter'
            /\ x # FrameChunks - 1
        BY <1>0, <2>1, <2>2, <2>4, <2>10
      <3>2. Splitting(x + 1, t)'
        BY <2>1, <2>2, <2>7, <3>1 DEF Splitting
      <3> QED BY <1>1, <2>1, <2>5, <2>8, <2>9, <3>1, <3>2
    <2>11. CASE phaseCounter = 1 /\ m # bufferDepth - 1
      <3>1. /\ phaseCounter' = 0 /\ x + 1 = (m + 1) * numberOfPhases
            /\ m + 1 \in 0 .. bufferDepth - 1 /\ m + 1 # 0
        BY <1>0, <2>1, <2>2, <2>4, <2>11
      <3>2. Splitting(x + 1, t)'
        BY <2>7, <3>1 DEF Splitting
      <3> QED BY <1>1, <2>1, <2>4, <2>5, <2>8, <2>9, <2>11, <3>2
    <2>12. CASE phaseCounter = 1 /\ m = bufferDepth - 1
      <3>1. phaseCounter' = 0 /\ 0 \in 0 .. bufferDepth - 1 /\ 0 = 0 * numberOfPhases
        BY <1>0, <2>1, <2>12
      <3>2. Taking(0, trig)'
        BY <1>0, <2>7, <2>12 DEF Taking
      <3>3. Splitting(0, trig)'
        BY <3>1, <3>2 DEF Splitting
      <3> QED BY <1>1, <2>1, <2>4, <2>5, <2>8, <2>9, <2>12, <3>3
    <2> QED BY <1>0, <1>1, <2>10, <2>11, <2>12
  <1>2. CASE phaseCounter > 0 /\ ~(~chunkValid \/ ready)
    <2>1. UNCHANGED converterVars /\ chunkValid /\ ~ready
      BY <1>0, <1>2 DEF ConverterEdge, SplitSample, TakeSample
    <2>2. PICK m \in 0 .. bufferDepth - 1 :
             /\ x = (m + 1) * numberOfPhases - phaseCounter
             /\ inData = At(t, m) /\ (inLast <=> m = bufferDepth - 1) /\ Taking(m + 1, t)
      BY <1>0, <1>2 DEF Splitting
    <2>3. ~sampleReady /\ sampleReady \in BOOLEAN
      BY <1>0, <1>2 DEF sampleReady
    <2>4. Taking(m + 1, t)'
      BY <2>2, <2>3, TakingOn
    <2>5. Splitting(x, t)'
      BY <1>2, <2>1, <2>2, <2>4 DEF Splitting, converterVars
    <2>6. x = 0 => Splitting(0, trig)'
      <3> SUFFICES ASSUME x = 0 PROVE Splitting(0, trig)'
        OBVIOUS
      <3>1. t = trig /\ state = "Output"
        BY <1>2, FirstSample
      <3>2. trig' = t
        BY <3>1 DEF TrigEdge, triggered
      <3> QED BY <2>5, <3>2
    <2> QED BY <1>2, <2>1, <2>5, <2>6 DEF converterVars
  <1>3. CASE phaseCounter = 0 /\ ~outValid
    <2>1. /\ phaseCounter' = 0 /\ (chunkValid' <=> chunkValid /\ ~ready) /\ chunkValid' \in BOOLEAN
          /\ chunk' = chunk /\ chunkLast' = chunkLast
      <3>1. /\ TakeSample(offered) /\ chunkValid' = (chunkValid /\ ~ready)
            /\ UNCHANGED <<chunk, chunkLast>>
        <4>1. ~(phaseCounter > 0)
          BY <1>0, <1>3
        <4> QED BY <4>1 DEF ConverterEdge, SplitSample
      <3>2. (chunkValid' <=> chunkValid /\ ~ready) /\ chunkValid' \in BOOLEAN
        <4>1. chunkValid' <=> chunkValid /\ ~ready
          BY <3>1, Zenon
        <4>2. chunkValid' \in BOOLEAN
          BY <3>1
        <4> QED BY <4>1, <4>2
      <3>3. ~offered.valid
        BY <1>3 DEF offered
      <3>4. phaseCounter' = 0 /\ chunk' = chunk /\ chunkLast' = chunkLast
        BY <1>3, <3>1, <3>3 DEF TakeSample
      <3> QED BY <3>2, <3>4
    <2>2. PICK m \in 0 .. bufferDepth - 1 :
             x = m * numberOfPhases /\ Taking(m, t) /\ (m = 0 => t = trig)
      BY <1>0, <1>3 DEF Splitting
    <2>3. Taking(m, t)'
      <3>1. sampleReady \in BOOLEAN
        BY DEF sampleReady
      <3> QED BY <1>3, <2>2, <3>1, TakingOn
    <2>4. CASE m = 0
      <3>1. x = 0 /\ x = m * numberOfPhases
        BY <1>0, <2>2, <2>4
      <3>2. Taking(0, trig)'
        BY <1>0, <2>3, <2>4 DEF Taking
      <3>3. Splitting(0, trig)'
        BY <2>1, <2>4, <3>1, <3>2 DEF Splitting
      <3> QED BY <1>0, <1>3, <2>1, <3>1, <3>3
    <2>5. CASE m # 0
      <3>1. x # 0
        <4>1. \A a, b \in Nat : a # 0 /\ b # 0 => a * b # 0
          OBVIOUS
        <4> QED BY <1>0, <2>2, <2>5, <4>1
      <3>2. Splitting(x, t)'
        BY <2>1, <2>2, <2>3, <2>5 DEF Splitting
      <3> QED BY <1>0, <1>3, <2>1, <3>1, <3>2
    <2> QED BY <2>4, <2>5
  <1>4. CASE phaseCounter = 0 /\ outValid
    <2>1. /\ phaseCounter' = numberOfPhases /\ (chunkValid' <=> chunkValid /\ ~ready)
          /\ chunkValid' \in BOOLEAN /\ chunk' = chunk /\ chunkLast' = chunkLast
          /\ inData' = outData /\ (inLast' <=> outLast)
      <3>1. /\ TakeSample(offered) /\ chunkValid' = (chunkValid /\ ~ready)
            /\ UNCHANGED <<chunk, chunkLast>>
        <4>1. ~(phaseCounter > 0)
          BY <1>0, <1>4
        <4> QED BY <4>1 DEF ConverterEdge, SplitSample
      <3>2. (chunkValid' <=> chunkValid /\ ~ready) /\ chunkValid' \in BOOLEAN
        <4>1. chunkValid' <=> chunkValid /\ ~ready
          BY <3>1, Zenon
        <4>2. chunkValid' \in BOOLEAN
          BY <3>1
        <4> QED BY <4>1, <4>2
      <3>3. offered.valid /\ offered.data = outData /\ offered.last = outLast
        BY <1>4 DEF offered
      <3>4. /\ phaseCounter' = numberOfPhases /\ inData' = outData /\ inLast' = offered.last
            /\ chunk' = chunk /\ chunkLast' = chunkLast
        BY <1>4, <3>1, <3>3 DEF TakeSample
      <3>5. inLast' <=> outLast
        BY <3>3, <3>4, Zenon
      <3> QED BY <3>2, <3>4, <3>5
    <2>2. PICK m \in 0 .. bufferDepth - 1 :
             x = m * numberOfPhases /\ Taking(m, t) /\ (m = 0 => t = trig)
      BY <1>0, <1>4 DEF Splitting
    <2>3. PICK d \in 0 .. bufferDepth - 1 :
             /\ state = "Output" /\ trig' = trig /\ Taken = d /\ outData = At(trig, d)
             /\ (outLast <=> d = bufferDepth - 1) /\ Taking(d + 1, trig)'
      <3>1. sampleReady \in BOOLEAN /\ sampleReady
        BY <1>4 DEF sampleReady
      <3> QED BY <1>4, <3>1, TakingOn
    <2>4. d = m /\ t = trig
      BY <1>0, <2>2, <2>3 DEF Taking
    <2>8. Taking(m + 1, t)'
      BY <2>3, <2>4 DEF Taking
    <2>5. x = (m + 1) * numberOfPhases - numberOfPhases
      <3>1. \A a, b \in Nat : (a + 1) * b - b = a * b
        OBVIOUS
      <3> QED BY <1>0, <2>2, <3>1
    <2>6. Splitting(x, t)'
      <3>1. phaseCounter' > 0 /\ x = (m + 1) * numberOfPhases - phaseCounter'
        BY <1>0, <2>1, <2>5
      <3>2. inData' = At(t, m) /\ (inLast' <=> m = bufferDepth - 1) /\ Taking(m + 1, t)'
        BY <2>1, <2>3, <2>4, <2>8
      <3> QED BY <3>1, <3>2 DEF Splitting
    <2>7. trig' = t
      BY <2>3, <2>4
    <2> QED BY <1>0, <1>4, <2>1, <2>6, <2>7
  <1> QED BY <1>0, <1>1, <1>2, <1>3, <1>4

(* A frame has a chunk for every phase of every sample. *)
LEMMA WholeFrame ==
  /\ FrameChunks \in Nat /\ FrameChunks > 1 /\ FrameLength \in Nat
  /\ FrameLength = FrameChunks + 2 /\ FrameChunks \div numberOfPhases = bufferDepth
  <1>1. bufferDepth \in Nat \ {0, 1} /\ numberOfPhases \in Nat \ {0, 1}
    BY LinkFacts
  <1>2. \A a, b \in Nat \ {0, 1} : a * b \in Nat /\ a * b > 1
    <2>1. \A a, b \in Nat \ {0, 1} : a * b \in Nat /\ a * b >= b
      OBVIOUS
    <2> QED BY <2>1
  <1>3. (bufferDepth * numberOfPhases + 0) \div numberOfPhases = bufferDepth
    BY <1>1, PutTogether
  <1>4. bufferDepth * numberOfPhases \in Nat /\ bufferDepth * numberOfPhases > 1
    BY <1>1, <1>2
  <1> QED BY <1>3, <1>4 DEF FrameChunks, FrameLength

(* The adapter takes a chunk that is valid, and otherwise the same comes.  *)
LEMMA ComingOn ==
  ASSUME ProbeInv, SampleInv, NEW trigger \in BOOLEAN, NEW ready \in BOOLEAN,
         ProbeEdge(trigger, sampleReady), TrigEdge(trigger), ConverterEdge(offered, ready),
         phaseCounter \in 0 .. numberOfPhases, chunkValid \in BOOLEAN,
         NEW g \in 0 .. FrameChunks - 1, NEW t \in Samples, Coming(g, t)
  PROVE  /\ phaseCounter' \in 0 .. numberOfPhases /\ chunkValid' \in BOOLEAN
         /\ chunkValid /\ ready =>
               IF g = FrameChunks - 1 THEN Coming(0, trig)' ELSE Coming(g + 1, t)'
         /\ ~(chunkValid /\ ready) =>
               /\ IF g = 0 THEN Coming(0, trig)' ELSE Coming(g, t)'
               /\ chunkValid => chunkValid'
         /\ chunkValid => /\ chunk = ChunkAt(t, g) /\ (chunkLast <=> g = FrameChunks - 1)
                          /\ g = 0 => t = trig /\ trig' = trig
  <1>0. FrameChunks \in Nat /\ FrameChunks > 1 /\ g \in Nat /\ trig \in Samples
    BY WholeFrame DEF SampleInv
  <1>1. CASE ~chunkValid
    <2>1. Splitting(g, t)
      BY <1>1 DEF Coming
    <2>2. CASE phaseCounter > 0
      <3>1. /\ phaseCounter' \in 0 .. numberOfPhases /\ chunkValid' \in BOOLEAN
            /\ chunkValid' /\ chunk' = ChunkAt(t, g) /\ (chunkLast' <=> g = FrameChunks - 1)
            /\ IF g = FrameChunks - 1 THEN Splitting(0, trig)' ELSE Splitting(g + 1, t)'
            /\ g = 0 => t = trig'
        BY <1>1, <2>1, <2>2, SplittingOn
      <3>2. Coming(g, t)'
        BY <3>1 DEF Coming
      <3>3. g = 0 => Coming(0, trig)'
        BY <3>1, <3>2
      <3> QED BY <1>1, <3>1, <3>2, <3>3
    <2>3. CASE ~(phaseCounter > 0)
      <3>1. /\ phaseCounter' \in 0 .. numberOfPhases /\ chunkValid' \in BOOLEAN
            /\ ~chunkValid'
            /\ IF g = 0 THEN Splitting(0, trig)' ELSE Splitting(g, t)'
        BY <1>1, <2>1, <2>3, SplittingOn
      <3>2. IF g = 0 THEN Coming(0, trig)' ELSE Coming(g, t)'
        BY <3>1 DEF Coming
      <3> QED BY <1>1, <3>1, <3>2
    <2> QED BY <2>2, <2>3
  <1>2. CASE chunkValid
    <2>1. /\ chunk = ChunkAt(t, g) /\ (chunkLast <=> g = FrameChunks - 1)
          /\ IF g = FrameChunks - 1 THEN Splitting(0, trig) ELSE Splitting(g + 1, t)
      BY <1>2 DEF Coming
    <2>2. g = 0 => t = trig /\ trig' = trig
      <3> SUFFICES ASSUME g = 0 PROVE t = trig /\ trig' = trig
        OBVIOUS
      <3>1. Splitting(1, t)
        BY <1>0, <2>1
      <3>2. t = trig /\ state = "Output"
        BY <3>1, FirstSample
      <3> QED BY <3>2 DEF TrigEdge, triggered
    <2>3. PICK x \in 0 .. FrameChunks - 1, u \in Samples :
             /\ Splitting(x, u)
             /\ x = IF g = FrameChunks - 1 THEN 0 ELSE g + 1
             /\ u = IF g = FrameChunks - 1 THEN trig ELSE t
      <3>1. CASE g = FrameChunks - 1
        BY <1>0, <2>1, <3>1
      <3>2. CASE g # FrameChunks - 1
        <4>1. g + 1 \in 0 .. FrameChunks - 1
          BY <1>0, <3>2
        <4> QED BY <2>1, <3>2, <4>1
      <3> QED BY <3>1, <3>2
    <2>4. CASE ready /\ phaseCounter > 0
      <3>1. /\ phaseCounter' \in 0 .. numberOfPhases /\ chunkValid' \in BOOLEAN
            /\ chunkValid' /\ chunk' = ChunkAt(u, x) /\ (chunkLast' <=> x = FrameChunks - 1)
            /\ IF x = FrameChunks - 1 THEN Splitting(0, trig)' ELSE Splitting(x + 1, u)'
            /\ x = 0 => u = trig'
        BY <1>2, <2>3, <2>4, SplittingOn
      <3>2. Coming(x, u)'
        BY <3>1 DEF Coming
      <3>3. x = 0 => Coming(0, trig)'
        BY <3>1, <3>2
      <3>4. IF g = FrameChunks - 1 THEN Coming(0, trig)' ELSE Coming(g + 1, t)'
        BY <1>0, <2>3, <3>2, <3>3
      <3> QED BY <1>2, <2>1, <2>2, <2>4, <3>1, <3>4
    <2>5. CASE ready /\ ~(phaseCounter > 0)
      <3>1. /\ phaseCounter' \in 0 .. numberOfPhases /\ chunkValid' \in BOOLEAN
            /\ ~chunkValid'
            /\ IF x = 0 THEN Splitting(0, trig)' ELSE Splitting(x, u)'
        BY <1>2, <2>3, <2>5, SplittingOn
      <3>2. IF x = 0 THEN Coming(0, trig)' ELSE Coming(x, u)'
        BY <3>1 DEF Coming
      <3>3. IF g = FrameChunks - 1 THEN Coming(0, trig)' ELSE Coming(g + 1, t)'
        BY <1>0, <2>3, <3>2
      <3> QED BY <1>2, <2>1, <2>2, <2>5, <3>1, <3>3
    <2>6. CASE ~ready
      <3>1. /\ phaseCounter' \in 0 .. numberOfPhases /\ chunkValid' \in BOOLEAN
            /\ chunkValid' /\ chunk' = chunk /\ (chunkLast' <=> chunkLast)
            /\ IF x = 0 THEN Splitting(0, trig)' ELSE Splitting(x, u)'
        BY <1>2, <2>3, <2>6, SplittingOn
      <3>2. IF g = FrameChunks - 1 THEN Splitting(0, trig)' ELSE Splitting(g + 1, t)'
        BY <1>0, <2>3, <3>1
      <3>3. Coming(g, t)'
        BY <2>1, <3>1, <3>2 DEF Coming
      <3>4. g = 0 => Coming(0, trig)'
        BY <2>2, <3>3
      <3> QED BY <1>2, <2>1, <2>2, <2>6, <3>1, <3>3, <3>4
    <2> QED BY <2>4, <2>5, <2>6
  <1> QED BY <1>1, <1>2

-----------------------------------------------------------------------------
(* At the host. *)

(* No chunk is a marker. *)
LEMMA FrameBytes ==
  ASSUME NEW t \in Samples
  PROVE  /\ START_OF_FRAME = Chunks /\ END_OF_FRAME = Chunks + 1 /\ Chunks \in Nat
         /\ FrameByte(t, 0) = START_OF_FRAME /\ FrameByte(t, FrameLength - 1) = END_OF_FRAME
         /\ \A g \in 0 .. FrameChunks - 1 :
               ChunkAt(t, g) \in 0 .. Chunks - 1 /\ FrameByte(t, g + 1) = ChunkAt(t, g)
  <1>1. FrameChunks \in Nat /\ FrameChunks > 1 /\ FrameLength = FrameChunks + 2
    BY WholeFrame
  <1>2. ASSUME NEW g \in 0 .. FrameChunks - 1
        PROVE  ChunkAt(t, g) \in 0 .. Chunks - 1 /\ FrameByte(t, g + 1) = ChunkAt(t, g)
    <2>1. g \div numberOfPhases \in Nat /\ g % numberOfPhases \in 0 .. numberOfPhases - 1
      <3>1. g \in Nat /\ numberOfPhases \in Nat \ {0}
        BY <1>1, LinkFacts
      <3> QED BY <3>1, TakenApart
    <2>2. At(t, g \div numberOfPhases) \in 0 .. Signals - 1
      BY <2>1, WindowSamples DEF Samples
    <2>3. ChunkAt(t, g) \in 0 .. Chunks - 1
      BY <2>1, <2>2, DigitsAssumption DEF ChunkAt
    <2>4. g + 1 # 0 /\ g + 1 # FrameLength - 1 /\ g + 1 - 1 = g
      BY <1>1
    <2>5. FrameByte(t, g + 1) = ChunkAt(t, g + 1 - 1)
      BY <2>4 DEF FrameByte
    <2> QED BY <2>3, <2>4, <2>5
  <1>3. FrameByte(t, 0) = START_OF_FRAME /\ FrameByte(t, FrameLength - 1) = END_OF_FRAME
    <2>1. FrameLength - 1 # 0
      BY <1>1
    <2> QED BY <2>1 DEF FrameByte
  <1> QED BY <1>2, <1>3, LinkFacts DEF START_OF_FRAME, END_OF_FRAME

(* A byte more of the last frame. *)
LEMMA DeliverByte ==
  ASSUME NEW s, NEW e, NEW o \in 1 .. FrameLength - 1, Delivered(s, e, o),
         NEW b \in 0 .. END_OF_FRAME, b # START_OF_FRAME,
         e # <<>> => b = FrameByte(e[Len(e)], FrameLength - o)
  PROVE  Delivered(Append(s, b), e, o - 1)
  <1>0. FrameLength \in Nat \ {0} /\ s \in Seq(0 .. END_OF_FRAME) /\ e \in Seq(Samples)
    BY WholeFrame DEF Delivered
  <1>1. /\ Append(s, b) \in Seq(0 .. END_OF_FRAME) /\ Len(Append(s, b)) = Len(s) + 1
        /\ \A i \in 1 .. Len(s) : Append(s, b)[i] = s[i]
        /\ Append(s, b)[Len(s) + 1] = b /\ Len(s) \in Nat /\ Len(e) \in Nat
    BY <1>0
  <1> DEFINE a == Append(s, b)
  <1> HIDE DEF a
  <1>2. PICK p \in 0 .. Len(s) :
          /\ \A i \in 1 .. p : s[i] # START_OF_FRAME
          /\ IF e = <<>> THEN p = Len(s) ELSE Len(s) - p + o = Len(e) * FrameLength
          /\ \A q \in 0 .. Len(s) - p - 1 :
                s[p + 1 + q] = FrameByte(e[q \div FrameLength + 1], q % FrameLength)
    BY DEF Delivered
  <1>3. CASE e = <<>>
    <2>1. \A i \in 1 .. Len(s) + 1 : a[i] # START_OF_FRAME
      BY <1>1, <1>2, <1>3 DEF a
    <2>2. Len(s) + 1 \in 0 .. Len(a) /\ Len(a) = Len(s) + 1 /\ 0 .. Len(a) - (Len(s) + 1) - 1 = {}
      BY <1>1 DEF a
    <2> QED BY <1>0, <1>1, <1>3, <2>1, <2>2 DEF Delivered, a
  <1>4. CASE e # <<>>
    <2>1. Len(e) # 0
      BY <1>0, <1>4
    <2>2. PICK k \in Nat : Len(e) = k + 1
      <3>1. Len(e) - 1 \in Nat /\ Len(e) = (Len(e) - 1) + 1
        BY <1>1, <2>1
      <3> QED BY <3>1
    <2>3. k * FrameLength \in Nat /\ (k + 1) * FrameLength = k * FrameLength + FrameLength
      <3>1. \A c, d \in Nat : c * d \in Nat /\ (c + 1) * d = c * d + d
        OBVIOUS
      <3> QED BY <1>0, <3>1
    <2>4. Len(s) - p = k * FrameLength + (FrameLength - o)
      BY <1>0, <1>1, <1>2, <1>4, <2>2, <2>3
    <2>5. (k * FrameLength + (FrameLength - o)) \div FrameLength = k
          /\ (k * FrameLength + (FrameLength - o)) % FrameLength = FrameLength - o
      <3>1. FrameLength - o \in 0 .. FrameLength - 1
        BY <1>0
      <3> QED BY <1>0, <3>1, PutTogether
    <2>6. ASSUME NEW q \in 0 .. Len(a) - p - 1
          PROVE  a[p + 1 + q] = FrameByte(e[q \div FrameLength + 1], q % FrameLength)
      <3>1. CASE q = Len(s) - p
        <4>1. p + 1 + q = Len(s) + 1
          BY <1>1, <3>1
        <4> QED BY <1>1, <1>4, <2>2, <2>4, <2>5, <3>1, <4>1 DEF a
      <3>2. CASE q # Len(s) - p
        <4>1. q \in 0 .. Len(s) - p - 1 /\ p + 1 + q \in 1 .. Len(s)
          BY <1>1, <3>2 DEF a
        <4> QED BY <1>1, <1>2, <4>1 DEF a
      <3> QED BY <3>1, <3>2
    <2>7. \A i \in 1 .. p : a[i] # START_OF_FRAME
      BY <1>1, <1>2 DEF a
    <2>8. p \in 0 .. Len(a) /\ Len(a) - p + (o - 1) = Len(e) * FrameLength
      <3>1. PICK h \in Nat : h = k * FrameLength
        BY <2>3
      <3>2. Len(e) * FrameLength = h + FrameLength
        BY <2>2, <2>3, <3>1
      <3>3. Len(a) = Len(s) + 1 /\ Len(s) - p = h + (FrameLength - o)
        BY <1>1, <2>4, <3>1 DEF a
      <3>4. Len(a) - p + (o - 1) = h + FrameLength
        BY <1>0, <1>1, <3>3
      <3> QED BY <1>1, <3>2, <3>3, <3>4
    <2> QED BY <1>0, <1>1, <1>4, <2>6, <2>7, <2>8 DEF Delivered, a
  <1> QED BY <1>3, <1>4

(* The begin of another frame. *)
LEMMA DeliverStart ==
  ASSUME NEW s, NEW e, Delivered(s, e, 0), NEW t \in Samples
  PROVE  Delivered(Append(s, START_OF_FRAME), Append(e, t), FrameLength - 1)
  <1> DEFINE a == Append(s, START_OF_FRAME)
             f == Append(e, t)
  <1>0. FrameLength \in Nat \ {0} /\ s \in Seq(0 .. END_OF_FRAME) /\ e \in Seq(Samples)
        /\ START_OF_FRAME \in 0 .. END_OF_FRAME
    <2>1. START_OF_FRAME \in 0 .. END_OF_FRAME
      BY LinkFacts DEF START_OF_FRAME, END_OF_FRAME
    <2> QED BY <2>1, WholeFrame DEF Delivered
  <1>1. /\ a \in Seq(0 .. END_OF_FRAME) /\ Len(a) = Len(s) + 1
        /\ \A i \in 1 .. Len(s) : a[i] = s[i]
        /\ a[Len(s) + 1] = START_OF_FRAME /\ Len(s) \in Nat /\ Len(e) \in Nat
    BY <1>0
  <1>2. /\ f \in Seq(Samples) /\ Len(f) = Len(e) + 1 /\ f # <<>> /\ f[Len(e) + 1] = t
        /\ \A i \in 1 .. Len(e) : f[i] = e[i]
    BY <1>0
  <1> HIDE DEF a, f
  <1>3. PICK p \in 0 .. Len(s) :
          /\ \A i \in 1 .. p : s[i] # START_OF_FRAME
          /\ IF e = <<>> THEN p = Len(s) ELSE Len(s) - p + 0 = Len(e) * FrameLength
          /\ \A q \in 0 .. Len(s) - p - 1 :
                s[p + 1 + q] = FrameByte(e[q \div FrameLength + 1], q % FrameLength)
    BY DEF Delivered
  <1>4. Len(s) - p = Len(e) * FrameLength
    <2>1. e = <<>> => Len(e) = 0 /\ 0 * FrameLength = 0
      BY <1>0
    <2> QED BY <1>1, <1>3, <2>1
  <1>5. /\ Len(e) * FrameLength \in Nat
        /\ (Len(e) + 1) * FrameLength = Len(e) * FrameLength + FrameLength
        /\ \A c \in Nat : c * FrameLength < Len(e) * FrameLength => c < Len(e)
    <2>1. \A c, d \in Nat : c * d \in Nat /\ (c + 1) * d = c * d + d
      OBVIOUS
    <2>2. \A c, d, k \in Nat : c * k < d * k => c < d
      OBVIOUS
    <2> QED BY <1>0, <1>1, <2>1, <2>2
  <1>6. (Len(e) * FrameLength + 0) \div FrameLength = Len(e)
        /\ (Len(e) * FrameLength + 0) % FrameLength = 0
    <2>1. 0 \in 0 .. FrameLength - 1
      BY <1>0
    <2> QED BY <1>0, <1>1, <2>1, PutTogether
  <1>7. ASSUME NEW q \in 0 .. Len(a) - p - 1
        PROVE  a[p + 1 + q] = FrameByte(f[q \div FrameLength + 1], q % FrameLength)
    <2>1. CASE q = Len(s) - p
      <3>1. p + 1 + q = Len(s) + 1 /\ q = Len(e) * FrameLength + 0
        BY <1>1, <1>4, <1>5, <2>1
      <3>2. q \div FrameLength = Len(e) /\ q % FrameLength = 0
        BY <1>6, <3>1
      <3> QED BY <1>1, <1>2, <3>1, <3>2, FrameBytes
    <2>2. CASE q # Len(s) - p
      <3>1. q \in 0 .. Len(s) - p - 1 /\ p + 1 + q \in 1 .. Len(s) /\ q < Len(e) * FrameLength
        BY <1>1, <1>4, <2>2
      <3>2. q \div FrameLength \in Nat /\ q % FrameLength \in Nat
            /\ q = (q \div FrameLength) * FrameLength + (q % FrameLength)
        <4>1. q \in Nat
          BY <1>1, <3>1
        <4>2. q % FrameLength \in 0 .. FrameLength - 1
          BY <1>0, <4>1, TakenApart
        <4>3. q \div FrameLength \in Nat /\ q = (q \div FrameLength) * FrameLength + (q % FrameLength)
          BY <1>0, <4>1, TakenApart
        <4>4. \A r \in 0 .. FrameLength - 1 : r \in Nat
          BY <1>0
        <4> QED BY <4>2, <4>3, <4>4
      <3>3. (q \div FrameLength) * FrameLength < Len(e) * FrameLength
        <4> DEFINE h == (q \div FrameLength) * FrameLength
        <4>1. h \in Nat
          <5>1. \A c, d \in Nat : c * d \in Nat
            OBVIOUS
          <5> QED BY <1>0, <3>2, <5>1
        <4> HIDE DEF h
        <4>2. q = h + (q % FrameLength)
          BY <3>2 DEF h
        <4>3. h < Len(e) * FrameLength
          BY <1>5, <3>1, <3>2, <4>1, <4>2
        <4> QED BY <4>3 DEF h
      <3>4. q \div FrameLength + 1 \in 1 .. Len(e)
        BY <1>1, <1>5, <3>2, <3>3
      <3> QED BY <1>1, <1>2, <1>3, <3>1, <3>4
    <2> QED BY <2>1, <2>2
  <1>8. \A i \in 1 .. p : a[i] # START_OF_FRAME
    BY <1>1, <1>3
  <1>9. p \in 0 .. Len(a) /\ Len(a) - p + (FrameLength - 1) = Len(f) * FrameLength
    <2>1. PICK h \in Nat : h = Len(e) * FrameLength
      BY <1>5
    <2>2. Len(f) * FrameLength = h + FrameLength
      BY <1>2, <1>5, <2>1
    <2>3. Len(a) - p + (FrameLength - 1) = h + FrameLength
      <3>1. Len(s) - p = h /\ Len(a) = Len(s) + 1
        BY <1>1, <1>4, <2>1
      <3>2. Len(s) + 1 - p + (FrameLength - 1) = h + FrameLength
        BY <1>0, <1>1, <3>1, SMTT(30)
      <3> QED BY <3>1, <3>2
    <2> QED BY <1>1, <2>2, <2>3
  <1>10. Delivered(a, f, FrameLength - 1)
    BY <1>1, <1>2, <1>7, <1>8, <1>9 DEF Delivered
  <1> QED BY <1>10 DEF a, f

(* The least of a set of numbers. *)
LEMMA Least ==
  ASSUME NEW S \in SUBSET Nat, NEW x \in S, \A y \in S : x <= y
  PROVE  Dec!Min(S) = x
  <1> DEFINE P(z) == z \in S /\ \A y \in S : z =< y
  <1>1. P(x)
    OBVIOUS
  <1>4. \A z : P(z) => z = x
    OBVIOUS
  <1>2. Dec!Min(S) = CHOOSE z : P(z)
    BY DEF Dec!Min
  <1> HIDE DEF P
  <1>3. P(CHOOSE z : P(z))
    BY <1>1
  <1> QED BY <1>2, <1>3, <1>4

(* The markers the decoder finds. *)
LEMMA FirstStart ==
  ASSUME NEW s, Len(s) \in Nat, NEW p \in 0 .. Len(s), \A i \in 1 .. p : s[i] # Chunks
  PROVE  /\ p = Len(s) => Dec!sof(s) = 0
         /\ p < Len(s) /\ s[p + 1] = Chunks => Dec!sof(s) = p + 1
  <1> DEFINE I == {i \in 1 .. Len(s) : s[i] = Chunks}
  <1>1. Dec!sof(s) = IF I # {} THEN Dec!Min(I) ELSE 0
    BY DEF Dec!sof, Dec!SelectInSeq, Dec!SOF
  <1>2. p = Len(s) => I = {}
    OBVIOUS
  <1>3. p < Len(s) /\ s[p + 1] = Chunks => I \in SUBSET Nat /\ p + 1 \in I /\ \A y \in I : p + 1 <= y
    OBVIOUS
  <1> HIDE DEF I
  <1> QED BY <1>1, <1>2, <1>3, Least

LEMMA FirstEnd ==
  ASSUME NEW s, Len(s) \in Nat, NEW b \in 1 .. Len(s), Dec!sof(s) = b,
         NEW n \in b .. Len(s), \A i \in b .. n : i # n => s[i] # Chunks + 1
  PROVE  /\ n = Len(s) /\ s[n] # Chunks + 1 => Dec!eof(s) = 0
         /\ s[n] = Chunks + 1 => Dec!eof(s) = n
  <1> DEFINE I == {i \in b .. Len(s) : s[i] = Chunks + 1}
  <1>1. Dec!eof(s) = IF I # {} THEN Dec!Min(I) ELSE 0
    BY DEF Dec!eof, Dec!SelectInSubSeq, Dec!EOF
  <1>2. n = Len(s) /\ s[n] # Chunks + 1 => I = {}
    OBVIOUS
  <1>3. s[n] = Chunks + 1 => I \in SUBSET Nat /\ n \in I /\ \A y \in I : n <= y
    OBVIOUS
  <1> HIDE DEF I
  <1> QED BY <1>1, <1>2, <1>3, Least

(* A part of a sequence as a function. *)
LEMMA SubSeqIsFunction ==
  ASSUME NEW S, NEW s \in Seq(S), NEW h \in Nat, NEW n \in Nat \ {0}, h + n <= Len(s)
  PROVE  SubSeq(s, h + 1, h + n) = [k \in 1 .. n |-> s[h + k]]
  <1> DEFINE lo == h + 1
             hi == h + n
             sub == SubSeq(s, lo, hi)
  <1>1. lo \in Int /\ hi \in Int /\ lo <= hi /\ hi - lo + 1 = n /\ lo \in 1 .. Len(s)
    OBVIOUS
  <1>2. \A z \in lo .. hi : s[z] \in S
    <2> TAKE z \in lo .. hi
    <2>1. z \in 1 .. Len(s)
      OBVIOUS
    <2> QED BY <2>1, ElementOfSeq
  <1>3. \A k \in 1 .. n : lo + k - 1 = h + k
    OBVIOUS
  <1> HIDE DEF lo, hi
  <1>4. sub \in Seq(S) /\ Len(sub) = hi - lo + 1 /\ \A k \in 1 .. hi - lo + 1 : sub[k] = s[lo + k - 1]
    BY <1>1, <1>2, SubSeqProperties
  <1> HIDE DEF sub
  <1>5. sub = [k \in 1 .. n |-> s[h + k]]
    <2>1. sub = [k \in 1 .. Len(sub) |-> sub[k]]
      BY <1>4
    <2> QED BY <1>1, <1>3, <1>4, <2>1
  <1> QED BY <1>5 DEF sub, lo, hi

(* The samples put together again from the chunks of a frame. *)
LEMMA RowsOfFrame ==
  ASSUME NEW t \in Samples, NEW body, body \in Seq(0 .. END_OF_FRAME), Len(body) = FrameChunks,
         \A j \in 1 .. FrameChunks : body[j] = ChunkAt(t, j - 1)
  PROVE  Dec!Rows(body) = Window(t)
  <1> DEFINE n == numberOfPhases
  <1>0. n \in Nat \ {0, 1} /\ bufferDepth \in Nat \ {0, 1} /\ FrameChunks \in Nat
        /\ FrameChunks = bufferDepth * n /\ FrameChunks \div n = bufferDepth
    BY LinkFacts, WholeFrame DEF FrameChunks
  <1>1. ASSUME NEW i \in 1 .. bufferDepth
        PROVE  Dec!Value(SubSeq(body, (i - 1) * n + 1, i * n)) = At(t, i - 1)
    <2>1. PICK m \in 0 .. bufferDepth - 1 : m = i - 1 /\ i = m + 1
      <3>1. i - 1 \in 0 .. bufferDepth - 1 /\ i = (i - 1) + 1
        BY <1>0
      <3> QED BY <3>1
    <2>2. PICK h \in Nat : h = m * n /\ i * n = h + n /\ h + n <= FrameChunks
      <3>1. \A c, d \in Nat : c * d \in Nat /\ (c + 1) * d = c * d + d
        OBVIOUS
      <3>2. \A c, d, k \in Nat : c <= d => c * k <= d * k
        OBVIOUS
      <3>3. m * n \in Nat /\ i * n = m * n + n
        BY <1>0, <2>1, <3>1
      <3>4. i * n <= bufferDepth * n
        BY <1>0, <3>2
      <3> QED BY <1>0, <3>3, <3>4
    <2>3. \A k \in 1 .. n : /\ h + k \in 1 .. FrameChunks
                            /\ body[h + k] = Chunk(At(t, m), k - 1)
      <3> TAKE k \in 1 .. n
      <3>1. h + k \in 1 .. FrameChunks /\ h + k - 1 = m * n + (k - 1) /\ k - 1 \in 0 .. n - 1
        BY <1>0, <2>2
      <3>2. (m * n + (k - 1)) \div n = m /\ (m * n + (k - 1)) % n = k - 1
        <4>1. n \in Nat \ {0} /\ m \in Nat
          BY <1>0
        <4> HIDE DEF n
        <4> QED BY <3>1, <4>1, PutTogether
      <3>3. ChunkAt(t, h + k - 1) = Chunk(At(t, m), k - 1)
        BY <3>1, <3>2 DEF ChunkAt
      <3> QED BY <3>1, <3>3
    <2>4. SubSeq(body, h + 1, h + n) = [k \in 1 .. n |-> Chunk(At(t, m), k - 1)]
      <3> DEFINE sub == SubSeq(body, h + 1, h + n)
      <3>1. sub = [k \in 1 .. n |-> body[h + k]]
        <4>1. n \in Nat \ {0} /\ h + n <= Len(body)
          BY <1>0, <2>2
        <4> HIDE DEF n
        <4>2. SubSeq(body, h + 1, h + n) = [k \in 1 .. n |-> body[h + k]]
          BY <4>1, SubSeqIsFunction
        <4> QED BY <4>2
      <3> QED BY <2>3, <3>1
    <2>5. At(t, m) \in 0 .. Signals - 1
      BY <2>1, WindowSamples DEF Samples
    <2>6. Dec!Value([k \in 1 .. n |-> Chunk(At(t, m), k - 1)]) = At(t, m)
      BY <2>5, DigitsAssumption
    <2>7. SubSeq(body, (i - 1) * n + 1, i * n) = SubSeq(body, h + 1, h + n)
      BY <2>1, <2>2
    <2> HIDE DEF n
    <2> QED BY <2>1, <2>4, <2>6, <2>7
  <1>2. Dec!Rows(body) = [i \in 1 .. bufferDepth |-> Dec!Value(SubSeq(body, (i - 1) * n + 1, i * n))]
    BY <1>0 DEF Dec!Rows
  <1>3. \A i \in 1 .. bufferDepth :
          At(t, i - 1) = (t + Signals * bufferDepth + i - 1 - triggerPosition) % Signals
    <2> TAKE i \in 1 .. bufferDepth
    <2>1. t + Signals * bufferDepth + (i - 1) - triggerPosition
            = t + Signals * bufferDepth + i - 1 - triggerPosition
      BY LinkFacts DEF Samples
    <2> QED BY <2>1 DEF At
  <1> HIDE DEF n
  <1> QED BY <1>1, <1>2, <1>3 DEF Window

(* What follows the first elements of a sequence. *)
LEMMA Behind ==
  ASSUME NEW S, NEW s \in Seq(S), NEW h \in 0 .. Len(s)
  PROVE  /\ SubSeq(s, h + 1, Len(s)) \in Seq(S) /\ Len(SubSeq(s, h + 1, Len(s))) = Len(s) - h
         /\ \A i \in 1 .. Len(s) - h : SubSeq(s, h + 1, Len(s))[i] = s[h + i]
  <1> DEFINE lo == h + 1
             hi == Len(s)
             sub == SubSeq(s, lo, hi)
  <1>1. lo \in Int /\ hi \in Int /\ hi - lo + 1 = Len(s) - h /\ (~(lo <= hi) => Len(s) - h = 0)
    OBVIOUS
  <1>2. \A z \in lo .. hi : s[z] \in S
    <2> TAKE z \in lo .. hi
    <2>1. z \in 1 .. Len(s)
      OBVIOUS
    <2> QED BY <2>1, ElementOfSeq
  <1>3. \A k \in Int : lo + k - 1 = h + k
    OBVIOUS
  <1> HIDE DEF lo, hi
  <1>4. /\ sub \in Seq(S) /\ Len(sub) = IF lo <= hi THEN hi - lo + 1 ELSE 0
        /\ \A k \in 1 .. hi - lo + 1 : sub[k] = s[lo + k - 1]
    BY <1>1, <1>2, SubSeqProperties
  <1> HIDE DEF sub
  <1>5. /\ sub \in Seq(S) /\ Len(sub) = Len(s) - h
        /\ \A k \in 1 .. Len(s) - h : sub[k] = s[h + k]
    <2>1. Len(sub) = Len(s) - h
      BY <1>1, <1>4
    <2>2. \A k \in 1 .. Len(s) - h : sub[k] = s[h + k]
      BY <1>1, <1>3, <1>4
    <2> QED BY <1>4, <2>1, <2>2
  <1> QED BY <1>5 DEF sub, lo, hi

(* A frame the decoder finds is the first that is expected.                *)
LEMMA FrameDecoded ==
  ASSUME NEW s, NEW e, NEW o \in 0 .. FrameLength - 1, Delivered(s, e, o), Dec!HasFrame(s)
  PROVE  /\ e # <<>> /\ Dec!Rows(Dec!Body(s)) = Window(Head(e))
         /\ Delivered(Dec!AfterFrame(s), SubSeq(e, 2, Len(e)), o)
  <1>0. /\ FrameLength \in Nat /\ FrameLength > 2 /\ FrameLength = FrameChunks + 2
        /\ s \in Seq(0 .. END_OF_FRAME) /\ e \in Seq(Samples)
        /\ Len(s) \in Nat /\ Len(e) \in Nat /\ FrameChunks \in Nat \ {0} /\ Chunks \in Nat
        /\ START_OF_FRAME = Chunks /\ END_OF_FRAME = Chunks + 1
    BY WholeFrame, LinkFacts DEF Delivered, START_OF_FRAME, END_OF_FRAME
  <1>1. PICK p \in 0 .. Len(s) :
          /\ \A i \in 1 .. p : s[i] # START_OF_FRAME
          /\ IF e = <<>> THEN p = Len(s) ELSE Len(s) - p + o = Len(e) * FrameLength
          /\ \A q \in 0 .. Len(s) - p - 1 :
                s[p + 1 + q] = FrameByte(e[q \div FrameLength + 1], q % FrameLength)
    BY DEF Delivered
  <1>2. Dec!sof(s) # 0 /\ Dec!eof(s) # 0
    BY DEF Dec!HasFrame
  <1>3. p < Len(s) /\ e # <<>>
    <2>1. p # Len(s)
      BY <1>0, <1>1, <1>2, FirstStart
    <2> QED BY <1>0, <1>1, <2>1
  <1>4. PICK k \in Nat, h \in Nat : /\ Len(e) = k + 1 /\ h = k * FrameLength
                                    /\ Len(s) - p + o = h + FrameLength
    <2>1. PICK k \in Nat : Len(e) = k + 1
      <3>1. Len(e) - 1 \in Nat /\ Len(e) = (Len(e) - 1) + 1
        BY <1>0, <1>3
      <3> QED BY <3>1
    <2>2. k * FrameLength \in Nat /\ (k + 1) * FrameLength = k * FrameLength + FrameLength
      <3>1. \A c, d \in Nat : c * d \in Nat /\ (c + 1) * d = c * d + d
        OBVIOUS
      <3> QED BY <1>0, <3>1
    <2>3. Len(s) - p + o = k * FrameLength + FrameLength
      BY <1>1, <1>3, <2>1, <2>2
    <2> QED BY <2>1, <2>2, <2>3
  <1> DEFINE t == e[1]
  <1>5. t \in Samples /\ Head(e) = t
    BY <1>0, <1>3
  <1> HIDE DEF t
  <1>6. \A q \in 0 .. FrameLength - 1 : q <= Len(s) - p - 1 => s[p + 1 + q] = FrameByte(t, q)
    <2> TAKE q \in 0 .. FrameLength - 1
    <2> HAVE q <= Len(s) - p - 1
    <2>1. (0 * FrameLength + q) \div FrameLength = 0 /\ (0 * FrameLength + q) % FrameLength = q
      <3>1. FrameLength \in Nat \ {0} /\ 0 \in Nat
        BY <1>0
      <3> QED BY <3>1, PutTogether
    <2>2. 0 * FrameLength + q = q /\ q \in 0 .. Len(s) - p - 1 /\ 0 + 1 = 1
      BY <1>0
    <2> QED BY <1>1, <2>1, <2>2 DEF t
  <1>7. \A q \in 0 .. FrameLength - 2 : FrameByte(t, q) # Chunks + 1
    <2> TAKE q \in 0 .. FrameLength - 2
    <2>1. CASE q = 0
      BY <1>0, <1>5, <2>1, FrameBytes
    <2>2. CASE q # 0
      <3>1. q - 1 \in 0 .. FrameChunks - 1 /\ q - 1 + 1 = q
        BY <1>0, <2>2
      <3>2. FrameByte(t, q) \in 0 .. Chunks - 1
        BY <1>5, <3>1, FrameBytes
      <3> QED BY <1>0, <3>2
    <2> QED BY <2>1, <2>2
  <1>8. Dec!sof(s) = p + 1
    <2>1. 0 \in 0 .. FrameLength - 1 /\ 0 <= Len(s) - p - 1 /\ p + 1 + 0 = p + 1
      BY <1>0, <1>3
    <2>2. s[p + 1] = Chunks
      BY <1>0, <1>5, <1>6, <2>1, FrameBytes
    <2> QED BY <1>0, <1>1, <1>3, <2>2, FirstStart
  <1>9. p + FrameLength <= Len(s)
    <2> SUFFICES ASSUME ~(p + FrameLength <= Len(s)) PROVE FALSE
      OBVIOUS
    <2>1. \A i \in p + 1 .. Len(s) : s[i] # Chunks + 1
      <3> TAKE i \in p + 1 .. Len(s)
      <3>1. /\ i - p - 1 \in 0 .. FrameLength - 1 /\ i - p - 1 \in 0 .. FrameLength - 2
            /\ i - p - 1 <= Len(s) - p - 1 /\ p + 1 + (i - p - 1) = i
        BY <1>0
      <3> QED BY <1>6, <1>7, <3>1
    <2>2. p + 1 \in 1 .. Len(s) /\ Len(s) \in p + 1 .. Len(s)
      BY <1>0, <1>3
    <2> QED BY <1>0, <1>2, <1>8, <2>1, <2>2, FirstEnd
  <1>10. Dec!eof(s) = p + FrameLength
    <2>1. \A i \in p + 1 .. p + FrameLength : i # p + FrameLength => s[i] # Chunks + 1
      <3> TAKE i \in p + 1 .. p + FrameLength
      <3> HAVE i # p + FrameLength
      <3>1. /\ i - p - 1 \in 0 .. FrameLength - 1 /\ i - p - 1 \in 0 .. FrameLength - 2
            /\ i - p - 1 <= Len(s) - p - 1 /\ p + 1 + (i - p - 1) = i
        BY <1>0, <1>9
      <3> QED BY <1>6, <1>7, <3>1
    <2>2. p + 1 \in 1 .. Len(s) /\ p + FrameLength \in p + 1 .. Len(s)
      BY <1>0, <1>3, <1>9
    <2>3. s[p + FrameLength] = Chunks + 1
      <3>1. /\ FrameLength - 1 \in 0 .. FrameLength - 1 /\ FrameLength - 1 <= Len(s) - p - 1
            /\ p + 1 + (FrameLength - 1) = p + FrameLength
        BY <1>0, <1>9
      <3>2. s[p + FrameLength] = FrameByte(t, FrameLength - 1)
        BY <1>6, <3>1
      <3> QED BY <1>0, <1>5, <3>2, FrameBytes
    <2> QED BY <1>0, <1>8, <2>1, <2>2, <2>3, FirstEnd
  <1>11. Dec!Rows(Dec!Body(s)) = Window(t)
    <2>1. Dec!Body(s) = SubSeq(s, (p + 1) + 1, (p + 1) + FrameChunks)
      <3>1. (p + 1) + FrameChunks = (p + FrameLength) - 1
        BY <1>0
      <3>2. Dec!Body(s) = SubSeq(s, (p + 1) + 1, (p + FrameLength) - 1)
        BY <1>8, <1>10 DEF Dec!Body
      <3> QED BY <3>1, <3>2
    <2>2. p + 1 \in Nat /\ (p + 1) + FrameChunks <= Len(s)
      BY <1>0, <1>9
    <2>3. Dec!Body(s) = [j \in 1 .. FrameChunks |-> s[(p + 1) + j]]
      BY <1>0, <2>1, <2>2, SubSeqIsFunction
    <2>4. \A j \in 1 .. FrameChunks : s[(p + 1) + j] = ChunkAt(t, j - 1)
      <3> TAKE j \in 1 .. FrameChunks
      <3>1. /\ j \in 0 .. FrameLength - 1 /\ j <= Len(s) - p - 1 /\ j - 1 \in 0 .. FrameChunks - 1
            /\ j - 1 + 1 = j
        BY <1>0, <1>9
      <3>2. FrameByte(t, j) = ChunkAt(t, j - 1)
        BY <1>5, <3>1, FrameBytes
      <3> QED BY <1>6, <3>1, <3>2
    <2>5. \A j \in 1 .. FrameChunks : s[(p + 1) + j] \in 0 .. END_OF_FRAME
      <3> TAKE j \in 1 .. FrameChunks
      <3>1. (p + 1) + j \in 1 .. Len(s)
        BY <1>0, <1>9
      <3> QED BY <1>0, <3>1, ElementOfSeq
    <2>6. Dec!Body(s) \in Seq(0 .. END_OF_FRAME) /\ Len(Dec!Body(s)) = FrameChunks
      BY <1>0, <2>3, <2>5
    <2>7. \A j \in 1 .. FrameChunks : Dec!Body(s)[j] = ChunkAt(t, j - 1)
      BY <2>3, <2>4
    <2> QED BY <1>5, <2>6, <2>7, RowsOfFrame
  <1>12. Delivered(Dec!AfterFrame(s), SubSeq(e, 2, Len(e)), o)
    <2> DEFINE a == SubSeq(s, p + FrameLength + 1, Len(s))
               f == SubSeq(e, 1 + 1, Len(e))
               r == Len(s) - p - FrameLength
    <2>1. /\ a \in Seq(0 .. END_OF_FRAME) /\ Len(a) = r /\ \A i \in 1 .. r : a[i] = s[p + FrameLength + i]
      <3>1. PICK c \in 0 .. Len(s) : c = p + FrameLength /\ Len(s) - c = r
        <4>1. p + FrameLength \in 0 .. Len(s) /\ Len(s) - (p + FrameLength) = r
          BY <1>0, <1>9
        <4> QED BY <4>1
      <3>2. /\ SubSeq(s, c + 1, Len(s)) \in Seq(0 .. END_OF_FRAME)
            /\ Len(SubSeq(s, c + 1, Len(s))) = Len(s) - c
            /\ \A i \in 1 .. Len(s) - c : SubSeq(s, c + 1, Len(s))[i] = s[c + i]
        BY <1>0, Behind
      <3> QED BY <3>1, <3>2
    <2>2. /\ f \in Seq(Samples) /\ Len(f) = k /\ \A i \in 1 .. k : f[i] = e[1 + i]
      <3>1. 1 \in 0 .. Len(e) /\ Len(e) - 1 = k
        BY <1>4
      <3> QED BY <1>0, <3>1, Behind
    <2>3. Dec!AfterFrame(s) = a /\ SubSeq(e, 2, Len(e)) = f
      BY <1>10 DEF Dec!AfterFrame
    <2>4. r \in Nat /\ r + o = h /\ r = Len(s) - p - FrameLength
      BY <1>0, <1>4, <1>9
    <2> HIDE DEF a, f, r
    <2>5. f = <<>> => r = 0
      <3>1. f = <<>> => k = 0
        BY <2>2
      <3>2. 0 * FrameLength = 0
        BY <1>0
      <3> QED BY <1>4, <2>4, <3>1, <3>2
    <2>6. ASSUME NEW q \in 0 .. r - 1
          PROVE  a[1 + q] = FrameByte(f[q \div FrameLength + 1], q % FrameLength)
      <3> DEFINE d == q \div FrameLength
                 m == q % FrameLength
      <3>0. FrameLength \in Nat \ {0} /\ q \in Nat
        BY <1>0, <2>4
      <3>1. d \in Nat /\ m \in 0 .. FrameLength - 1 /\ q = d * FrameLength + m
        BY <3>0, TakenApart
      <3> HIDE DEF d, m
      <3>2. PICK c \in Nat : c = d * FrameLength /\ (d + 1) * FrameLength = c + FrameLength
        <4>1. \A x, y \in Nat : x * y \in Nat /\ (x + 1) * y = x * y + y
          OBVIOUS
        <4> QED BY <1>0, <3>1, <4>1
      <3>3. d < k
        <4>1. c < h
          BY <1>0, <2>4, <3>0, <3>1, <3>2
        <4>2. \A x, y, z \in Nat : x * z < y * z => x < y
          OBVIOUS
        <4> QED BY <1>0, <1>4, <3>1, <3>2, <4>1, <4>2
      <3>4. ((d + 1) * FrameLength + m) \div FrameLength = d + 1 /\ ((d + 1) * FrameLength + m) % FrameLength = m
        <4>1. d + 1 \in Nat
          BY <3>1
        <4> QED BY <3>0, <3>1, <4>1, PutTogether
      <3>5. FrameLength + q = (d + 1) * FrameLength + m
        BY <1>0, <3>0, <3>1, <3>2
      <3>6. a[1 + q] = s[p + FrameLength + (1 + q)] /\ p + FrameLength + (1 + q) = p + 1 + (FrameLength + q)
        BY <1>0, <2>1, <2>4, <3>0
      <3>7. FrameLength + q \in 0 .. Len(s) - p - 1
        BY <1>0, <2>4, <3>0
      <3>8. s[p + 1 + (FrameLength + q)] = FrameByte(e[(d + 1) + 1], m)
        BY <1>1, <3>4, <3>5, <3>7
      <3>9. f[d + 1] = e[(d + 1) + 1]
        <4>1. d + 1 \in 1 .. k /\ 1 + (d + 1) = (d + 1) + 1
          BY <3>1, <3>3
        <4> QED BY <2>2, <4>1
      <3> QED BY <3>6, <3>8, <3>9 DEF d, m
    <2>7. Delivered(a, f, o)
      <3>1. 0 \in 0 .. Len(a) /\ Len(a) - 0 = r /\ Len(a) - 0 - 1 = r - 1 /\ \A q \in 0 .. r - 1 : 0 + 1 + q = 1 + q
        BY <2>1, <2>4
      <3>2. \A q \in 0 .. Len(a) - 0 - 1 : a[0 + 1 + q] = FrameByte(f[q \div FrameLength + 1], q % FrameLength)
        BY <2>6, <3>1
      <3>3. IF f = <<>> THEN 0 = Len(a) ELSE Len(a) - 0 + o = Len(f) * FrameLength
        BY <1>4, <2>1, <2>2, <2>4, <2>5, <3>1
      <3> QED BY <2>1, <2>2, <3>1, <3>2, <3>3 DEF Delivered
    <2> QED BY <2>3, <2>7
  <1> QED BY <1>3, <1>5, <1>11, <1>12

(* What an edge does to the host. *)
HostEdge(ready) ==
    /\ IF ready THEN Transfer ELSE UNCHANGED <<src, expected>>
    /\ UNCHANGED listening

LEMMA HostWaits ==
  ASSUME NEW ready \in BOOLEAN, HostEdge(ready), ~(ready /\ byteValid), NEW o, HostHas(o)
  PROVE  HostHas(o)' /\ expected' = expected
  <1>1. UNCHANGED <<src, expected, listening>>
    BY DEF HostEdge, Transfer
  <1> QED BY <1>1 DEF HostHas, Delivered

LEMMA HostByte ==
  ASSUME NEW ready \in BOOLEAN, HostEdge(ready), ready, byteValid,
         NEW o \in 1 .. FrameLength - 1, HostHas(o),
         byte \in 0 .. END_OF_FRAME, byte # START_OF_FRAME,
         expected # <<>> => byte = FrameByte(expected[Len(expected)], FrameLength - o)
  PROVE  HostHas(o - 1)' /\ expected' = expected
  <1>1. CASE listening
    <2>1. src' = Append(src, byte) /\ expected' = expected /\ listening'
      BY <1>1 DEF HostEdge, Transfer
    <2>2. Delivered(Append(src, byte), expected, o - 1)
      BY DeliverByte DEF HostHas
    <2>3. Delivered(src', expected', o - 1)
      BY <2>1, <2>2
    <2> QED BY <2>1, <2>3 DEF HostHas
  <1>2. CASE ~listening
    <2>1. src' = src /\ expected' = expected /\ expected = <<>>
      BY <1>2 DEF HostEdge, Transfer, HostHas
    <2>2. Delivered(src, expected, o - 1)
      BY <2>1 DEF HostHas, Delivered
    <2>3. Delivered(src', expected', o - 1)
      BY <2>1, <2>2
    <2> QED BY <2>1, <2>3 DEF HostHas
  <1> QED BY <1>1, <1>2

LEMMA HostStart ==
  ASSUME NEW ready \in BOOLEAN, HostEdge(ready), ready, byteValid, trig \in Samples,
         HostHas(0), byte = START_OF_FRAME
  PROVE  HostHas(FrameLength - 1)' /\ (expected' # <<>> => trig = expected'[Len(expected')])
  <1>1. CASE listening
    <2>1. src' = Append(src, START_OF_FRAME) /\ expected' = Append(expected, trig) /\ listening'
      BY <1>1 DEF HostEdge, Transfer
    <2>2. Delivered(Append(src, START_OF_FRAME), Append(expected, trig), FrameLength - 1)
      BY DeliverStart DEF HostHas
    <2>3. Delivered(src', expected', FrameLength - 1)
      BY <2>1, <2>2
    <2>4. expected \in Seq(Samples)
      BY DEF HostHas, Delivered
    <2>5. trig = Append(expected, trig)[Len(Append(expected, trig))]
      BY <2>4
    <2> QED BY <2>1, <2>3, <2>5 DEF HostHas
  <1>2. CASE ~listening
    <2>1. src' = src /\ expected' = expected /\ expected = <<>>
      BY <1>2 DEF HostEdge, Transfer, HostHas
    <2>2. Delivered(src, expected, FrameLength - 1)
      BY <2>1 DEF HostHas, Delivered
    <2>3. Delivered(src', expected', FrameLength - 1)
      BY <2>1, <2>2
    <2> QED BY <2>1, <2>3 DEF HostHas
  <1> QED BY <1>1, <1>2

-----------------------------------------------------------------------------
(* Through the adapter. *)

(* Between frames: a byte that waits is the last of a frame. *)
LEMMA BetweenOn ==
  ASSUME ProbeInv, SampleInv, NEW trigger \in BOOLEAN, NEW ready \in BOOLEAN,
         ProbeEdge(trigger, sampleReady), TrigEdge(trigger), AdapterEdge(offered, ready),
         HostEdge(ready), phaseCounter \in 0 .. numberOfPhases, chunkValid \in BOOLEAN,
         byteValid \in BOOLEAN, NEW h \in {0, 1}, byteValid <=> h = 1,
         BetweenFrames, HostHas(h)
  PROVE  FrameInv'
  <1>0. /\ frame = "Idle" /\ Coming(0, trig) /\ (byteValid => byte = END_OF_FRAME)
        /\ trig \in Samples /\ 0 \in 0 .. FrameChunks - 1 /\ FrameLength \in Nat /\ FrameLength > 2
    BY WholeFrame DEF BetweenFrames, SampleInv
  <1>1. ConverterEdge(offered, FALSE)
    <2>1. ConverterEdge(offered, chunkReady(ready)) /\ chunkReady(ready) = FALSE
      BY <1>0 DEF AdapterEdge, chunkReady
    <2> QED BY <2>1
  <1>2. /\ phaseCounter' \in 0 .. numberOfPhases /\ chunkValid' \in BOOLEAN
        /\ Coming(0, trig)' /\ (chunkValid => chunkValid')
    BY <1>0, <1>1, ComingOn
  <1>3. PICK u \in Samples : u = trig'
    <2>1. SampleInv'
      <3>1. sampleReady \in BOOLEAN
        BY DEF sampleReady
      <3> QED BY SampleStep
    <2> QED BY <2>1 DEF SampleInv
  <1>4. IF ready /\ byteValid THEN HostHas(0)' ELSE HostHas(h)'
    <2>1. CASE ready /\ byteValid
      <3>1. h = 1 /\ 1 \in 1 .. FrameLength - 1 /\ 1 - 1 = 0
        BY <1>0, <2>1
      <3>2. byte \in 0 .. END_OF_FRAME /\ byte # START_OF_FRAME
        BY <1>0, <2>1, LinkFacts DEF START_OF_FRAME, END_OF_FRAME
      <3>3. expected # <<>> => byte = FrameByte(expected[Len(expected)], FrameLength - 1)
        <4>1. expected \in Seq(Samples)
          BY DEF HostHas, Delivered
        <4>2. expected # <<>> => expected[Len(expected)] \in Samples
          BY <4>1
        <4> QED BY <1>0, <2>1, <4>2, FrameBytes
      <3>4. HostHas(1)
        BY <3>1
      <3> QED BY <2>1, <3>1, <3>2, <3>3, <3>4, HostByte
    <2>2. CASE ~(ready /\ byteValid)
      BY <2>2, HostWaits
    <2> QED BY <2>1, <2>2
  <1>5. CASE StartFrame(ready)
    <2>1. /\ chunkValid /\ byteValid' = TRUE /\ byte' = START_OF_FRAME /\ frame' = "InFrame"
          /\ byteValid => ready
      BY <1>5 DEF StartFrame, Free, Put
    <2>2. HostHas(0)'
      BY <1>4, <2>1
    <2>3. FrameBegun(u)'
      BY <1>2, <1>3, <2>1 DEF FrameBegun
    <2> QED BY <1>2, <2>1, <2>2, <2>3 DEF FrameInv
  <1>6. CASE NoByte(ready)
    <2>1. /\ byteValid' <=> byteValid /\ ~ready
          /\ byteValid' \in BOOLEAN /\ byte' = byte /\ frame' = frame
      <3>1. byteValid' = (byteValid /\ ~ready) /\ byte' = byte /\ frame' = frame
        BY <1>6 DEF NoByte
      <3>2. byteValid' <=> byteValid /\ ~ready
        BY <3>1, Zenon
      <3>3. byteValid' \in BOOLEAN
        BY <3>1
      <3> QED BY <3>1, <3>2, <3>3
    <2>2. BetweenFrames'
      BY <1>0, <1>2, <2>1 DEF BetweenFrames, END_OF_FRAME
    <2>3. PICK k \in {0, 1} : (byteValid' <=> k = 1) /\ HostHas(k)'
      BY <1>4, <2>1
    <2> QED BY <1>2, <1>3, <2>1, <2>2, <2>3 DEF FrameInv
  <1> QED BY <1>0, <1>5, <1>6 DEF AdapterEdge, PassChunk, EndFrame, chunkReady

(* A frame has begun: its first byte waits, and so does its first chunk. *)
LEMMA BegunOn ==
  ASSUME ProbeInv, SampleInv, NEW trigger \in BOOLEAN, NEW ready \in BOOLEAN,
         ProbeEdge(trigger, sampleReady), TrigEdge(trigger), AdapterEdge(offered, ready),
         HostEdge(ready), phaseCounter \in 0 .. numberOfPhases, chunkValid \in BOOLEAN,
         byteValid \in BOOLEAN, NEW t \in Samples, FrameBegun(t), HostHas(0)
  PROVE  FrameInv'
  <1>0. /\ frame = "InFrame" /\ Coming(0, t) /\ byteValid /\ byte = START_OF_FRAME /\ chunkValid
        /\ trig \in Samples /\ 0 \in 0 .. FrameChunks - 1 /\ FrameLength = FrameChunks + 2
        /\ FrameChunks \in Nat /\ FrameChunks > 1
    BY WholeFrame DEF FrameBegun, SampleInv
  <1>1. ConverterEdge(offered, ready)
    <2>1. ConverterEdge(offered, chunkReady(ready)) /\ chunkReady(ready) = ready
      BY <1>0 DEF AdapterEdge, chunkReady, Free
    <2> QED BY <2>1
  <1>2. /\ phaseCounter' \in 0 .. numberOfPhases /\ chunkValid' \in BOOLEAN
        /\ ready => Coming(1, t)'
        /\ ~ready => Coming(0, trig)' /\ chunkValid'
        /\ chunk = ChunkAt(t, 0) /\ ~chunkLast /\ t = trig /\ trig' = t
    <2>1. 0 # FrameChunks - 1 /\ 0 + 1 = 1
      BY <1>0
    <2> QED BY <1>0, <1>1, <2>1, ComingOn
  <1>3. CASE ready
    <2>1. PassChunk(ready)
      BY <1>0, <1>3 DEF AdapterEdge, StartFrame, EndFrame, NoByte, Free
    <2>2. byteValid' = TRUE /\ byte' = ChunkAt(t, 0) /\ frame' = "InFrame"
      BY <1>0, <1>2, <2>1 DEF PassChunk, Put
    <2>3. HostHas(FrameLength - 1)' /\ (expected' # <<>> => t = expected'[Len(expected')])
      BY <1>0, <1>2, <1>3, HostStart
    <2>4. HostHas(FrameChunks - 1 + 1 + 1)'
      <3>1. FrameLength - 1 = FrameChunks - 1 + 1 + 1
        BY <1>0
      <3> QED BY <2>3, <3>1
    <2>5. InFrame(1, t)' /\ 1 \in 1 .. FrameChunks - 1
      <3>1. 1 - 1 = 0 /\ 1 \in 1 .. FrameChunks - 1
        BY <1>0
      <3>2. Seen(t)'
        BY <2>3 DEF Seen
      <3>3. byte' = ChunkAt(t, 1 - 1)
        BY <2>2, <3>1
      <3> QED BY <1>2, <1>3, <2>2, <3>1, <3>2, <3>3 DEF InFrame, ChunkAt, Chunk, At
    <2> QED BY <1>2, <2>2, <2>4, <2>5 DEF FrameInv
  <1>4. CASE ~ready
    <2>1. NoByte(ready)
      BY <1>0, <1>4 DEF AdapterEdge, StartFrame, PassChunk, EndFrame, chunkReady, Free
    <2>2. byteValid' /\ byteValid' \in BOOLEAN /\ byte' = byte /\ frame' = frame
      <3>1. byteValid' = (byteValid /\ ~ready) /\ byte' = byte /\ frame' = frame
        BY <2>1 DEF NoByte
      <3>2. byteValid' <=> byteValid /\ ~ready
        BY <3>1, Zenon
      <3> QED BY <1>0, <1>4, <3>1, <3>2
    <2>3. HostHas(0)'
      BY <1>4, HostWaits
    <2>4. FrameBegun(t)'
      BY <1>0, <1>2, <1>4, <2>2 DEF FrameBegun, START_OF_FRAME
    <2> QED BY <1>2, <2>2, <2>3, <2>4 DEF FrameInv
  <1> QED BY <1>3, <1>4

(* What the byte before chunk g of a frame does at the host. *)
LEMMA ChunkLeaves ==
  ASSUME NEW ready \in BOOLEAN, HostEdge(ready), byteValid \in BOOLEAN,
         NEW t \in Samples, NEW g \in 1 .. FrameChunks, Seen(t), byteValid => byte = ChunkAt(t, g - 1),
         NEW h \in {0, 1}, byteValid <=> h = 1, HostHas(FrameChunks - g + 1 + h)
  PROVE  /\ Seen(t)'
         /\ IF ready /\ byteValid THEN HostHas(FrameChunks - g + 1)' ELSE HostHas(FrameChunks - g + 1 + h)'
  <1>0. FrameChunks \in Nat /\ FrameLength = FrameChunks + 2 /\ g \in Nat
    BY WholeFrame
  <1>1. CASE ready /\ byteValid
    <2>1. /\ h = 1 /\ FrameChunks - g + 1 + h \in 1 .. FrameLength - 1
          /\ (FrameChunks - g + 1 + h) - 1 = FrameChunks - g + 1
          /\ FrameLength - (FrameChunks - g + 1 + h) = g
      BY <1>0, <1>1
    <2>2. g - 1 \in 0 .. FrameChunks - 1 /\ g - 1 + 1 = g
      BY <1>0
    <2>3. byte = FrameByte(t, g) /\ byte \in 0 .. Chunks - 1
      BY <1>1, <2>2, FrameBytes
    <2>4. byte \in 0 .. END_OF_FRAME /\ byte # START_OF_FRAME
      BY <2>3, LinkFacts DEF START_OF_FRAME, END_OF_FRAME
    <2>5. PICK o \in 1 .. FrameLength - 1 :
            o = FrameChunks - g + 1 + h /\ o - 1 = FrameChunks - g + 1 /\ FrameLength - o = g
      BY <2>1
    <2>6. HostHas(o - 1)' /\ expected' = expected
      <3>1. HostHas(o)
        BY <2>5
      <3>2. expected # <<>> => byte = FrameByte(expected[Len(expected)], FrameLength - o)
        BY <2>3, <2>5 DEF Seen
      <3> QED BY <1>1, <2>4, <3>1, <3>2, HostByte
    <2>7. Seen(t)'
      BY <2>6 DEF Seen
    <2> QED BY <1>1, <2>5, <2>6, <2>7
  <1>2. CASE ~(ready /\ byteValid)
    <2>1. HostHas(FrameChunks - g + 1 + h)' /\ expected' = expected
      BY <1>2, HostWaits
    <2>2. Seen(t)'
      BY <2>1 DEF Seen
    <2> QED BY <1>2, <2>1, <2>2
  <1> QED BY <1>1, <1>2

(* In a frame: the next chunk is passed on, and the last ends the frame. *)
LEMMA InFrameOn ==
  ASSUME ProbeInv, SampleInv, NEW trigger \in BOOLEAN, NEW ready \in BOOLEAN,
         ProbeEdge(trigger, sampleReady), TrigEdge(trigger), AdapterEdge(offered, ready),
         HostEdge(ready), phaseCounter \in 0 .. numberOfPhases, chunkValid \in BOOLEAN,
         byteValid \in BOOLEAN, NEW h \in {0, 1}, byteValid <=> h = 1,
         NEW t \in Samples, NEW g \in 1 .. FrameChunks - 1,
         InFrame(g, t), HostHas(FrameChunks - g + 1 + h)
  PROVE  FrameInv'
  <1>0. /\ frame = "InFrame" /\ Coming(g, t) /\ Seen(t) /\ (byteValid => byte = ChunkAt(t, g - 1))
        /\ g \in 0 .. FrameChunks - 1 /\ g # 0 /\ g \in 1 .. FrameChunks
        /\ FrameChunks \in Nat /\ FrameChunks > 1 /\ g \in Nat
    BY WholeFrame DEF InFrame
  <1>1. ConverterEdge(offered, chunkReady(ready)) /\ chunkReady(ready) \in BOOLEAN
        /\ (chunkReady(ready) <=> ~byteValid \/ ready)
    BY <1>0 DEF AdapterEdge, chunkReady, Free
  <1>2. /\ phaseCounter' \in 0 .. numberOfPhases /\ chunkValid' \in BOOLEAN
        /\ chunkValid /\ (~byteValid \/ ready) =>
              IF g = FrameChunks - 1 THEN Coming(0, trig)' ELSE Coming(g + 1, t)'
        /\ ~(chunkValid /\ (~byteValid \/ ready)) => Coming(g, t)'
        /\ chunkValid => chunk = ChunkAt(t, g) /\ (chunkLast <=> g = FrameChunks - 1)
    <2>1. PICK r \in BOOLEAN : r = chunkReady(ready)
      BY <1>1
    <2>2. ConverterEdge(offered, r) /\ (r <=> ~byteValid \/ ready)
      BY <1>1, <2>1
    <2>3. /\ phaseCounter' \in 0 .. numberOfPhases /\ chunkValid' \in BOOLEAN
          /\ chunkValid /\ r => IF g = FrameChunks - 1 THEN Coming(0, trig)' ELSE Coming(g + 1, t)'
          /\ ~(chunkValid /\ r) => Coming(g, t)'
          /\ chunkValid => chunk = ChunkAt(t, g) /\ (chunkLast <=> g = FrameChunks - 1)
      BY <1>0, <2>2, ComingOn
    <2> QED BY <2>2, <2>3
  <1>3. /\ Seen(t)'
        /\ IF ready /\ byteValid THEN HostHas(FrameChunks - g + 1)' ELSE HostHas(FrameChunks - g + 1 + h)'
    BY <1>0, ChunkLeaves
  <1>4. CASE PassChunk(ready)
    <2>1. /\ chunkValid /\ (~byteValid \/ ready) /\ byteValid' = TRUE /\ byte' = ChunkAt(t, g)
          /\ frame' = IF chunkLast THEN "EndOfFrame" ELSE "InFrame"
      BY <1>0, <1>2, <1>4 DEF PassChunk, chunkReady, Free, Put
    <2>2. HostHas(FrameChunks - g + 1)'
      <3>1. ~byteValid => FrameChunks - g + 1 + h = FrameChunks - g + 1
        BY <1>0
      <3> QED BY <1>3, <2>1, <3>1
    <2>3. CASE g = FrameChunks - 1
      <3>1. HostHas(2)'
        <4>1. FrameChunks - g + 1 = 2
          BY <1>0, <2>3
        <4> QED BY <2>2, <4>1
      <3>2. Coming(0, trig)' /\ frame' = "EndOfFrame" /\ byte' = ChunkAt(t, FrameChunks - 1)
        BY <1>2, <2>1, <2>3
      <3>3. AtEnd(t)'
        BY <1>3, <2>1, <3>2 DEF AtEnd, ChunkAt, Chunk, At, FrameChunks
      <3> QED BY <1>2, <2>1, <3>1, <3>3 DEF FrameInv
    <2>4. CASE g # FrameChunks - 1
      <3>1. PICK k \in 1 .. FrameChunks - 1 : k = g + 1 /\ k - 1 = g
        <4>1. g + 1 \in 1 .. FrameChunks - 1 /\ g + 1 - 1 = g
          BY <1>0, <2>4
        <4> QED BY <4>1
      <3>2. HostHas(FrameChunks - k + 1 + 1)'
        <4>1. FrameChunks - k + 1 + 1 = FrameChunks - g + 1
          BY <1>0, <3>1
        <4> QED BY <2>2, <4>1
      <3>3. Coming(k, t)' /\ frame' = "InFrame" /\ byte' = ChunkAt(t, k - 1)
        BY <1>2, <2>1, <2>4, <3>1
      <3>4. InFrame(k, t)'
        BY <1>3, <2>1, <3>3 DEF InFrame, ChunkAt, Chunk, At
      <3> QED BY <1>2, <2>1, <3>2, <3>4 DEF FrameInv
    <2> QED BY <2>3, <2>4
  <1>5. CASE NoByte(ready)
    <2>1. /\ byteValid' <=> byteValid /\ ~ready
          /\ byteValid' \in BOOLEAN /\ byte' = byte /\ frame' = frame
          /\ ~(chunkValid /\ (~byteValid \/ ready))
      <3>1. /\ byteValid' = (byteValid /\ ~ready) /\ byte' = byte /\ frame' = frame
            /\ ~(chunkValid /\ (~byteValid \/ ready))
        BY <1>5 DEF NoByte, Free
      <3>2. byteValid' <=> byteValid /\ ~ready
        BY <3>1, Zenon
      <3>3. byteValid' \in BOOLEAN
        BY <3>1
      <3> QED BY <3>1, <3>2, <3>3
    <2>2. InFrame(g, t)'
      BY <1>0, <1>2, <1>3, <2>1 DEF InFrame, ChunkAt, Chunk, At
    <2>3. PICK k \in {0, 1} : (byteValid' <=> k = 1) /\ HostHas(FrameChunks - g + 1 + k)'
      <3>1. CASE ready /\ byteValid
        <4>1. FrameChunks - g + 1 + 0 = FrameChunks - g + 1
          BY <1>0
        <4>2. HostHas(FrameChunks - g + 1 + 0)'
          BY <1>3, <3>1, <4>1
        <4> QED BY <2>1, <3>1, <4>2
      <3>2. CASE ~(ready /\ byteValid)
        BY <1>3, <2>1, <3>2
      <3> QED BY <3>1, <3>2
    <2> QED BY <1>2, <2>1, <2>2, <2>3 DEF FrameInv
  <1> QED BY <1>0, <1>4, <1>5 DEF AdapterEdge, StartFrame, EndFrame

(* At the end of a frame: its last chunk waits, the end marker follows. *)
LEMMA EndOn ==
  ASSUME ProbeInv, SampleInv, NEW trigger \in BOOLEAN, NEW ready \in BOOLEAN,
         ProbeEdge(trigger, sampleReady), TrigEdge(trigger), AdapterEdge(offered, ready),
         HostEdge(ready), phaseCounter \in 0 .. numberOfPhases, chunkValid \in BOOLEAN,
         byteValid \in BOOLEAN, NEW t \in Samples, AtEnd(t), HostHas(2)
  PROVE  FrameInv'
  <1>0. /\ frame = "EndOfFrame" /\ Coming(0, trig) /\ Seen(t)
        /\ byteValid /\ byte = ChunkAt(t, FrameChunks - 1)
        /\ trig \in Samples /\ 0 \in 0 .. FrameChunks - 1 /\ FrameChunks \in Nat /\ FrameChunks > 1
    BY WholeFrame DEF AtEnd, SampleInv
  <1>1. ConverterEdge(offered, FALSE)
    <2>1. ConverterEdge(offered, chunkReady(ready)) /\ chunkReady(ready) = FALSE
      BY <1>0 DEF AdapterEdge, chunkReady
    <2> QED BY <2>1
  <1>2. /\ phaseCounter' \in 0 .. numberOfPhases /\ chunkValid' \in BOOLEAN /\ Coming(0, trig)'
    BY <1>0, <1>1, ComingOn
  <1>3. /\ Seen(t)' /\ (ready => HostHas(1)') /\ (~ready => HostHas(2)')
    <2>1. /\ FrameChunks - FrameChunks + 1 + 1 = 2 /\ FrameChunks - FrameChunks + 1 = 1
          /\ FrameChunks \in 1 .. FrameChunks
      BY <1>0
    <2>2. PICK g \in 1 .. FrameChunks : g = FrameChunks /\ FrameChunks - g + 1 + 1 = 2 /\ FrameChunks - g + 1 = 1
      BY <2>1
    <2>3. HostHas(FrameChunks - g + 1 + 1) /\ byte = ChunkAt(t, g - 1)
      BY <1>0, <2>2
    <2>4. /\ Seen(t)'
          /\ IF ready THEN HostHas(FrameChunks - g + 1)' ELSE HostHas(FrameChunks - g + 1 + 1)'
      BY <1>0, <2>3, ChunkLeaves
    <2> QED BY <2>2, <2>4
  <1>4. CASE EndFrame(ready)
    <2>1. ready /\ byteValid' = TRUE /\ byte' = END_OF_FRAME /\ frame' = "Idle"
      BY <1>0, <1>4 DEF EndFrame, Free, Put
    <2>2. BetweenFrames'
      BY <1>2, <2>1 DEF BetweenFrames, END_OF_FRAME
    <2> QED BY <1>2, <1>3, <2>1, <2>2 DEF FrameInv
  <1>5. CASE NoByte(ready)
    <2>1. ~ready /\ byteValid' /\ byteValid' \in BOOLEAN /\ byte' = byte /\ frame' = frame
      <3>1. byteValid' = (byteValid /\ ~ready) /\ byte' = byte /\ frame' = frame /\ ~ready
        BY <1>0, <1>5 DEF NoByte, Free
      <3>2. byteValid' <=> byteValid /\ ~ready
        BY <3>1, Zenon
      <3> QED BY <1>0, <3>1, <3>2
    <2>2. AtEnd(t)'
      BY <1>0, <1>2, <1>3, <2>1 DEF AtEnd, ChunkAt, Chunk, At, FrameChunks
    <2> QED BY <1>2, <1>3, <2>1, <2>2 DEF FrameInv
  <1> QED BY <1>0, <1>4, <1>5 DEF AdapterEdge, StartFrame, PassChunk, chunkReady

-----------------------------------------------------------------------------
(* The steps. *)

LEMMA FrameInit == Init => SampleInv /\ FrameInv
  <1> SUFFICES ASSUME Init PROVE SampleInv /\ FrameInv
    OBVIOUS
  <1>1. /\ state = "Reset" /\ buffer = <<>> /\ ~outValid /\ trig = 0
        /\ phaseCounter = 0 /\ chunkValid = FALSE /\ frame = "Idle" /\ byteValid = FALSE
        /\ src = <<>> /\ expected = <<>>
    BY DEF Init, ProbeInit, AdapterInit
  <1>2. 0 \in Samples /\ 0 \in 0 .. bufferDepth - 1 /\ 0 = 0 * numberOfPhases /\ 0 \in 0 .. numberOfPhases
    BY LinkFacts DEF Samples
  <1>3. SampleInv
    BY <1>1, <1>2 DEF SampleInv
  <1>4. Taking(0, trig)
    BY <1>1 DEF Taking
  <1>5. Splitting(0, trig)
    BY <1>1, <1>2, <1>4 DEF Splitting
  <1>6. BetweenFrames
    BY <1>1, <1>5 DEF BetweenFrames, Coming
  <1>7. HostHas(0)
    <2>1. <<>> \in Seq(0 .. END_OF_FRAME) /\ <<>> \in Seq(Samples) /\ Len(<<>>) = 0
      OBVIOUS
    <2>2. 0 \in 0 .. Len(<<>>) /\ 0 .. Len(<<>>) - 0 - 1 = {} /\ 1 .. 0 = {}
      BY <2>1
    <2>3. Delivered(<<>>, <<>>, 0)
      BY <2>1, <2>2 DEF Delivered
    <2> QED BY <1>1, <2>3 DEF HostHas
  <1>8. /\ phaseCounter \in 0 .. numberOfPhases /\ chunkValid \in BOOLEAN /\ byteValid \in BOOLEAN
        /\ byteValid <=> 0 = 1
    <2>1. ~byteValid
      BY <1>1, Zenon
    <2>2. chunkValid \in BOOLEAN /\ byteValid \in BOOLEAN
      BY <1>1
    <2> QED BY <1>1, <1>2, <2>1, <2>2
  <1>9. FrameInv
    <2>1. \E h \in {0, 1}, t \in Samples : (byteValid <=> h = 1) /\ BetweenFrames /\ HostHas(h)
      BY <1>2, <1>6, <1>7, <1>8
    <2> QED BY <1>8, <2>1 DEF FrameInv
  <1> QED BY <1>3, <1>9

LEMMA EdgeOn ==
  ASSUME ProbeInv, SampleInv, FrameInv, NEW ready \in BOOLEAN, Edge(ready)
  PROVE  SampleInv' /\ FrameInv'
  <1>1. PICK trigger \in BOOLEAN :
          /\ ProbeEdge(trigger, sampleReady) /\ TrigEdge(trigger)
          /\ AdapterEdge(offered, ready) /\ HostEdge(ready)
    BY DEF Edge, TrigEdge, HostEdge
  <1>2. SampleInv'
    BY <1>1, SampleStep
  <1>3. PICK h \in {0, 1}, t \in Samples :
          /\ phaseCounter \in 0 .. numberOfPhases
          /\ chunkValid \in BOOLEAN /\ byteValid \in BOOLEAN
          /\ byteValid <=> h = 1
          /\ \/ BetweenFrames /\ HostHas(h)
             \/ FrameBegun(t) /\ HostHas(0)
             \/ \E g \in 1 .. FrameChunks - 1 : InFrame(g, t) /\ HostHas(FrameChunks - g + 1 + h)
             \/ AtEnd(t) /\ HostHas(2)
    BY DEF FrameInv
  <1> QED BY <1>1, <1>2, <1>3, BetweenOn, BegunOn, InFrameOn, EndOn

(* What remains of the bytes is what remains of the frames. *)
LEMMA HostDecodes ==
  ASSUME Decode, NEW o \in 0 .. FrameLength - 1, HostHas(o)
  PROVE  /\ HostHas(o)' /\ \A t : Seen(t) => Seen(t)'
         /\ expected # <<>> /\ Dec!Rows(Dec!Body(src)) = Window(Head(expected))
  <1>1. /\ Dec!HasFrame(src) /\ src' = Dec!AfterFrame(src)
        /\ expected' = SubSeq(expected, 2, Len(expected)) /\ listening' = listening
    BY DEF Decode
  <1>2. Delivered(src, expected, o) /\ (expected # <<>> => listening)
    BY DEF HostHas
  <1>3. /\ expected # <<>> /\ Dec!Rows(Dec!Body(src)) = Window(Head(expected))
        /\ Delivered(Dec!AfterFrame(src), SubSeq(expected, 2, Len(expected)), o)
    BY <1>1, <1>2, FrameDecoded
  <1>4. Delivered(src', expected', o)
    BY <1>1, <1>3
  <1>5. HostHas(o)'
    BY <1>1, <1>2, <1>3, <1>4 DEF HostHas
  <1>6. expected' # <<>> => expected'[Len(expected')] = expected[Len(expected)]
    <2> DEFINE f == SubSeq(expected, 1 + 1, Len(expected))
    <2>1. expected \in Seq(Samples) /\ Len(expected) \in Nat /\ Len(expected) # 0 /\ 1 \in 0 .. Len(expected)
      BY <1>2, <1>3 DEF Delivered
    <2>2. /\ f \in Seq(Samples) /\ Len(f) = Len(expected) - 1
          /\ \A i \in 1 .. Len(expected) - 1 : f[i] = expected[1 + i]
      BY <2>1, Behind
    <2>3. expected' = f
      BY <1>1
    <2> HIDE DEF f
    <2>4. f # <<>> => f[Len(f)] = expected[Len(expected)]
      BY <2>1, <2>2
    <2> QED BY <2>3, <2>4
  <1>7. \A t : Seen(t) => Seen(t)'
    BY <1>3, <1>6 DEF Seen
  <1> QED BY <1>3, <1>5, <1>7

LEMMA DecodeOn ==
  ASSUME SampleInv, FrameInv, Decode
  PROVE  /\ SampleInv' /\ FrameInv'
         /\ expected # <<>> /\ Dec!Rows(Dec!Body(src)) = Window(Head(expected))
  <1>1. UNCHANGED <<probeVars, adapterVars, listening, trig>>
    BY DEF Decode
  <1>2. SampleInv'
    BY <1>1 DEF SampleInv, probeVars
  <1>3. /\ \A g, t : Coming(g, t) => Coming(g, t)'
        /\ UNCHANGED <<phaseCounter, chunkValid, frame, byteValid, byte, trig>>
    BY <1>1 DEF Coming, Splitting, Taking, Taken, probeVars, adapterVars, converterVars
  <1>4. PICK h \in {0, 1}, t \in Samples :
          /\ phaseCounter \in 0 .. numberOfPhases
          /\ chunkValid \in BOOLEAN /\ byteValid \in BOOLEAN
          /\ byteValid <=> h = 1
          /\ \/ BetweenFrames /\ HostHas(h)
             \/ FrameBegun(t) /\ HostHas(0)
             \/ \E g \in 1 .. FrameChunks - 1 : InFrame(g, t) /\ HostHas(FrameChunks - g + 1 + h)
             \/ AtEnd(t) /\ HostHas(2)
    BY DEF FrameInv
  <1>5. FrameChunks \in Nat /\ FrameChunks > 1 /\ FrameLength = FrameChunks + 2
    BY WholeFrame
  <1>6. Coming(0, trig) => Coming(0, trig)'
    BY <1>3
  <1>7. CASE BetweenFrames /\ HostHas(h)
    <2>1. h \in 0 .. FrameLength - 1
      BY <1>5
    <2>2. BetweenFrames'
      BY <1>3, <1>6, <1>7 DEF BetweenFrames, END_OF_FRAME
    <2>3. HostHas(h)' /\ expected # <<>> /\ Dec!Rows(Dec!Body(src)) = Window(Head(expected))
      BY <1>7, <2>1, HostDecodes
    <2> QED BY <1>2, <1>3, <1>4, <2>2, <2>3 DEF FrameInv
  <1>8. CASE FrameBegun(t) /\ HostHas(0)
    <2>1. 0 \in 0 .. FrameLength - 1
      BY <1>5
    <2>2. FrameBegun(t)'
      BY <1>3, <1>8 DEF FrameBegun, START_OF_FRAME
    <2>3. HostHas(0)' /\ expected # <<>> /\ Dec!Rows(Dec!Body(src)) = Window(Head(expected))
      BY <1>8, <2>1, HostDecodes
    <2> QED BY <1>2, <1>3, <1>4, <2>2, <2>3 DEF FrameInv
  <1>9. CASE \E g \in 1 .. FrameChunks - 1 : InFrame(g, t) /\ HostHas(FrameChunks - g + 1 + h)
    <2>1. PICK g \in 1 .. FrameChunks - 1 : InFrame(g, t) /\ HostHas(FrameChunks - g + 1 + h)
      BY <1>9
    <2>2. FrameChunks - g + 1 + h \in 0 .. FrameLength - 1
      BY <1>5
    <2>3. /\ HostHas(FrameChunks - g + 1 + h)' /\ (Seen(t) => Seen(t)')
          /\ expected # <<>> /\ Dec!Rows(Dec!Body(src)) = Window(Head(expected))
      BY <2>1, <2>2, HostDecodes
    <2>4. InFrame(g, t)'
      BY <1>3, <2>1, <2>3 DEF InFrame, ChunkAt, Chunk, At
    <2> QED BY <1>2, <1>3, <1>4, <2>3, <2>4 DEF FrameInv
  <1>10. CASE AtEnd(t) /\ HostHas(2)
    <2>1. 2 \in 0 .. FrameLength - 1
      BY <1>5
    <2>2. /\ HostHas(2)' /\ (Seen(t) => Seen(t)')
          /\ expected # <<>> /\ Dec!Rows(Dec!Body(src)) = Window(Head(expected))
      BY <1>10, <2>1, HostDecodes
    <2>3. AtEnd(t)'
      BY <1>3, <1>6, <1>10, <2>2 DEF AtEnd, ChunkAt, Chunk, At, FrameChunks
    <2> QED BY <1>2, <1>3, <1>4, <2>2, <2>3 DEF FrameInv
  <1> QED BY <1>4, <1>7, <1>8, <1>9, <1>10

LEMMA StillOn ==
  ASSUME SampleInv, FrameInv, Listen \/ UNCHANGED vars
  PROVE  SampleInv' /\ FrameInv'
  <1>1. UNCHANGED <<probeVars, adapterVars, src, trig, expected>> /\ (listening => listening')
    BY DEF Listen, vars
  <1>2. SampleInv'
    BY <1>1 DEF SampleInv, probeVars
  <1>3. /\ \A g, t : Coming(g, t) => Coming(g, t)'
        /\ UNCHANGED <<phaseCounter, chunkValid, frame, byteValid, byte, trig>>
    BY <1>1 DEF Coming, Splitting, Taking, Taken, probeVars, adapterVars, converterVars
  <1>4. Coming(0, trig) => Coming(0, trig)'
    BY <1>3
  <1>5. /\ \A o : HostHas(o) => HostHas(o)'
        /\ \A t : Seen(t) => Seen(t)'
    BY <1>1 DEF HostHas, Delivered, Seen
  <1>6. BetweenFrames => BetweenFrames'
    BY <1>3, <1>4 DEF BetweenFrames, END_OF_FRAME
  <1>7. \A t : FrameBegun(t) => FrameBegun(t)'
    BY <1>3 DEF FrameBegun, START_OF_FRAME
  <1>8. \A g, t : InFrame(g, t) => InFrame(g, t)'
    BY <1>3, <1>5 DEF InFrame, ChunkAt, Chunk, At
  <1>9. \A t : AtEnd(t) => AtEnd(t)'
    BY <1>3, <1>4, <1>5 DEF AtEnd, ChunkAt, Chunk, At, FrameChunks
  <1>10. FrameInv'
    BY <1>3, <1>5, <1>6, <1>7, <1>8, <1>9 DEF FrameInv
  <1> QED BY <1>2, <1>10

(* What the host decodes is the window around a trigger that it was told   *)
(* of first and has not been given yet, whole and in order, whenever it    *)
(* begins to listen and whenever the line takes a byte.                    *)
THEOREM FramesCorrect == Spec => FramesAreWindows
  <1> DEFINE Shows == Len(src') < Len(src) => /\ expected # <<>>
                                              /\ Dec!Rows(Dec!Body(src)) = Window(Head(expected))
  <1>1. Init => SampleInv /\ FrameInv
    BY FrameInit
  <1>2. ProbeInv /\ SampleInv /\ FrameInv /\ [Next]_vars => (SampleInv /\ FrameInv)' /\ [Shows]_vars
    <2> SUFFICES ASSUME ProbeInv, SampleInv, FrameInv, [Next]_vars
                 PROVE  SampleInv' /\ FrameInv' /\ [Shows]_vars
      OBVIOUS
    <2>1. CASE \E ready \in BOOLEAN : Edge(ready)
      <3>1. PICK ready \in BOOLEAN : Edge(ready)
        BY <2>1
      <3>2. SampleInv' /\ FrameInv'
        BY <3>1, EdgeOn
      <3>3. src \in Seq(0 .. END_OF_FRAME)
        BY DEF FrameInv, HostHas, Delivered
      <3>4. src' = src \/ src' = Append(src, byte)
        BY <3>1 DEF Edge, Transfer
      <3>5. ~(Len(src') < Len(src))
        <4>1. Len(Append(src, byte)) = Len(src) + 1 /\ Len(src) \in Nat
          BY <3>3
        <4>2. ~(Len(src) < Len(src)) /\ ~(Len(Append(src, byte)) < Len(src))
          BY <4>1
        <4> QED BY <3>4, <4>2
      <3> QED BY <3>2, <3>5
    <2>2. CASE Decode
      BY <2>2, DecodeOn
    <2>3. CASE Listen \/ UNCHANGED vars
      <3>1. SampleInv' /\ FrameInv'
        BY <2>3, StillOn
      <3>2. src' = src
        BY <2>3 DEF Listen, vars
      <3>3. src \in Seq(0 .. END_OF_FRAME)
        BY DEF FrameInv, HostHas, Delivered
      <3>4. ~(Len(src') < Len(src))
        <4>1. ~(Len(src) < Len(src))
          BY <3>3
        <4> QED BY <3>2, <4>1
      <3> QED BY <3>1, <3>4
    <2> QED BY <2>1, <2>2, <2>3 DEF Next
  <1> QED BY <1>1, <1>2, ProbeInvAlways, PTL DEF Spec, FramesAreWindows
=============================================================================
