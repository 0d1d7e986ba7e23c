------------------------------ MODULE ProbeLink -----------------------------
(***************************************************************************)
(* The probe, its adapter and the host that decodes what it receives.  The *)
(* line in between takes a byte now and then; a host that starts to listen *)
(* has missed what was sent before.                                        *)
(***************************************************************************)
EXTENDS Probe, ProbeAdapter

CONSTANT MaxSrc     \* bound: bytes received and not decoded

ASSUME ProbeLinkAssumption ==
    /\ bufferDepth \in Nat /\ triggerPosition \in 1 .. bufferDepth - 1
    /\ numberOfPhases \in Nat /\ numberOfPhases > 1
    /\ Chunks \in Nat \ {0} /\ Signals \in 1 .. Chunks ^ numberOfPhases
    /\ MaxSrc \in Nat

VARIABLES
    listening, src, \* the host: port open, bytes received
    trig,           \* history: the sample the probe was triggered at
    expected        \* history: trig of the frames the host saw the begin of

Dec == INSTANCE Probedec

(* A sample is given back by its digits to the base of Chunks. *)
ASSUME DigitsAssumption == \A s \in 0 .. Signals - 1 :
    /\ \A k \in 0 .. numberOfPhases - 1 : Chunk(s, k) \in 0 .. Chunks - 1
    /\ Dec!Value([k \in 1 .. numberOfPhases |-> Chunk(s, k - 1)]) = s

vars == <<probeVars, adapterVars, listening, src, trig, expected>>

-----------------------------------------------------------------------------
offered == [valid |-> outValid, data |-> outData, last |-> outLast]

(* The byte on the adapter's output leaves it. *)
Transfer ==
    IF byteValid /\ listening
    THEN /\ Len(src) < MaxSrc
         /\ src' = Append(src, byte)
         /\ expected' = IF byte = START_OF_FRAME THEN Append(expected, trig) ELSE expected
    ELSE UNCHANGED <<src, expected>>

(* A clock edge; ready is the line's. *)
Edge(ready) == \E trigger \in BOOLEAN :
    /\ ProbeEdge(trigger, sampleReady)
    /\ AdapterEdge(offered, ready)
    /\ trig' = IF triggered(trigger) THEN signal ELSE trig
    /\ IF ready THEN Transfer ELSE UNCHANGED <<src, expected>>
    /\ UNCHANGED listening

Listen ==
    /\ ~listening /\ listening' = TRUE
    /\ UNCHANGED <<probeVars, adapterVars, src, trig, expected>>

Decode ==
    /\ Dec!HasFrame(src)
    /\ src' = Dec!AfterFrame(src)
    /\ expected' = SubSeq(expected, 2, Len(expected))
    /\ UNCHANGED <<probeVars, adapterVars, listening, trig>>

Init ==
    /\ ProbeInit /\ AdapterInit
    /\ listening = FALSE /\ src = <<>>
    /\ trig = 0 /\ expected = <<>>

Next == (\E ready \in BOOLEAN : Edge(ready)) \/ Listen \/ Decode

(* The clock runs, the line takes a byte again and again, the host decodes. *)
Spec == Init /\ [][Next]_vars
    /\ WF_vars(Edge(TRUE) \/ Edge(FALSE)) /\ WF_vars(Edge(TRUE)) /\ WF_vars(Decode)

-----------------------------------------------------------------------------
(* The samples around a trigger: it is at triggerPosition. *)
Window(t) == [i \in 1 .. bufferDepth |-> (t + Signals * bufferDepth + i - 1 - triggerPosition) % Signals]

Succ(sample) == (sample + 1) % Signals
InOrder(samples) == \A i \in 1 .. Len(samples) - 1 : samples[i + 1] = Succ(samples[i])
PostTrigger == bufferDepth - triggerPosition

(***************************************************************************)
(* While a window is sent, what is left of it is in order and without a    *)
(* gap, and the trigger is where the rest says: in the queue as many       *)
(* samples before its end as come after the trigger, or on the output.     *)
(* The queue is full when the first sample leaves it.                      *)
(***************************************************************************)
WindowHeld == state = "Output" =>
    /\ InOrder(buffer)
    /\ outValid /\ buffer # <<>> => buffer[1] = Succ(outData)
    /\ Len(buffer) >= PostTrigger => buffer[Len(buffer) - PostTrigger + 1] = trig
    /\ outValid /\ Len(buffer) + 1 = PostTrigger => outData = trig
    /\ ~outValid => Len(buffer) = bufferDepth

(***************************************************************************)
(* What the host decodes is the window around a trigger, whole and without *)
(* a gap, and no frame it saw the begin of is lost or comes twice; whether *)
(* it began to listen between frames or in one, and whenever it decodes.   *)
(***************************************************************************)
FramesAreWindows ==
    [][Len(src') < Len(src) => /\ expected # <<>>
                               /\ Dec!Rows(Dec!Body(src)) = Window(Head(expected))]_vars

(* A host that listens is given frames for ever, or the trigger stays away. *)
KeepsReporting == <>listening =>
    []<><<Decode>>_vars \/ <>[](state = "AwaitingTrigger" /\ ~hasTriggered)
=============================================================================
