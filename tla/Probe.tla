-------------------------------- MODULE Probe -------------------------------
(***************************************************************************)
(* The embedded logic probe (diag/probe.scala): a queue records a signal,  *)
(* one sample per cycle, and is emptied to the output when it has been     *)
(* filled around a trigger.  One action per state of the circuit; trigger  *)
(* and ready are its inputs in the cycle.                                  *)
(***************************************************************************)
EXTENDS Naturals, Sequences

CONSTANTS
    bufferDepth, triggerPosition,
    Signals         \* the recorded signal is one of 0 .. Signals - 1

VARIABLES
    signal,         \* io.in: numbers its samples, modulo Signals
    state,
    buffer,
    triggerCount,
    hasTriggered,   \* a trigger was seen and is not yet done with
    outValid, outData

probeVars == <<signal, state, buffer, triggerCount, hasTriggered, outValid, outData>>

outLast == state = "Output" /\ buffer = <<>>

(* The queue takes a sample unless it is full. *)
Room   == Len(buffer) < bufferDepth
Sample == IF Room THEN <<signal>> ELSE <<>>
Rest   == SubSeq(buffer, 2, Len(buffer))

(* Only samples that are offered to the queue are numbered. *)
NextSample == signal' = (signal + 1) % Signals
Remember(trigger) == hasTriggered' = (hasTriggered \/ trigger)

-----------------------------------------------------------------------------
Reset(trigger) ==
    /\ state = "Reset"
    /\ state' = IF triggerPosition = 0 THEN "AwaitingTrigger" ELSE "FillPreTrigger"
    /\ buffer' = <<>> /\ triggerCount' = 0 /\ outValid' = FALSE
    /\ Remember(trigger)
    /\ UNCHANGED <<signal, outData>>

Faulty_FillPreTrigger(trigger) ==                       \* one sample more
    /\ state = "FillPreTrigger"
    /\ state' = IF triggerCount = triggerPosition THEN "AwaitingTrigger" ELSE state
    /\ buffer' = buffer \o Sample
    /\ triggerCount' = (triggerCount + 1) % bufferDepth
    /\ NextSample /\ Remember(trigger)
    /\ UNCHANGED <<outValid, outData>>
FillPreTrigger(trigger) ==
    /\ state = "FillPreTrigger"
    /\ state' = IF triggerCount = triggerPosition - 1 THEN "AwaitingTrigger" ELSE state
    /\ buffer' = buffer \o Sample
    /\ triggerCount' = (triggerCount + 1) % bufferDepth
    /\ NextSample /\ Remember(trigger)
    /\ UNCHANGED <<outValid, outData>>

triggered(trigger) == state = "AwaitingTrigger" /\ (trigger \/ hasTriggered)

Faulty_AwaitingTrigger(trigger) ==                      \* drops the oldest once more
    /\ state = "AwaitingTrigger"
    /\ state' = IF triggered(trigger) THEN "FillPostTrigger" ELSE state
    /\ buffer' = Rest \o Sample
    /\ NextSample /\ Remember(trigger)
    /\ UNCHANGED <<triggerCount, outValid, outData>>
AwaitingTrigger(trigger) ==
    /\ state = "AwaitingTrigger"
    /\ IF triggered(trigger)
       THEN state' = "FillPostTrigger" /\ buffer' = buffer \o Sample
       ELSE state' = state /\ buffer' = Rest \o Sample
    /\ NextSample /\ Remember(trigger)
    /\ UNCHANGED <<triggerCount, outValid, outData>>

FillPostTrigger(trigger) ==
    /\ state = "FillPostTrigger"
    /\ state' = IF Room THEN state ELSE "Output"
    /\ buffer' = buffer \o Sample
    /\ NextSample /\ Remember(trigger)
    /\ UNCHANGED <<triggerCount, outValid, outData>>

(* The sample on the output is the last when the queue is empty. *)
Output(ready) ==
    /\ state = "Output"
    /\ state' = IF outValid /\ ready /\ outLast THEN "Reset" ELSE state
    /\ IF ~outValid \/ ready
       THEN /\ outValid' = (buffer # <<>>)
            /\ outData' = IF buffer = <<>> THEN outData ELSE Head(buffer)
            /\ buffer' = Rest
       ELSE UNCHANGED <<outValid, outData, buffer>>     \* (an invalid outData is nobody's)
    /\ hasTriggered' = FALSE
    /\ UNCHANGED <<signal, triggerCount>>

ProbeEdge(trigger, ready) ==
    \/ Reset(trigger) \/ FillPreTrigger(trigger) \/ AwaitingTrigger(trigger)
    \/ FillPostTrigger(trigger) \/ Output(ready)

ProbeInit ==
    /\ state = "Reset" /\ buffer = <<>> /\ triggerCount = 0
    /\ hasTriggered = FALSE /\ outValid = FALSE /\ outData = 0
    /\ signal = 0

ProbeTypeOK ==
    /\ state \in {"Reset", "FillPreTrigger", "AwaitingTrigger", "FillPostTrigger", "Output"}
    /\ signal \in 0 .. Signals - 1 /\ outData \in 0 .. Signals - 1
    /\ buffer \in Seq(0 .. Signals - 1) /\ Len(buffer) <= bufferDepth
    /\ triggerCount \in 0 .. bufferDepth - 1
    /\ hasTriggered \in BOOLEAN /\ outValid \in BOOLEAN
=============================================================================
