------------------------------- MODULE FwTool -------------------------------
(***************************************************************************)
(* The client on the host and the server in the firmware, with a line each *)
(* way that neither loses nor damages a symbol.                            *)
(***************************************************************************)
EXTENDS FwServer

CONSTANTS
    Numbers, Requests,
    MaxCalls,       \* calls made
    MaxAbandoned    \* calls dropped by their caller

ASSUME ToolAssumption == Numbers \in Nat /\ Numbers > 1

VARIABLES
    next, call, outcome,    \* the client
    calls, abandoned,       \* bounded counters
    taken,                  \* history: symbols the client has read
    quiet                   \* history: the last call found both lines idle

Client == INSTANCE FwClient

clientState == <<next, call, outcome, calls, abandoned, taken, quiet>>
toolVars    == <<serverVars, clientState>>
notClient   == <<receiver, pending, mem, panicked, answered>>

Quiet == line = <<>> /\ receiver = NewReceiver /\ pending = <<>> /\ down = <<>>

Call(r) ==
    /\ calls < MaxCalls /\ Client!Call(r)
    /\ calls' = calls + 1 /\ quiet' = Quiet
    /\ UNCHANGED <<notClient, abandoned, taken>>

ClientReceive ==
    /\ \E n \in 1 .. Len(down) : Client!Receive(n) /\ taken' = taken + n
    /\ UNCHANGED <<notClient, calls, abandoned, quiet>>

Abandon ==
    /\ abandoned < MaxAbandoned /\ Client!Abandon
    /\ abandoned' = abandoned + 1
    /\ UNCHANGED <<notClient, calls, taken, quiet>>

Serve == Process /\ UNCHANGED clientState

ToolInit ==
    /\ ServerInit /\ Client!Init
    /\ calls = 0 /\ abandoned = 0 /\ taken = 0 /\ quiet = TRUE

ToolNext == (\E r \in Requests : Call(r)) \/ ClientReceive \/ Abandon \/ Serve

(* The executor polls a call whose line has symbols, the firmware's loop   *)
(* calls process; nothing makes a caller call or drop a call.              *)
ToolSpec ==
    ToolInit /\ [][ToolNext]_toolVars /\ WF_toolVars(ClientReceive) /\ WF_toolVars(Serve)

-----------------------------------------------------------------------------
(***************************************************************************)
(* A query that succeeds has read the answer to itself: the answers to the *)
(* queries before it, also to those whose caller did not wait, and its     *)
(* own, to the last symbol.  (All calls are queries: their answers have    *)
(* one length.)                                                            *)
(***************************************************************************)
AnswerSize  == HeaderSize + 2 + CrcSize
AnswerIsOwn == outcome = "Ok" => taken = calls * AnswerSize

(***************************************************************************)
(* A query made when nothing is left of the calls before it succeeds,      *)
(* wherever in a frame these were dropped.                                 *)
(***************************************************************************)
QuietCallSucceeds == quiet => outcome # "Err"

(***************************************************************************)
(* A call made when nothing is left of the calls before it returns, unless *)
(* its caller drops it.                                                    *)
(***************************************************************************)
QuietCallReturns == (quiet /\ call.mode # "Idle") ~> call.mode = "Idle"
=============================================================================
