----------------------------- MODULE MCFwServer -----------------------------
(***************************************************************************)
(* Streams of three requests for a memory of four cells, read and answered *)
(* in every cutting; the server refines FwService.                         *)
(***************************************************************************)
EXTENDS FwServer

CONSTANTS
    Sendable,   \* requests that are sent
    Ignored,    \* symbols between them that the server must not react to
    Tails       \* symbols after the last one

VARIABLE sent   \* the requests on the line, in order

Sum(s) == FoldLeftDomain(LAMBDA acc, i : acc + i * s[i], 0, s)
MCCrc(h, p) == 1000 + Sum(HeaderBytes(h) \o p)

Request(type, number, payload) == Frame(type, FALSE, number, payload)
Write == Request("WriteMemory", 1, <<1, 6, 7>>)
Read(address, n) == Request("ReadMemory", 2, <<address, n>>)

(* In range, past the end, as long as a response can be, longer than any   *)
(* buffer; and two the firmware panics on: a length between the two limits *)
(* and a range that wraps.                                                 *)
MCSendable == {Write, Request("WriteMemory", 3, <<3, 8, 9>>), Read(0, 3), Read(2, 3), Read(0, 4),
               Read(0, 9), Read(0, 6),
               Request("WriteMemory", 7, <<63, 8, 9>>), Request("QueryVersion", 4, <<>>),
               Request("Run", 5, <<0>>), Frame("Run", TRUE, 6, <<>>)}
LongReads == {Read(0, 5)}
BigWrite  == Request("WriteMemory", 4, <<0, 1, 2, 3, 4, 5, 6, 7, 8>>)

(* A run request of the wrong length, damaged ones, noise. *)
Damaged(s, i) == [s EXCEPT ![i] = @ + 1]
MCIgnored == {<<>>, Encode(Request("Run", 1, <<1, 2>>)), Damaged(Encode(Write), 6),
              Damaged(Encode(Write), 8), Damaged(Encode(Write), 1), <<7, 3, 7>>}
Nothing == {<<>>}

(* What may follow the last request: frames that do not fit or are cut,    *)
(* damaged lengths and types, stray markers.                               *)
MCTails == {Damaged(Encode(BigWrite), i) : i \in 1 .. 5} \cup
           {SubSeq(Encode(Write), 1, 6) \o Encode(Write), <<Marker>>, <<7, Marker, Marker, Marker>>}

Streams ==
    {[requests |-> <<RequestOf(Write), RequestOf(f), RequestOf(g)>>,
      line |-> Encode(Write) \o i \o Encode(f) \o Encode(g)] : f, g \in Sendable, i \in Ignored}
    \cup {[requests |-> <<RequestOf(Write)>>, line |-> Encode(Write) \o t] : t \in Tails}
MCLines == {s.line : s \in Streams}

MCInit == (\E s \in Streams : line = s.line /\ sent = s.requests) /\ ServerInit
MCNext == Process /\ UNCHANGED sent
MCVars == <<serverVars, sent>>
MCSpec == MCInit /\ [][MCNext]_MCVars /\ WF_MCVars(MCNext)

-----------------------------------------------------------------------------
Service == INSTANCE FwService WITH
    Requests <- {RequestOf(f) : f \in Sendable},
    Datum    <- Symbol,
    todo     <- SubSeq(sent, Len(answered) + 1, Len(sent)),
    answers  <- [i \in DOMAIN answered |-> AnswerOf(answered[i])]

(***************************************************************************)
(* The server is the memory FwService describes: every intact request is   *)
(* answered at most once, in order, with the memory as the requests before *)
(* it left it; damaged and malformed ones have no effect.                  *)
(***************************************************************************)
ImplementsService == Service!Spec

(***************************************************************************)
(* None waits for ever: with all requests on the line, every one is        *)
(* answered in the end and its response is written to the last symbol,     *)
(* although the server does not read while a response is pending; unless   *)
(* it panics.                                                              *)
(***************************************************************************)
EveryRequestAnswered ==
    <>(panicked \/ (Len(answered) = Len(sent) /\ pending = <<>>))
=============================================================================
