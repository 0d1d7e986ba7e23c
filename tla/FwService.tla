------------------------------ MODULE FwService -----------------------------
(***************************************************************************)
(* What the firmware promises its client: a memory that answers requests   *)
(* in the order they were sent, each exactly once and completely before    *)
(* the next.  It knows nothing of symbols, checksums, buffers, partial     *)
(* reads and partial writes.                                               *)
(***************************************************************************)
EXTENDS Naturals, Sequences

CONSTANTS
    Requests,       \* [op, number, address, length, data]
    MemSize,        \* cells of the memory
    MaxPayload,     \* the longest payload of a frame
    Version,
    Datum           \* what a cell holds

VARIABLES
    mem,
    todo,           \* requests sent and not yet answered
    answers         \* answers given

vars == <<mem, todo, answers>>

Error(n, code) == [number |-> n, op |-> "Error", value |-> <<code>>]
Ok(r, value)   == [number |-> r.number, op |-> r.op, value |-> value]

Outside(r) == r.address + r.length > MemSize

Answer(m, r) ==
    CASE r.op = "QueryVersion" -> Ok(r, <<Version, MaxPayload>>)
      [] r.op = "ReadMemory"   -> IF r.length > MaxPayload THEN Error(r.number, 3)
                                  ELSE IF Outside(r) THEN Error(r.number, 2)
                                  ELSE Ok(r, [i \in 1 .. r.length |-> m[r.address + i - 1]])
      [] r.op = "WriteMemory"  -> IF Outside(r) THEN Error(r.number, 2) ELSE Ok(r, <<>>)
      [] r.op = "Run"          -> Ok(r, <<>>)
      [] OTHER                 -> Error(r.number, 4)

MemAfter(m, r) ==
    IF r.op = "WriteMemory" /\ ~Outside(r)
    THEN [a \in DOMAIN m |-> IF a \in r.address .. r.address + r.length - 1
                             THEN r.data[a - r.address + 1] ELSE m[a]]
    ELSE m

Serve ==
    /\ todo # <<>>
    /\ answers' = Append(answers, Answer(mem, Head(todo)))
    /\ mem' = MemAfter(mem, Head(todo))
    /\ todo' = Tail(todo)

Init ==
    /\ mem \in [0 .. MemSize - 1 -> Datum]
    /\ todo \in Seq(Requests)
    /\ answers = <<>>

Spec == Init /\ [][Serve]_vars
=============================================================================
