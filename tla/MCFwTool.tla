------------------------------ MODULE MCFwTool ------------------------------
(***************************************************************************)
(* A few calls over the line, in every cutting of reads and writes.        *)
(***************************************************************************)
EXTENDS FwTool

Sum(s) == FoldLeftDomain(LAMBDA acc, i : acc + i * s[i], 0, s)
MCCrc(h, p) == 1000 + Sum(HeaderBytes(h) \o p)

MCLines == {<<>>}
Queries == {[type |-> "QueryVersion", payload |-> <<>>]}
Reads   == {[type |-> "ReadMemory", payload |-> <<0, 2>>]}
=============================================================================
