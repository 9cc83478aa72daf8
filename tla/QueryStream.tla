----------------------------- MODULE QueryStream -----------------------------
(***************************************************************************)
(* What a query's executor promises its consumer (spec 4.3, 5 and 7): the  *)
(* query has a stream of results, tuples followed by at most one error     *)
(* that ends it.  The consumer receives the tuples one at a time, in the   *)
(* stream's order, and then either Ok with all of them, at end-of-stream,  *)
(* or Err, at the error.  Nothing is received after the error, and the     *)
(* consumer eventually gets one of the two answers.                        *)
(***************************************************************************)
EXTENDS Naturals, Sequences

CONSTANTS
    Items,      \* the tuples a stream may carry
    Err         \* the error item

VARIABLES
    stream,     \* the query's stream of results (fixed for the query)
    out,        \* the tuples received so far
    result      \* "running", "ok" or "err"

vars == <<stream, out, result>>

\* tuples, and at most one error, which ends the stream
WellFormed(s) ==
    /\ s \in Seq(Items \cup {Err})
    /\ \A i \in 1..Len(s) : s[i] = Err => i = Len(s)

Init ==
    /\ WellFormed(stream)
    /\ out = << >>
    /\ result = "running"

NextItem == stream[Len(out) + 1]

\* the consumer receives the next tuple
Deliver ==
    /\ result = "running"
    /\ Len(out) < Len(stream) /\ NextItem # Err
    /\ out' = Append(out, NextItem)
    /\ UNCHANGED <<stream, result>>

\* the consumer receives the error
Fail ==
    /\ result = "running"
    /\ Len(out) < Len(stream) /\ NextItem = Err
    /\ result' = "err"
    /\ UNCHANGED <<stream, out>>

\* end-of-stream: the consumer returns everything it received
Finish ==
    /\ result = "running"
    /\ Len(out) = Len(stream)
    /\ result' = "ok"
    /\ UNCHANGED <<stream, out>>

Next == Deliver \/ Fail \/ Finish

Spec == Init /\ [][Next]_vars /\ WF_vars(Next)
=============================================================================
