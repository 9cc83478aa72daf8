------------------------------- MODULE Executor -------------------------------
(***************************************************************************)
(* The pull-based executor (src/src/execution/mod.rs and                   *)
(* execution/dql/seq_scan.rs): build_read turns each operator of the plan  *)
(* tree into a coroutine that owns the coroutines of its children, and     *)
(* try_collect resumes the root until it completes or yields an error.     *)
(*                                                                         *)
(* The plan is a tree of stages numbered in pre-order (1 is the root):     *)
(* conf.pipe[i] is the operator of stage i and conf.kids[i] its children.  *)
(* One thread runs the whole tree: `active` is the coroutine that has      *)
(* control (0 is the consumer).  Resuming a child hands control down; a    *)
(* yield puts an item in the yielding stage's `slot` and hands control     *)
(* back to its parent; a return marks the stage "done".  Items are tuples  *)
(* (model values) or Err.  throw!(e) yields Err(e) and then returns on the *)
(* next resume.                                                            *)
(*                                                                         *)
(* The storage iterator (outside the sources) is a sequence of tuples in   *)
(* scan order; transaction.read returns at most `limit` of them and either *)
(* the open (failAt[i] = 0) or the failAt[i]-th next_tuple call of scan i  *)
(* may fail.  The Filter, Projection, Limit and Union executors are        *)
(* outside the sources too and are modelled from the spec's operator      *)
(* catalog.                                                                *)
(***************************************************************************)
EXTENDS Naturals, Sequences, SequencesExt

CONSTANTS
    Tuples,     \* the table's tuples in scan order (a sequence of model values)
    Confs       \* the plans and storage behaviours a query may meet

Err == "Err"
Status == "Status"   \* the result tuple a DDL executor emits
None == "None"

VARIABLES
    conf,       \* [pipe, kids, pred, failAt, scanLimit, offset, count] of this query
    active,     \* the coroutine that has control; 0 is the consumer
    pc,         \* pc[i]: where coroutine i stands
    slot,       \* slot[i]: the item coroutine i yielded and its parent has not taken
    pos,        \* pos[i]: next_tuple calls scan i has made
    seen,       \* Limit: tuples received from its child
    sent,       \* Limit: tuples yielded
    out,        \* try_collect's output vector
    result,     \* "running", "ok" or "err": what try_collect returned
    panicked    \* a coroutine was resumed after it completed

vars == <<conf, active, pc, slot, pos, seen, sent, out, result, panicked>>

K == Len(conf.pipe)
Stages == 1..K

\* the stage that owns the coroutine of stage i (0: try_collect)
Parent(i) == IF i = 1 THEN 0 ELSE CHOOSE j \in Stages : \E k \in DOMAIN conf.kids[j] : conf.kids[j][k] = i
\* the input of a single-input stage
Input(i) == conf.kids[i][1]

\* build_read: the executor each operator of the plan becomes
BuildRead(op) ==
    CASE op = "TableScan" -> "SeqScan"
      [] op = "Filter"    -> "Filter"
      [] op = "Project"   -> "Projection"
      [] op = "Limit"     -> "Limit"
      [] op = "Union"     -> "Union"     \* childrens.pop_twins()

\* build_write: the operators it builds itself, with an input (pop_only) and
\* without one; every other operator goes to build_read
WriteWithInput ==
    {"Insert", "Update", "Delete", "AddColumn", "DropColumn", "CreateIndex",
     "CopyToFile", "Analyze"}
WriteWithoutInput ==
    {"CreateTable", "CreateView", "DropTable", "DropView", "DropIndex",
     "Truncate", "CopyFromFile"}
BuildWrite(op) ==
    IF op \in WriteWithInput \cup WriteWithoutInput THEN op ELSE BuildRead(op)

\* a statement's plan goes through build_write; a write executor builds its
\* input with build_read
Kind(i) == IF i = 1 THEN BuildWrite(conf.pipe[i]) ELSE BuildRead(conf.pipe[i])

\* what transaction.read(.., limit, ..) iterates over
\* (an Option<usize> is the set of its values: {} is None)
Avail ==
    IF \E k \in conf.scanLimit : k < Len(Tuples)
    THEN SubSeq(Tuples, 1, CHOOSE k \in conf.scanLimit : TRUE)
    ELSE Tuples

-----------------------------------------------------------------------------
(* Control transfer between coroutines                                    *)

\* yield `item` to the parent and continue at `next` when resumed; the
\* child's item, if the stage took one, leaves the child's slot
Yield(i, item, next) ==
    /\ slot' = [j \in DOMAIN slot |->
                   IF j = i THEN item
                   ELSE IF \E k \in DOMAIN conf.kids[i] : conf.kids[i][k] = j THEN None
                   ELSE slot[j]]
    /\ pc' = [pc EXCEPT ![i] = next]
    /\ active' = Parent(i)

\* the coroutine body returns: CoroutineState::Complete
Complete(i) ==
    /\ pc' = [pc EXCEPT ![i] = "done"]
    /\ active' = Parent(i)
    /\ UNCHANGED slot

\* resume child c and wait at `w`; resuming a completed coroutine panics
Pull(i, c, w) ==
    /\ active' = c
    /\ pc' = [pc EXCEPT ![i] = w]
    /\ panicked' = (panicked \/ pc[c] = "done")
    /\ UNCHANGED slot

\* drop the item of child c and resume it again
Drop(i, c) ==
    /\ slot' = [slot EXCEPT ![c] = None]
    /\ pc' = [pc EXCEPT ![i] = "pull"]
    /\ UNCHANGED active

\* control came back from child c: what it yielded, or that it returned
Taken(c) == slot[c]
ChildReturned(c) == pc[c] = "done" /\ slot[c] = None

-----------------------------------------------------------------------------
(* SeqScan::execute                                                        *)

\* mutant: the scan ignores the pushed-down limit when it opens the iterator
ScanStepNoLimit ==
    \E i \in Stages :
        /\ active = i /\ Kind(i) = "SeqScan"
        /\ \/ /\ pc[i] = "open"
              \* throw!(transaction.read(table_cache, table_name, limit, ..))
              /\ IF conf.failAt[i] = 0 THEN Yield(i, Err, "fin")
                 ELSE /\ pc' = [pc EXCEPT ![i] = "loop"]
                      /\ UNCHANGED <<active, slot>>
              /\ UNCHANGED pos
           \/ /\ pc[i] = "loop"
              \* while let Some(tuple) = throw!(iter.next_tuple()) { yield Ok(tuple) }
              /\ pos' = [pos EXCEPT ![i] = @ + 1]
              /\ IF pos[i] + 1 = conf.failAt[i] THEN Yield(i, Err, "fin")
                 ELSE IF pos[i] < Len(Tuples) THEN Yield(i, Tuples[pos[i] + 1], "loop")
                 ELSE Complete(i)
           \/ /\ pc[i] = "fin"
              /\ Complete(i)
              /\ UNCHANGED pos
        /\ UNCHANGED <<conf, seen, sent, out, result, panicked>>

ScanStep ==
    \E i \in Stages :
        /\ active = i /\ Kind(i) = "SeqScan"
        /\ \/ /\ pc[i] = "open"
              \* throw!(transaction.read(table_cache, table_name, limit, ..))
              /\ IF conf.failAt[i] = 0 THEN Yield(i, Err, "fin")
                 ELSE /\ pc' = [pc EXCEPT ![i] = "loop"]
                      /\ UNCHANGED <<active, slot>>
              /\ UNCHANGED pos
           \/ /\ pc[i] = "loop"
              \* while let Some(tuple) = throw!(iter.next_tuple()) { yield Ok(tuple) }
              /\ pos' = [pos EXCEPT ![i] = @ + 1]
              /\ IF pos[i] + 1 = conf.failAt[i] THEN Yield(i, Err, "fin")
                 ELSE IF pos[i] < Len(Avail) THEN Yield(i, Avail[pos[i] + 1], "loop")
                 ELSE Complete(i)
           \/ /\ pc[i] = "fin"
              /\ Complete(i)
              /\ UNCHANGED pos
        /\ UNCHANGED <<conf, seen, sent, out, result, panicked>>

-----------------------------------------------------------------------------
(* Filter, Projection, Limit (spec 4.3): each pulls its child with          *)
(* `while let Yielded(tuple) = resume(child)` and throws the child's errors *)

\* a stage waiting at w has just received Err from child c, or has thrown
\* and is resumed once more
Thrown(i, c, w) ==
    \/ pc[i] = w /\ Taken(c) = Err /\ Yield(i, Err, "fin")
    \/ pc[i] = "fin" /\ Complete(i)

\* Filter: yields the tuples whose predicate is true (NULL and FALSE drop);
\* an error of the predicate is thrown
FilterStep ==
    \E i \in Stages :
        /\ active = i /\ Kind(i) = "Filter"
        /\ \/ pc[i] = "pull" /\ Pull(i, Input(i), "wait")
           \/ /\ pc[i] = "wait" /\ ChildReturned(Input(i)) /\ Complete(i)
              /\ UNCHANGED panicked
           \/ Thrown(i, Input(i), "wait") /\ UNCHANGED panicked
           \/ /\ pc[i] = "wait" /\ Taken(Input(i)) \notin {None, Err}
              /\ LET x == Taken(Input(i))
                 IN  CASE conf.pred[x] = "err"  -> Yield(i, Err, "fin")
                       [] conf.pred[x] = "true" -> Yield(i, x, "pull")
                       [] OTHER                 -> Drop(i, Input(i))
              /\ UNCHANGED panicked
        /\ UNCHANGED <<conf, pos, seen, sent, out, result>>

\* Projection: yields each tuple projected (the projection is abstracted)
ProjectStep ==
    \E i \in Stages :
        /\ active = i /\ Kind(i) = "Projection"
        /\ \/ pc[i] = "pull" /\ Pull(i, Input(i), "wait")
           \/ /\ pc[i] = "wait" /\ ChildReturned(Input(i)) /\ Complete(i)
              /\ UNCHANGED panicked
           \/ Thrown(i, Input(i), "wait") /\ UNCHANGED panicked
           \/ /\ pc[i] = "wait" /\ Taken(Input(i)) \notin {None, Err}
              /\ Yield(i, Taken(Input(i)), "pull")
              /\ UNCHANGED panicked
        /\ UNCHANGED <<conf, pos, seen, sent, out, result>>

\* Limit: skips `offset` tuples, yields up to `count`, and returns without
\* resuming its child once `count` tuples are out
LimitStep ==
    \E i \in Stages :
        /\ active = i /\ Kind(i) = "Limit"
        /\ \/ /\ pc[i] = "pull" /\ sent \in conf.count /\ Complete(i)
              /\ UNCHANGED <<seen, sent, panicked>>
           \/ /\ pc[i] = "pull" /\ sent \notin conf.count /\ Pull(i, Input(i), "wait")
              /\ UNCHANGED <<seen, sent>>
           \/ /\ pc[i] = "wait" /\ ChildReturned(Input(i)) /\ Complete(i)
              /\ UNCHANGED <<seen, sent, panicked>>
           \/ Thrown(i, Input(i), "wait") /\ UNCHANGED <<seen, sent, panicked>>
           \/ /\ pc[i] = "wait" /\ Taken(Input(i)) \notin {None, Err}
              /\ seen' = seen + 1
              /\ IF seen < conf.offset
                 THEN Drop(i, Input(i)) /\ UNCHANGED sent
                 ELSE Yield(i, Taken(Input(i)), "pull") /\ sent' = sent + 1
              /\ UNCHANGED panicked
        /\ UNCHANGED <<conf, pos, out, result>>

\* AddColumn / DropColumn (spec 4.3, outside the sources): consume the
\* input, rewriting each tuple in the transaction, throw the input's error,
\* and emit one status tuple once the input has returned
AlterColumnStep ==
    \E i \in Stages :
        /\ active = i /\ Kind(i) \in {"AddColumn", "DropColumn"}
        /\ \/ pc[i] = "pull" /\ Pull(i, Input(i), "wait")
           \/ /\ pc[i] = "wait" /\ ChildReturned(Input(i)) /\ Yield(i, Status, "fin")
              /\ UNCHANGED panicked
           \/ Thrown(i, Input(i), "wait") /\ UNCHANGED panicked
           \/ /\ pc[i] = "wait" /\ Taken(Input(i)) \notin {None, Err} /\ Drop(i, Input(i))
              /\ UNCHANGED panicked
        /\ UNCHANGED <<conf, pos, seen, sent, out, result>>

\* Union (spec 4.3 "yields left then right", outside the sources): pulls
\* its left input to the end, throwing its error, then builds and pulls its
\* right input the same way
UnionPull(i, L, R) ==
    \/ pc[i] = "pull" /\ Pull(i, L, "waitL")
    \/ pc[i] = "pullR" /\ Pull(i, R, "waitR")
    \* the left input returned: build_read(right) and resume it
    \/ pc[i] = "waitL" /\ ChildReturned(L) /\ Pull(i, R, "waitR")

UnionStep ==
    \E i \in Stages :
        /\ active = i /\ Kind(i) = "Union"
        /\ LET L == conf.kids[i][1]
               R == conf.kids[i][2]
           IN  \/ UnionPull(i, L, R)
               \/ /\ pc[i] = "waitR" /\ ChildReturned(R) /\ Complete(i)
                  /\ UNCHANGED panicked
               \/ Thrown(i, L, "waitL") /\ UNCHANGED panicked
               \/ /\ pc[i] = "waitR" /\ Taken(R) = Err /\ Yield(i, Err, "fin")
                  /\ UNCHANGED panicked
               \/ /\ pc[i] = "waitL" /\ Taken(L) \notin {None, Err}
                  /\ Yield(i, Taken(L), "pull")
                  /\ UNCHANGED panicked
               \/ /\ pc[i] = "waitR" /\ Taken(R) \notin {None, Err}
                  /\ Yield(i, Taken(R), "pullR")
                  /\ UNCHANGED panicked
        /\ UNCHANGED <<conf, pos, seen, sent, out, result>>

-----------------------------------------------------------------------------
(* try_collect: while let Yielded(tuple) = resume(()) { output.push(tuple?) } *)

CollectResume ==
    /\ active = 0 /\ result = "running" /\ slot[1] = None /\ pc[1] # "done"
    /\ active' = 1
    /\ UNCHANGED <<conf, pc, slot, pos, seen, sent, out, result, panicked>>

CollectPush ==
    /\ active = 0 /\ result = "running" /\ slot[1] \notin {None, Err}
    /\ out' = Append(out, slot[1])
    /\ slot' = [slot EXCEPT ![1] = None]
    /\ UNCHANGED <<conf, active, pc, pos, seen, sent, result, panicked>>

\* `tuple?` returns the error; the executor is dropped
CollectError ==
    /\ active = 0 /\ result = "running" /\ slot[1] = Err
    /\ result' = "err"
    /\ UNCHANGED <<conf, active, pc, slot, pos, seen, sent, out, panicked>>

\* resume returned Complete: Ok(output)
CollectComplete ==
    /\ active = 0 /\ result = "running" /\ slot[1] = None /\ pc[1] = "done"
    /\ result' = "ok"
    /\ UNCHANGED <<conf, active, pc, slot, pos, seen, sent, out, panicked>>

-----------------------------------------------------------------------------

\* build_read wires the coroutines; none has run yet
Init ==
    /\ conf \in Confs
    /\ active = 0
    /\ pc = [i \in 1..Len(conf.pipe) |->
                IF Kind(i) = "SeqScan" THEN "open" ELSE "pull"]
    /\ slot = [i \in 1..Len(conf.pipe) |-> None]
    /\ pos = [i \in 1..Len(conf.pipe) |-> 0]
    /\ seen = 0 /\ sent = 0
    /\ out = << >>
    /\ result = "running"
    /\ panicked = FALSE

Next ==
    \/ ScanStep \/ FilterStep \/ ProjectStep \/ LimitStep \/ AlterColumnStep \/ UnionStep
    \/ CollectResume \/ CollectPush \/ CollectError \/ CollectComplete

\* one thread runs the tree; try_collect keeps resuming while the root yields
Spec == Init /\ [][Next]_vars /\ WF_vars(Next)

-----------------------------------------------------------------------------
(* The reference: what each executor's contract says its stream is, as a   *)
(* function of its child's stream.  Every stream ends at its first Err.    *)

\* SeqScan i: the open fails, or the failAt[i]-th next_tuple call, or neither
ScanStream(i) ==
    IF conf.failAt[i] = 0 THEN <<Err>>
    ELSE IF conf.failAt[i] <= Len(Avail) + 1
         THEN SubSeq(Avail, 1, conf.failAt[i] - 1) \o <<Err>>
         ELSE Avail

RECURSIVE FilterStream(_)
FilterStream(s) ==
    IF s = << >> THEN << >>
    ELSE IF Head(s) = Err \/ conf.pred[Head(s)] = "err" THEN <<Err>>
    ELSE IF conf.pred[Head(s)] = "true" THEN <<Head(s)>> \o FilterStream(Tail(s))
    ELSE FilterStream(Tail(s))

RECURSIVE LimitStream(_, _, _)
LimitStream(s, skip, left) ==
    IF left = 0 \/ s = << >> THEN << >>
    ELSE IF Head(s) = Err THEN <<Err>>
    ELSE IF skip > 0 THEN LimitStream(Tail(s), skip - 1, left)
    ELSE <<Head(s)>> \o LimitStream(Tail(s), 0, left - 1)

\* AddColumn / DropColumn: the status, or the input's error
AlterStream(s) == IF \E k \in DOMAIN s : s[k] = Err THEN <<Err>> ELSE <<Status>>

\* Union: the left stream, then the right one unless the left ended in Err
UnionStream(l, r) == IF \E k \in DOMAIN l : l[k] = Err THEN l ELSE l \o r

\* the stream of stage i
RECURSIVE StreamOf(_)
StreamOf(i) ==
    CASE Kind(i) = "SeqScan"    -> ScanStream(i)
      [] Kind(i) = "Filter"     -> FilterStream(StreamOf(Input(i)))
      [] Kind(i) = "Projection" -> StreamOf(Input(i))
      [] Kind(i) \in {"AddColumn", "DropColumn"} -> AlterStream(StreamOf(Input(i)))
      [] Kind(i) = "Union"      ->
            UnionStream(StreamOf(conf.kids[i][1]), StreamOf(conf.kids[i][2]))
      [] Kind(i) = "Limit"      ->
            LimitStream(StreamOf(Input(i)), conf.offset,
                        IF conf.count = {} THEN K * Len(Tuples) + 1
                        ELSE CHOOSE k \in conf.count : TRUE)

Expected == StreamOf(1)

-----------------------------------------------------------------------------
(* Properties                                                              *)

\* what a stream carries: the table's tuples and the status tuple
StreamItems == Range(Tuples) \cup {Status}
SlotItems == StreamItems \cup {Err, None}

\* The state has its types, and try_collect's output holds tuples only:
\* `output.push(tuple?)` never pushes an error.
TypeOK ==
    /\ active \in 0..K
    /\ pc \in [Stages -> {"open", "loop", "pull", "wait", "waitL", "pullR", "waitR",
                          "fin", "done"}]
    /\ slot \in [Stages -> SlotItems]
    /\ out \in Seq(StreamItems)
    /\ result \in {"running", "ok", "err"}

\* The executor implements the stream promise of QueryStream: the stream is
\* the one the operator contracts give this plan and storage behaviour
\* (tuples in scan order, filtered, offset and counted, ended by the first
\* error); try_collect receives its tuples in order, nothing after the
\* error, and returns Ok or Err, which it always does under WF.
Collect == INSTANCE QueryStream
               WITH Items <- StreamItems, Err <- Err,
                    stream <- Expected, out <- out, result <- result

ImplementsQueryStream == Collect!Spec
=============================================================================
