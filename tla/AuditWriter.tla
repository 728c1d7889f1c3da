---------------------------- MODULE AuditWriter ----------------------------
(***************************************************************************)
(* The asynchronous audit writer of platform/audit, one per server: Write  *)
(* offers an entry to a bounded channel and never blocks, a loop collects  *)
(* batches and inserts them row by row, Close stops the loop after what is *)
(* in the channel has been flushed.                                        *)
(*                                                                         *)
(* Entries are only counted.  Write holds the read lock of stateMu over    *)
(* its test of closed and its send, and Close takes the write lock, so     *)
(* each of the two is one step.                                            *)
(***************************************************************************)
EXTENDS Naturals

CONSTANTS
    Servers,
    Capacity,       \* of the channel, 1024
    BatchSize       \* entries that force a flush, 64

ASSUME AuditAssumption == Capacity \in Nat /\ BatchSize \in Nat \ {0}

VARIABLE writer     \* the writer of each server

\* written and twice are history: the calls of Write, and the rows that were
\* stored although their batch was counted as dropped.
Writer == [queue : Nat, batch : Nat, stored : Nat, dropped : Nat,
           written : Nat, twice : Nat,
           phase : {"open", "closed", "draining", "done"}]

\* NewWriter
NewWriter == [queue |-> 0, batch |-> 0, stored |-> 0, dropped |-> 0,
              written |-> 0, twice |-> 0, phase |-> "open"]

\* Mutant: Write does not look at closed.
WriteUnchecked(s) ==
    LET w == writer[s] IN
    writer' = [writer EXCEPT ![s] =
       IF w.queue < Capacity
       THEN [w EXCEPT !.written = @ + 1, !.queue = @ + 1]
       ELSE [w EXCEPT !.written = @ + 1, !.dropped = @ + 1]]

\* Write: closed or full, the entry is dropped and counted.
Write(s) ==
    LET w == writer[s] IN
    writer' = [writer EXCEPT ![s] =
       IF w.phase = "open" /\ w.queue < Capacity
       THEN [w EXCEPT !.written = @ + 1, !.queue = @ + 1]
       ELSE [w EXCEPT !.written = @ + 1, !.dropped = @ + 1]]

\* Close: closed is set and quit is closed; the caller then waits for the loop.
Close(s) ==
    /\ writer[s].phase = "open"
    /\ writer' = [writer EXCEPT ![s].phase = "closed"]

\* loop, case e := <-w.in.  A full batch is flushed before the next select.
Receive(s) ==
    /\ writer[s].phase \in {"open", "closed"}
    /\ writer[s].queue > 0 /\ writer[s].batch < BatchSize
    /\ writer' = [writer EXCEPT ![s].queue = @ - 1, ![s].batch = @ + 1]

\* Mutant: the entries of a failed batch are not counted.
BatchFailsUncounted(w, k) == [w EXCEPT !.batch = 0, !.stored = @ + k, !.twice = @ + k]

\* BatchInsert stops at a row that fails or whose answer is lost; the k rows that
\* reached the table stay and the whole batch is counted as dropped.
BatchFails(w, k) == [w EXCEPT !.batch = 0, !.stored = @ + k, !.twice = @ + k,
                              !.dropped = @ + w.batch]

\* flush
Flushed(w) ==
    {[w EXCEPT !.batch = 0, !.stored = @ + w.batch]}
    \cup {BatchFails(w, k) : k \in 0 .. w.batch}

\* loop, at a tick or with a full batch
Flush(s) ==
    /\ writer[s].phase \in {"open", "closed"}
    /\ writer[s].batch > 0
    /\ \E w \in Flushed(writer[s]) : writer' = [writer EXCEPT ![s] = w]

\* loop, case <-w.quit
Quit(s) ==
    /\ writer[s].phase = "closed" /\ writer[s].batch < BatchSize
    /\ writer' = [writer EXCEPT ![s].phase = "draining"]

\* The inner loop empties the channel whatever the size of the batch ...
Drain(s) ==
    /\ writer[s].phase = "draining" /\ writer[s].queue > 0
    /\ writer' = [writer EXCEPT ![s].queue = @ - 1, ![s].batch = @ + 1]

\* Mutant: the loop waits for something to flush.
FinalFlushFull(s) ==
    /\ writer[s].phase = "draining" /\ writer[s].queue = 0 /\ writer[s].batch > 0
    /\ \E w \in Flushed(writer[s]) :
          writer' = [writer EXCEPT ![s] = [w EXCEPT !.phase = "done"]]

\* ... then flushes once and returns.
FinalFlush(s) ==
    /\ writer[s].phase = "draining" /\ writer[s].queue = 0
    /\ \E w \in Flushed(writer[s]) :
          writer' = [writer EXCEPT ![s] = [w EXCEPT !.phase = "done"]]

Loop(s) == Receive(s) \/ Flush(s) \/ Quit(s) \/ Drain(s) \/ FinalFlush(s)

AuditInit == writer = [s \in Servers |-> NewWriter]
AuditNext == \E s \in Servers : Write(s) \/ Close(s) \/ Loop(s)
AuditSpec == AuditInit /\ [][AuditNext]_writer

-----------------------------------------------------------------------------
AuditTypeOK == /\ writer \in [Servers -> Writer]
               /\ \A s \in Servers : writer[s].queue <= Capacity

\* No entry vanishes without being counted: each call of Write is waiting,
\* stored or counted as dropped, and only rows of a batch that failed halfway
\* are counted twice (audit.go:63, 88, 109-121).
EntriesAccounted ==
    \A s \in Servers : LET w == writer[s] IN
        w.written + w.twice = w.queue + w.batch + w.stored + w.dropped

\* When Close returns nothing is left behind in the channel or in the batch,
\* and no later Write puts anything there (audit.go:91).
ClosedIsDrained ==
    \A s \in Servers : writer[s].phase = "done" =>
        writer[s].queue = 0 /\ writer[s].batch = 0
=============================================================================
