----------------------------- MODULE DataBuffer ------------------------------
(***************************************************************************)
(* The write buffer of sensor reports: FastReportWrite (pkg/cache/redis.go) *)
(* appends a report to a Redis list, and the worker of                     *)
(* device_data_buffer.go moves batches of them to InfluxDB, through        *)
(* FlushReports (device_report_service.go) and WriteSensorsAsync           *)
(* (influxdb_service.go), until main stops it.                             *)
(*                                                                         *)
(* The list survives the process; a batch and a write under way do not.    *)
(* The head of the list is queue[1]: reports enter there, and the worker   *)
(* takes them from the other end.                                          *)
(***************************************************************************)
EXTENDS Naturals, Sequences, FiniteSets

CONSTANTS Reports,          \* reports of devices, each sent once
          MaxLen,           \* BufferQueueMaxLen (20000 in the code)
          BatchSize,        \* batchSize (200 in the code)
          Fallbacks,        \* whether Redis is older than 6.2, and a batch popped one by one
          Writers,          \* "sync": a BatchWriter that tells a failed write, as the
                            \* interface has it; "async": the platform's, which does not
          WriteFaults,      \* whether InfluxDB may refuse a write
          MaxFaults         \* calls to Redis that fail, or crashes of the process (bound)

ASSUME DataBufferAssumptions ==
    /\ MaxLen \in Nat \ {0}
    /\ BatchSize \in Nat \ {0}
    /\ Writers \subseteq {"sync", "async"}
    /\ Fallbacks \subseteq BOOLEAN
    /\ WriteFaults \in BOOLEAN
    /\ MaxFaults \in Nat

VARIABLES
    queue,      \* the Redis list buffer:device_reports
    pipe,       \* pipe[r] : how far the pipeline of report r is
    worker,     \* phase of the worker goroutine
    batch,      \* the reports it holds, newest first
    writes,     \* reports in writes to InfluxDB that run on their own
    stored,     \* reports in InfluxDB
    writer,     \* the BatchWriter the buffer was created with
    fallback,   \* what RPopCount does: nothing, on an old Redis
    server,     \* phase of the process
    faults,     \* failures so far
    trimmed,    \* reports cut by LTRIM
    arrived     \* reports in the order they first entered the list

workerVars == <<worker, batch>>
storeVars == <<writes, stored>>
deployVars == <<writer, fallback>>
processVars == <<server, deployVars, faults>>
vars == <<queue, pipe, workerVars, storeVars, processVars, trimmed, arrived>>

Elements(s) == {s[i] : i \in 1 .. Len(s)}

TypeOK ==
    /\ queue \in Seq(Reports)
    /\ pipe \in [Reports -> {"new", "trim", "answered", "direct", "lost"}]
    /\ worker \in {"wait", "pop", "flush", "requeue", "trim", "over"}
    /\ batch \in Seq(Reports)
    /\ writes \in SUBSET Reports
    /\ stored \in SUBSET Reports
    /\ writer \in Writers
    /\ fallback \in Fallbacks
    /\ server \in {"up", "stopping", "exited", "crashed"}
    /\ faults \in 0 .. MaxFaults
    /\ trimmed \in SUBSET Reports
    /\ arrived \in Seq(Reports)

Init ==
    /\ queue = << >>
    /\ pipe = [r \in Reports |-> "new"]
    /\ worker = "wait"
    /\ batch = << >>
    /\ writes = {}
    /\ stored = {}
    /\ writer \in Writers
    /\ fallback \in Fallbacks
    /\ server = "up"
    /\ faults = 0
    /\ trimmed = {}
    /\ arrived = << >>

Running == server \in {"up", "stopping"}

\* Redis refuses, or its answer is lost, or the process crashes.
Fault == faults < MaxFaults /\ faults' = faults + 1

-----------------------------------------------------------------------------
(* A report comes in.                                                      *)

\* (Mutant of Kept: off by one.)
KeptOneMore(s) == SubSeq(s, 1, IF Len(s) > MaxLen + 1 THEN MaxLen + 1 ELSE Len(s))

\* The list cut to its first MaxLen entries, and what that cuts off.
Kept(s) == SubSeq(s, 1, IF Len(s) > MaxLen THEN MaxLen ELSE Len(s))
Cut(s) == Elements(SubSeq(s, MaxLen + 1, Len(s)))

\* (Mutant of Pushed: RPUSH.)
PushedLast(r) == Append(queue, r)

Pushed(r) == <<r>> \o queue

LPush(r) ==
    /\ queue' = Pushed(r)
    /\ arrived' = IF r \in Elements(arrived) THEN arrived ELSE Append(arrived, r)

LTrim ==
    /\ queue' = Kept(queue)
    /\ trimmed' = trimmed \cup Cut(queue)

\* FastReportWrite sends LPUSH and LTRIM in a pipeline, which is not a
\* transaction: commands of others may come in between.
ReportPush(r) ==
    /\ Running
    /\ pipe[r] = "new"
    /\ pipe' = [pipe EXCEPT ![r] = "trim"]
    /\ LPush(r)
    /\ UNCHANGED <<workerVars, storeVars, processVars, trimmed>>

ReportTrim(r) ==
    /\ Running
    /\ pipe[r] = "trim"
    /\ pipe' = [pipe EXCEPT ![r] = "answered"]
    /\ LTrim
    /\ UNCHANGED <<workerVars, storeVars, processVars, arrived>>

\* The pipeline fails, before or after the push took effect: the report is
\* written to InfluxDB directly, and the device is answered all the same.
ReportDirect(r) ==
    /\ Fault
    /\ Running
    /\ pipe[r] \in {"new", "trim"}
    /\ pipe' = [pipe EXCEPT ![r] = "direct"]
    /\ writes' = writes \cup {r}
    /\ UNCHANGED <<queue, workerVars, stored, server, deployVars, trimmed, arrived>>

\* A write of its own ends, one way or the other; nobody looks at the result.
WriteEnds(r) ==
    /\ Running
    /\ r \in writes
    /\ writes' = writes \ {r}
    /\ \/ stored' = stored \cup {r}
       \/ WriteFaults /\ UNCHANGED stored
    /\ UNCHANGED <<queue, pipe, workerVars, processVars, trimmed, arrived>>

-----------------------------------------------------------------------------
(* The worker.                                                             *)

\* drain begins: at a tick, or for the last time when the buffer is stopped.
Tick ==
    /\ server = "up"
    /\ worker = "wait"
    /\ worker' = "pop"
    /\ UNCHANGED <<queue, pipe, batch, storeVars, processVars, trimmed, arrived>>

\* Where drain returns to: the loop of worker, which ends when it was stopped.
DrainOver == worker' = IF server = "up" THEN "wait" ELSE "over"

PopSize == IF fallback THEN 1 ELSE BatchSize

\* (Mutant of Rest: the reports are read, and stay.)
RestAll(n) == queue

\* What n RPOPs leave of the list.
Rest(n) == SubSeq(queue, 1, Len(queue) - n)

\* RPOP of up to PopSize reports from the tail.  RPopCount is one command; the
\* fallback repeats RPOP until it has a batch or finds the list empty.
Pop ==
    LET n == IF Len(queue) > PopSize THEN PopSize ELSE Len(queue)
        taken == SubSeq(queue, Len(queue) - n + 1, Len(queue))
    IN  /\ Running
        /\ worker = "pop"
        /\ queue # << >>
        /\ queue' = Rest(n)
        /\ batch' = taken \o batch
        /\ worker' = IF fallback /\ Len(batch) + 1 < BatchSize THEN "pop" ELSE "flush"
        /\ UNCHANGED <<pipe, storeVars, processVars, trimmed, arrived>>

\* The list is empty: drain returns, or the fallback goes on with what it has.
PopNothing ==
    /\ Running
    /\ worker = "pop"
    /\ queue = << >>
    /\ \/ batch # << >> /\ worker' = "flush"
       \/ batch = << >> /\ DrainOver
    /\ UNCHANGED <<queue, pipe, batch, storeVars, processVars, trimmed, arrived>>

\* RPOP fails and drain returns, dropping what the fallback already had; or the
\* answer to RPopCount was lost and the reports in it with it.
PopFails ==
    LET n == IF Len(queue) > PopSize THEN PopSize ELSE Len(queue)
    IN  /\ Fault
        /\ Running
        /\ worker = "pop"
        /\ queue' \in {queue, Rest(n)}
        /\ batch' = << >>
        /\ DrainOver
        /\ UNCHANGED <<pipe, storeVars, server, deployVars, trimmed, arrived>>

\* FlushReports of the platform only starts the write and returns no error.
FlushAsync ==
    /\ writer = "async"
    /\ Running
    /\ worker = "flush"
    /\ writes' = writes \cup Elements(batch)
    /\ batch' = << >>
    /\ worker' = "pop"
    /\ UNCHANGED <<queue, pipe, stored, processVars, trimmed, arrived>>

\* A BatchWriter as the buffer expects it: it writes, or says that it could not.
FlushSync ==
    /\ writer = "sync"
    /\ Running
    /\ worker = "flush"
    /\ stored' = stored \cup Elements(batch)
    /\ batch' = << >>
    /\ worker' = "pop"
    /\ UNCHANGED <<queue, pipe, writes, processVars, trimmed, arrived>>

\* (Mutant of FlushRefused: the batch is given up.)
FlushGivesUp ==
    /\ writer = "sync" /\ WriteFaults
    /\ Running
    /\ worker = "flush"
    /\ batch' = << >>
    /\ worker' = "trim"
    /\ UNCHANGED <<queue, pipe, storeVars, processVars, trimmed, arrived>>

FlushRefused ==
    /\ writer = "sync" /\ WriteFaults
    /\ Running
    /\ worker = "flush"
    /\ worker' = "requeue"
    /\ UNCHANGED <<queue, pipe, batch, storeVars, processVars, trimmed, arrived>>

\* requeue pushes the reports back at the head, the newest first ...
Requeue ==
    /\ Running
    /\ worker = "requeue"
    /\ (LPush(batch[1]) /\ UNCHANGED faults) \/ (Fault /\ UNCHANGED <<queue, arrived>>)
    /\ batch' = Tail(batch)
    /\ worker' = IF Len(batch) = 1 THEN "trim" ELSE "requeue"
    /\ UNCHANGED <<pipe, storeVars, server, deployVars, trimmed>>

\* ... and trims the list.
RequeueTrim ==
    /\ Running
    /\ worker = "trim"
    /\ (LTrim /\ UNCHANGED faults) \/ (Fault /\ UNCHANGED <<queue, trimmed>>)
    /\ DrainOver
    /\ UNCHANGED <<pipe, batch, storeVars, server, deployVars, arrived>>

-----------------------------------------------------------------------------
(* The process.                                                            *)

\* main got a signal: Stop closes stopCh and waits for the worker, which drains
\* once more.  Connections the HTTP server has handed over may still report.
StopBuffer ==
    /\ server = "up"
    /\ worker = "wait"
    /\ server' = "stopping"
    /\ worker' = "pop"
    /\ UNCHANGED <<queue, pipe, batch, storeVars, deployVars, faults, trimmed, arrived>>

\* What is in memory is gone, with the answers still to be given.
Gone ==
    /\ writes' = {}
    /\ batch' = << >>
    /\ worker' = "over"
    /\ pipe' = [r \in Reports |-> IF pipe[r] = "trim" THEN "lost" ELSE pipe[r]]

\* main returns once the worker is over.
Exit ==
    /\ server = "stopping"
    /\ worker = "over"
    /\ server' = "exited"
    /\ Gone
    /\ UNCHANGED <<queue, stored, deployVars, faults, trimmed, arrived>>

Crash ==
    /\ Running
    /\ Fault
    /\ server' = "crashed"
    /\ Gone
    /\ UNCHANGED <<queue, stored, deployVars, trimmed, arrived>>

\* After a crash the process is started again.
Restart ==
    /\ server = "crashed"
    /\ server' = "up"
    /\ worker' = "wait"
    /\ UNCHANGED <<queue, pipe, batch, storeVars, deployVars, faults, trimmed, arrived>>

-----------------------------------------------------------------------------
Drain ==
    \/ Pop \/ PopNothing \/ FlushAsync \/ FlushSync \/ FlushRefused \/ Requeue \/ RequeueTrim

Next ==
    \/ \E r \in Reports : ReportPush(r) \/ ReportTrim(r) \/ ReportDirect(r) \/ WriteEnds(r)
    \/ Tick \/ Drain \/ PopFails
    \/ StopBuffer \/ Exit \/ Crash \/ Restart

Spec == Init /\ [][Next]_vars

\* The ticker ticks, goroutines run, and InfluxDB does not refuse for ever.
FairSpec ==
    /\ Spec
    /\ WF_vars(Tick) /\ WF_vars(Drain)
    /\ SF_vars(FlushSync)
    /\ \A r \in Reports : WF_vars(ReportTrim(r)) /\ WF_vars(WriteEnds(r))

-----------------------------------------------------------------------------
(* Properties.                                                             *)

\* With a writer that tells a failed write, and unless Redis failed or the process
\* crashed, a report a device was answered for is in the list, with the worker, being
\* written, or stored, unless it was cut from a list that was too long.
Accounted(r) ==
    \/ r \in Elements(queue) \cup Elements(batch)
    \/ r \in writes \cup stored \cup trimmed

NothingVanishes ==
    writer = "sync" /\ faults = 0 =>
        \A r \in Reports : pipe[r] \in {"answered", "direct"} => Accounted(r)

\* Unless Redis failed, nothing is written twice: a report is in one place only.
OnePlace ==
    LET held == queue \o batch
    IN  faults = 0 =>
        /\ \A i, j \in 1 .. Len(held) : held[i] = held[j] => i = j
        /\ \A r \in Elements(held) : r \notin writes \cup stored
        /\ writes \cap stored = {}

\* No report is lost and none is doubled on its way from the list to the store.
EachReportOnce == NothingVanishes /\ OnePlace

\* The list is beyond its limit only by reports whose own pipeline did not get to
\* its LTRIM, and by the one batch the worker puts back: even when Redis refuses
\* every trim of the worker it does not grow further.
Untrimmed == {r \in Reports : pipe[r] \in {"trim", "direct", "lost"}}

\* How many entries of s are in R.
Among(s, R) == Cardinality({i \in 1 .. Len(s) : s[i] \in R})

PutBack ==
    CASE faults > 0 /\ writer = "sync" -> BatchSize
      [] faults = 0 /\ worker \in {"requeue", "trim"} -> BatchSize - Len(batch)
      [] OTHER -> 0

QueueBounded == Len(queue) <= MaxLen + Among(queue, Untrimmed) + PutBack

\* With a writer that never makes the worker put anything back, the list is in the
\* order of arrival, so trimming cuts the oldest reports and the worker takes the
\* oldest first.
Position(r) == CHOOSE i \in 1 .. Len(arrived) : arrived[i] = r

ListInOrder ==
    LET held == queue \o batch
    IN  writer = "async" => \A i, j \in 1 .. Len(held) : i < j => Position(held[i]) >= Position(held[j])

\* As long as InfluxDB comes back, every report is stored or was trimmed, with a
\* writer that tells a failed write, until Redis fails or the process ends.
EveryReportStored ==
    writer = "sync" =>
        \A r \in Reports :
            pipe[r] = "answered" ~> r \in stored \cup trimmed \/ server # "up" \/ faults > 0

-----------------------------------------------------------------------------
(* What the comments of the source say and the code does not keep.         *)

\* device_data_buffer.go 157: a batch whose write failed is not lost.
FailedWriteKept ==
    faults = 0 => \A r \in Reports : pipe[r] \in {"answered", "direct"} => Accounted(r)

\* device_data_buffer.go 119: the buffer is drained before the process stops, so
\* that a graceful stop loses nothing.
GracefulStopKeeps ==
    server = "exited" => \A r \in Reports :
        pipe[r] = "answered" => r \in Elements(queue) \cup stored \cup trimmed

\* device_data_buffer.go 210: trimming keeps the newest reports.
TrimKeepsNewest ==
    [][\A x \in trimmed' \ trimmed : \A y \in Elements(queue') : Position(x) < Position(y)]_vars

=============================================================================
