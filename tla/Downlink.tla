------------------------------ MODULE Downlink -------------------------------
(***************************************************************************)
(* The downlink of one device (internal/service/downlink_service.go): a    *)
(* command is logged in the database, appended to the device's Redis       *)
(* queue, and pushed over WebSocket and MQTT; the device also fetches the  *)
(* queue by polling and may acknowledge a command.  Queues of different    *)
(* devices share nothing, so one device is modelled.                       *)
(*                                                                         *)
(* Every call to a store is a step of its own, so the handlers of several  *)
(* commands, several polls and acknowledgements interleave.                *)
(***************************************************************************)
EXTENDS Naturals, Sequences, FiniteSets

CONSTANTS Cmds,         \* commands (rows of the message log), each issued once
          Polls,        \* poll requests the device may have in flight (bound)
          MaxLen,       \* cmdQueueMaxLen (200 in the code)
          MaxFaults     \* how many calls may fail, answers be lost or handlers die (bound)

ASSUME DownlinkAssumptions ==
    /\ MaxLen \in Nat \ {0}
    /\ MaxFaults \in Nat

VARIABLES
    log,        \* log[c]   : status of the row of c, "none" before it is created
    queue,      \* the Redis list cmd:queue:<device>
    ttl,        \* whether the key of that list has a time to live
    phase,      \* phase[c] : how far the EnqueueCmd of c is
    poll,       \* poll[p]  : phase of a PollCmd handler
    batch,      \* batch[p] : what the handler took from the queue
    \* What the environment saw; the code does not keep it.
    handed,     \* everything polls took from Redis, in order
    received,   \* commands that reached the device, over any channel
    settled,    \* commands acknowledged when nothing of them was left anywhere
    dropped,    \* commands cut by LTRIM, or gone with the whole list
    earlier,    \* earlier[c] : commands answered before c was issued
    faults      \* failures so far

storeVars == <<log, queue, ttl>>
pollVars == <<poll, batch>>
deviceVars == <<handed, received, settled>>
vars == <<storeVars, phase, pollVars, deviceVars, dropped, earlier, faults>>

Elements(s) == {s[i] : i \in 1 .. Len(s)}

Phases == {"none",      \* not issued
           "push",      \* logged, about to RPUSH
           "repush",    \* about to RPUSH again: the answer to the first was lost
           "trim",      \* about to LTRIM
           "expire",    \* about to EXPIRE
           "live",      \* about to push over WebSocket and MQTT
           "done",      \* the caller was told that the command was issued
           "failed"}    \* the caller was told, or may conclude, that it was not

TypeOK ==
    /\ log \in [Cmds -> {"none", "pending", "sent", "delivered"}]
    /\ queue \in Seq(Cmds)
    /\ ttl \in BOOLEAN
    /\ phase \in [Cmds -> Phases]
    /\ poll \in [Polls -> {"idle", "mark"}]
    /\ batch \in [Polls -> Seq(Cmds)]
    /\ handed \in Seq(Cmds)
    /\ received \in SUBSET Cmds
    /\ settled \in SUBSET Cmds
    /\ dropped \in SUBSET Cmds
    /\ earlier \in [Cmds -> SUBSET Cmds]
    /\ faults \in 0 .. MaxFaults

Init ==
    /\ log = [c \in Cmds |-> "none"]
    /\ queue = << >>
    /\ ttl = FALSE
    /\ phase = [c \in Cmds |-> "none"]
    /\ poll = [p \in Polls |-> "idle"]
    /\ batch = [p \in Polls |-> << >>]
    /\ handed = << >>
    /\ received = {}
    /\ settled = {}
    /\ dropped = {}
    /\ earlier = [c \in Cmds |-> {}]
    /\ faults = 0

\* A call fails, or its answer is lost.
Fault == faults < MaxFaults /\ faults' = faults + 1

-----------------------------------------------------------------------------
(* EnqueueCmd.                                                             *)

Advance(c, from, to) ==
    /\ phase[c] = from
    /\ phase' = [phase EXCEPT ![c] = to]

\* The row is created as pending.
Create(c) ==
    /\ Advance(c, "none", "push")
    /\ log' = [log EXCEPT ![c] = "pending"]
    /\ earlier' = [earlier EXCEPT ![c] = {b \in Cmds : phase[b] = "done"}]
    /\ UNCHANGED <<queue, ttl, pollVars, deviceVars, dropped, faults>>

Push(c) == queue' = Append(queue, c)

\* RPUSH.  The Redis client sends a command again when its answer was lost, so
\* with faults there may be a second entry.
RPush(c) ==
    /\ \/ (Advance(c, "push", "trim") \/ Advance(c, "repush", "trim")) /\ UNCHANGED faults
       \/ Advance(c, "push", "repush") /\ Fault
    /\ Push(c)
    /\ UNCHANGED <<log, ttl, pollVars, deviceVars, dropped, earlier>>

\* How many entries are too many.
Surplus == IF Len(queue) > MaxLen THEN Len(queue) - MaxLen ELSE 0

\* LTRIM to the newest MaxLen entries.
LTrim(c) ==
    /\ Advance(c, "trim", "expire")
    /\ queue' = SubSeq(queue, Surplus + 1, Len(queue))
    /\ dropped' = dropped \cup Elements(SubSeq(queue, 1, Surplus))
    /\ UNCHANGED <<log, ttl, pollVars, deviceVars, earlier, faults>>

\* (Mutant of Expire: left out.)
ExpireNot(c) ==
    /\ Advance(c, "expire", "live")
    /\ UNCHANGED <<storeVars, pollVars, deviceVars, dropped, earlier, faults>>

\* EXPIRE, without effect if a poll has removed the key meanwhile.
Expire(c) ==
    /\ Advance(c, "expire", "live")
    /\ ttl' = (queue # << >>)
    /\ UNCHANGED <<log, queue, pollVars, deviceVars, dropped, earlier, faults>>

\* Pushed over WebSocket and MQTT, which a connected device gets; whether it is
\* connected, and whether MQTT worked, does not change the answer.
PushLive(c) ==
    /\ Advance(c, "live", "done")
    /\ received' \in {received, received \cup {c}}
    /\ UNCHANGED <<storeVars, pollVars, handed, settled, dropped, earlier, faults>>

\* A store refuses, the caller goes away, or the server dies: the handler ends
\* where it is.  What it did before stays.
Fail(c) ==
    /\ Fault
    /\ phase[c] \in {"push", "repush", "trim", "expire", "live"}
    /\ phase' = [phase EXCEPT ![c] = "failed"]
    /\ UNCHANGED <<storeVars, pollVars, deviceVars, dropped, earlier>>

-----------------------------------------------------------------------------
(* PollCmd and AckCmd.                                                     *)

\* (Mutant of Taken: LRANGE 0 0.)
TakenFirst == <<Head(queue)>>

\* LRANGE 0 -1.
Taken == queue

\* (Mutant of DeleteQueue: left out.)
DeleteQueueNot == UNCHANGED <<queue, ttl>>

\* The key is deleted, and its time to live with it.
DeleteQueue == queue' = << >> /\ ttl' = FALSE

\* The script that reads and deletes the list atomically.  A script whose answer
\* was lost is sent again and then finds nothing.
PollTake(p) ==
    /\ poll[p] = "idle"
    /\ queue # << >>
    /\ \/ /\ batch' = [batch EXCEPT ![p] = Taken]
          /\ poll' = [poll EXCEPT ![p] = "mark"]
          /\ UNCHANGED faults
       \/ Fault /\ UNCHANGED pollVars
    /\ DeleteQueue
    /\ handed' = handed \o queue
    /\ UNCHANGED <<log, phase, received, settled, dropped, earlier>>

\* (Mutant of MarkSent: every pending row is marked.)
MarkSentAll(p) == log' = [c \in Cmds |-> IF log[c] = "pending" THEN "sent" ELSE log[c]]

\* MarkSent, whatever the rows say, and the answer to the device.
MarkSent(p) ==
    log' = [c \in Cmds |-> IF c \in Elements(batch[p]) THEN "sent" ELSE log[c]]

PollAnswer(p) ==
    /\ poll[p] = "mark"
    /\ MarkSent(p)
    /\ received' = received \cup Elements(batch[p])
    /\ poll' = [poll EXCEPT ![p] = "idle"]
    /\ batch' = [batch EXCEPT ![p] = << >>]
    /\ UNCHANGED <<queue, ttl, phase, handed, settled, dropped, earlier, faults>>

\* MarkSent fails, or the answer does not reach the device.
PollFails(p) ==
    /\ Fault
    /\ poll[p] = "mark"
    /\ MarkSent(p) \/ UNCHANGED log
    /\ poll' = [poll EXCEPT ![p] = "idle"]
    /\ batch' = [batch EXCEPT ![p] = << >>]
    /\ UNCHANGED <<queue, ttl, phase, deviceVars, dropped, earlier>>

MarkDelivered(c) == log' = [log EXCEPT ![c] = "delivered"]

\* Nothing of a command is left that a poll could still take or mark.
Over(c) ==
    /\ phase[c] \notin {"none", "push", "repush"}
    /\ c \notin Elements(queue)
    /\ \A p \in Polls : c \notin Elements(batch[p])

\* An "ack" or "response" frame of any device: whatever number it carries is
\* marked if there is such a row, fetched or not, acknowledged before or not.
AckCmd(c) ==
    /\ log[c] # "none"
    /\ MarkDelivered(c)
    /\ settled' = IF Over(c) THEN settled \cup {c} ELSE settled
    /\ UNCHANGED <<queue, ttl, phase, pollVars, handed, received, dropped, earlier, faults>>

\* Redis removes a list nobody touched for cmdQueueTTL.
QueueExpires ==
    /\ ttl
    /\ DeleteQueue
    /\ dropped' = dropped \cup Elements(queue)
    /\ UNCHANGED <<log, phase, pollVars, deviceVars, earlier, faults>>

\* The deletion of the device removes its list.
EvictQueue ==
    /\ queue # << >>
    /\ DeleteQueue
    /\ dropped' = dropped \cup Elements(queue)
    /\ UNCHANGED <<log, phase, pollVars, deviceVars, earlier, faults>>

-----------------------------------------------------------------------------
Enqueue(c) == RPush(c) \/ LTrim(c) \/ Expire(c) \/ PushLive(c)

Next ==
    \/ \E c \in Cmds : Create(c) \/ Enqueue(c) \/ Fail(c) \/ AckCmd(c)
    \/ \E p \in Polls : PollTake(p) \/ PollAnswer(p) \/ PollFails(p)
    \/ QueueExpires \/ EvictQueue

Spec == Init /\ [][Next]_vars

\* Handlers run to their end, and the device keeps polling.
FairSpec ==
    /\ Spec
    /\ \A c \in Cmds : WF_vars(Enqueue(c))
    /\ \A p \in Polls : WF_vars(PollAnswer(p))
    /\ WF_vars(\E p \in Polls : PollTake(p))

-----------------------------------------------------------------------------
(* Properties.                                                             *)

\* What has been fetched and what is to be, in order.
Course == handed \o queue

Occurrences(s, c) == {i \in 1 .. Len(s) : s[i] = c}

\* However many polls run at once, no queue entry is handed to two of them: an
\* issued command is fetched at most once, and once more for a lost answer to RPUSH.
FetchedOnce == \A c \in Cmds : Cardinality(Occurrences(Course, c)) <= 1 + faults

\* A command issued after another was answered never gets in front of it, in
\* the queue or in what has been fetched.
NoOvertaking ==
    \A i, j \in 1 .. Len(Course) : i < j => Course[j] \notin earlier[Course[i]]

\* A device that polls gets a caller's commands once each and in order.
FetchedOnceInOrder == FetchedOnce /\ NoOvertaking

\* The list is longer than the limit only by entries whose own handler has not
\* trimmed, or failed before it could.
QueueBounded ==
    Len(queue) <= MaxLen + Len(SelectSeq(queue, LAMBDA c : phase[c] \in {"repush", "trim", "failed"}))

\* A list that holds a command of a handler past EXPIRE has a time to live: the
\* queue of an abandoned device does not stay for ever, however pushes and polls
\* interleaved.
AbandonedExpires == \A c \in Elements(queue) : phase[c] \in {"live", "done"} => ttl

\* Unless a call failed, a command the caller was told of is still to be fetched,
\* or is being fetched, or reached the device, or was dropped: for newer ones, for
\* its age, or with the device.
Pollable(c) ==
    \/ c \in Elements(queue)
    \/ \E p \in Polls : c \in Elements(batch[p])
    \/ c \in received
    \/ c \in dropped

AnsweredIsPollable == faults = 0 => \A c \in Cmds : phase[c] = "done" => Pollable(c)

\* The log follows the queue: a command is called sent only if a poll took it; one
\* that a poll took is not left pending unless a call failed or the poll is still
\* at it; and an acknowledgement that came when nothing of the command was left is
\* never overwritten.  (One that comes earlier may be: MarkSent looks at nothing.)
LogIsEarned ==
    \A c \in Cmds :
        /\ log[c] = "sent" => c \in Elements(handed)
        /\ log[c] = "pending" /\ c \in Elements(handed) =>
               faults > 0 \/ \E p \in Polls : c \in Elements(batch[p])
        /\ c \in settled => log[c] = "delivered"

\* A device that keeps polling gets every issued command that is not dropped,
\* unless a call failed.
IssuedIsFetched ==
    \A c \in Cmds : phase[c] = "done" ~> c \in received \cup dropped \/ faults > 0

-----------------------------------------------------------------------------
(* The inductive invariants: OrderInv behind FetchedOnceInOrder, IInv      *)
(* behind AbandonedExpires, AnsweredIsPollable and LogIsEarned.            *)

\* Only a command whose handler has pushed it is in the list.
QueuedArePushed == \A c \in Elements(queue) : phase[c] \notin {"none", "push"}

\* Without faults a pushed command is accounted for even before it is answered.
PushedIsPollable ==
    faults = 0 =>
        \A c \in Cmds : phase[c] \in {"trim", "expire", "live", "done"} => Pollable(c)

\* A poll only marks what it took, and keeps nothing once it answered.
BatchesAreHanded ==
    \A p \in Polls : /\ Elements(batch[p]) \subseteq Elements(handed)
                     /\ poll[p] = "idle" => batch[p] = << >>

\* A row is created before anything else happens to its command.
RowsAreFirst ==
    \A c \in Cmds :
        (log[c] = "none") <=> (phase[c] = "none")

\* Nothing reaches the device, or a poll, that was not issued.
NothingInvented ==
    /\ \A c \in received : phase[c] # "none"
    /\ \A p \in Polls : \A c \in Elements(batch[p]) : phase[c] # "none"
    /\ \A c \in Elements(handed) : phase[c] # "none"

\* Of a settled command nothing comes back.
SettledIsOver == \A c \in settled : Over(c)

\* What was fetched was pushed too.
CourseIsPushed == \A c \in Elements(Course) : phase[c] \notin {"none", "push"}

\* A handler about to push again has had a failure for the entry that is there.
PushedOnce ==
    \A c \in Cmds : Cardinality(Occurrences(Course, c)) <= IF phase[c] = "repush" THEN faults ELSE 1 + faults

\* A command that was answered is never pushed again.
EarlierAreDone == \A c \in Cmds : \A b \in earlier[c] : phase[b] = "done"

OrderInv == CourseIsPushed /\ PushedOnce /\ EarlierAreDone /\ NoOvertaking

QueueInv ==
    /\ TypeOK
    /\ QueuedArePushed
    /\ AbandonedExpires
    /\ PushedIsPollable
    /\ BatchesAreHanded
    /\ RowsAreFirst
    /\ NothingInvented

LogInv == SettledIsOver /\ LogIsEarned

IInv == QueueInv /\ LogInv

-----------------------------------------------------------------------------
(* What the comments of the source say and the code does not keep.         *)

\* downlink_service.go 140: commands issued while the device is away are fetched
\* by polling later.  A poll that fails after it emptied the list loses them.
AnsweredIsFetchedLater == \A c \in Cmds : phase[c] = "done" => Pollable(c)

\* downlink_service.go 185: an acknowledgement marks the command delivered.  A poll
\* that took it before marks it sent again.
DeliveredStays == [][\A c \in Cmds : log[c] = "delivered" => log'[c] = "delivered"]_vars

=============================================================================
