---------------------------- MODULE DownlinkProofs ---------------------------
(***************************************************************************)
(* No command is forgotten, handed out twice or overtaken, and no queue is *)
(* kept for ever, for any number of commands and polls and any limit of    *)
(* the queue.                                                              *)
(***************************************************************************)
EXTENDS Downlink, FiniteSetTheorems, SequenceTheorems, TLAPS

-----------------------------------------------------------------------------
(* What is in a sequence.                                                  *)

LEMMA ElementsTyped ==
    ASSUME NEW s \in Seq(Cmds) PROVE Elements(s) \subseteq Cmds
BY DEF Elements

LEMMA ElementsOfEmpty == << >> \in Seq(Cmds) /\ Elements(<< >>) = {}
BY DEF Elements

LEMMA ElementsOfAppend ==
    ASSUME NEW s \in Seq(Cmds), NEW c \in Cmds
    PROVE  Append(s, c) \in Seq(Cmds) /\ Elements(Append(s, c)) = Elements(s) \cup {c}
<1>1. Elements(s) \cup {c} \subseteq Elements(Append(s, c))
  <2>1. ASSUME NEW i \in 1 .. Len(s) PROVE s[i] \in Elements(Append(s, c))
    BY DEF Elements
  <2>2. c \in Elements(Append(s, c))
    <3>1. Append(s, c)[Len(s) + 1] = c /\ Len(s) + 1 \in 1 .. Len(Append(s, c))
      OBVIOUS
    <3> QED
      BY <3>1 DEF Elements
  <2> QED
    BY <2>1, <2>2 DEF Elements
<1>2. Elements(Append(s, c)) \subseteq Elements(s) \cup {c}
    BY DEF Elements
<1> QED
    BY <1>1, <1>2

LEMMA ElementsOfConcat ==
    ASSUME NEW s \in Seq(Cmds), NEW t \in Seq(Cmds)
    PROVE  s \o t \in Seq(Cmds) /\ Elements(s \o t) = Elements(s) \cup Elements(t)
<1>1. ASSUME NEW i \in 1 .. Len(s) PROVE s[i] \in Elements(s \o t)
  <2>1. (s \o t)[i] = s[i] /\ i \in 1 .. Len(s \o t)
    OBVIOUS
  <2> QED
    BY <2>1 DEF Elements
<1>2. ASSUME NEW i \in 1 .. Len(t) PROVE t[i] \in Elements(s \o t)
  <2>1. (s \o t)[Len(s) + i] = t[i] /\ Len(s) + i \in 1 .. Len(s \o t)
    OBVIOUS
  <2> QED
    BY <2>1 DEF Elements
<1>3. ASSUME NEW i \in 1 .. Len(s \o t) PROVE (s \o t)[i] \in Elements(s) \cup Elements(t)
  <2>1. CASE i <= Len(s)
    BY <2>1 DEF Elements
  <2>2. CASE i > Len(s)
    <3>1. (s \o t)[i] = t[i - Len(s)] /\ i - Len(s) \in 1 .. Len(t)
      BY <2>2
    <3> QED
      BY <3>1 DEF Elements
  <2> QED
    BY <2>1, <2>2
<1>4. Elements(s) \cup Elements(t) \subseteq Elements(s \o t)
    BY <1>1, <1>2 DEF Elements
<1>5. Elements(s \o t) \subseteq Elements(s) \cup Elements(t)
    BY <1>3 DEF Elements
<1> QED
    BY <1>4, <1>5

\* LTRIM splits the list: what it keeps and what it cuts are all there was.
LEMMA ElementsOfCut ==
    ASSUME NEW s \in Seq(Cmds), NEW n \in 0 .. Len(s)
    PROVE  /\ SubSeq(s, n + 1, Len(s)) \in Seq(Cmds)
           /\ Elements(s) = Elements(SubSeq(s, 1, n)) \cup Elements(SubSeq(s, n + 1, Len(s)))
<1> DEFINE a == SubSeq(s, 1, n)
           b == SubSeq(s, n + 1, Len(s))
<1>1. /\ a \in Seq(Cmds) /\ Len(a) = n /\ \A i \in 1 .. n : a[i] = s[i]
      /\ b \in Seq(Cmds) /\ Len(b) = Len(s) - n /\ \A i \in 1 .. Len(s) - n : b[i] = s[n + i]
    OBVIOUS
<1> HIDE DEF a, b
<1>2. ASSUME NEW i \in 1 .. Len(s) PROVE s[i] \in Elements(a) \cup Elements(b)
  <2>1. CASE i <= n
    BY <1>1, <2>1 DEF Elements
  <2>2. CASE i > n
    <3>1. i - n \in 1 .. Len(b) /\ b[i - n] = s[i]
      BY <1>1, <2>2
    <3> QED
      BY <3>1 DEF Elements
  <2> QED
    BY <2>1, <2>2
<1>3. ASSUME NEW i \in 1 .. Len(a) PROVE a[i] \in Elements(s)
    BY <1>1 DEF Elements
<1>4. ASSUME NEW i \in 1 .. Len(b) PROVE b[i] \in Elements(s)
  <2>1. b[i] = s[n + i] /\ n + i \in 1 .. Len(s)
    BY <1>1
  <2> QED
    BY <2>1 DEF Elements
<1>5. Elements(a) \cup Elements(b) \subseteq Elements(s)
    BY <1>3, <1>4 DEF Elements
<1>6. Elements(s) \subseteq Elements(a) \cup Elements(b)
    BY <1>2 DEF Elements
<1> QED
    BY <1>1, <1>5, <1>6 DEF a, b

-----------------------------------------------------------------------------

LEMMA InitIInv == Init => IInv
<1> SUFFICES ASSUME Init PROVE IInv
    OBVIOUS
<1>1. TypeOK
  <2>1. faults \in 0 .. MaxFaults
    BY DownlinkAssumptions DEF Init
  <2> QED
    BY <2>1, ElementsOfEmpty DEF Init, TypeOK, Phases
<1>2. Elements(queue) = {} /\ \A p \in Polls : Elements(batch[p]) = {}
    BY ElementsOfEmpty DEF Init
<1>3. QueuedArePushed /\ AbandonedExpires /\ BatchesAreHanded
    BY <1>2 DEF Init, QueuedArePushed, AbandonedExpires, BatchesAreHanded
<1>4. PushedIsPollable /\ RowsAreFirst /\ LogIsEarned
    BY DEF Init, PushedIsPollable, RowsAreFirst, LogIsEarned
<1>5. NothingInvented /\ SettledIsOver
    BY <1>2, ElementsOfEmpty DEF Init, NothingInvented, SettledIsOver
<1> QED
    BY <1>1, <1>3, <1>4, <1>5 DEF IInv, QueueInv, LogInv

\* Every step keeps what concerns the queue, action by action.
LEMMA NextQueue == QueueInv /\ [Next]_vars => QueueInv'
<1> SUFFICES ASSUME QueueInv, [Next]_vars PROVE QueueInv'
    OBVIOUS
<1> USE DownlinkAssumptions
    DEF QueueInv, TypeOK, Phases, QueuedArePushed, AbandonedExpires, PushedIsPollable, Pollable,
        BatchesAreHanded, RowsAreFirst, NothingInvented, Advance, Fault, storeVars, pollVars, deviceVars
<1>f. faults' \in 0 .. MaxFaults /\ (faults' = 0 => faults = 0)
    BY DEF Next, vars, Create, Enqueue, RPush, LTrim, Expire, PushLive, Fail, AckCmd,
           PollTake, PollAnswer, PollFails, QueueExpires, EvictQueue
<1>e. /\ Elements(queue) \subseteq Cmds /\ Elements(handed) \subseteq Cmds
      /\ \A p \in Polls : Elements(batch[p]) \subseteq Cmds
    BY ElementsTyped
<1>1. ASSUME NEW c \in Cmds, Create(c) PROVE QueueInv'
    BY <1>1, <1>e DEF Create
<1>2. ASSUME NEW c \in Cmds, RPush(c) PROVE QueueInv'
  <2>1. queue' \in Seq(Cmds) /\ Elements(queue') = Elements(queue) \cup {c}
    BY <1>2, ElementsOfAppend DEF RPush, Push
  <2>2. /\ phase' \in [Cmds -> Phases] /\ phase'[c] \in {"trim", "repush"}
        /\ phase[c] \in {"push", "repush"}
        /\ phase'[c] = "repush" => faults' # 0
        /\ \A b \in Cmds : b # c => phase'[b] = phase[b]
        /\ UNCHANGED <<log, ttl, pollVars, deviceVars, dropped, earlier>>
    <3>1. CASE Advance(c, "push", "repush") /\ Fault
      BY <1>2, <3>1 DEF RPush
    <3>2. CASE (Advance(c, "push", "trim") \/ Advance(c, "repush", "trim")) /\ UNCHANGED faults
      BY <1>2, <3>2 DEF RPush
    <3> QED
      BY <1>2, <3>1, <3>2 DEF RPush
  <2>3. TypeOK' /\ QueuedArePushed' /\ AbandonedExpires'
    BY <1>e, <1>f, <2>1, <2>2
  <2>4. PushedIsPollable'
    BY <1>f, <2>1, <2>2
  <2>5. BatchesAreHanded' /\ NothingInvented'
    BY <1>e, <2>2
  <2>6. RowsAreFirst'
    BY <2>2
  <2> QED
    BY <2>3, <2>4, <2>5, <2>6
<1>3. ASSUME NEW c \in Cmds, LTrim(c) PROVE QueueInv'
  <2>1. Surplus \in 0 .. Len(queue)
    BY DEF Surplus
  <2>2. /\ queue' \in Seq(Cmds)
        /\ dropped' = dropped \cup Elements(SubSeq(queue, 1, Surplus))
        /\ Elements(queue) = Elements(SubSeq(queue, 1, Surplus)) \cup Elements(queue')
    BY <1>3, <2>1, ElementsOfCut DEF LTrim
  <2>3. dropped' \subseteq Cmds /\ dropped \subseteq dropped'
        /\ Elements(queue') \subseteq Elements(queue) /\ Elements(queue) \subseteq Elements(queue') \cup dropped'
    BY <2>2, <1>e
  <2> QED
    BY <1>3, <1>e, <2>2, <2>3 DEF LTrim
<1>4. ASSUME NEW c \in Cmds, Expire(c) PROVE QueueInv'
    BY <1>4, <1>e, ElementsOfEmpty DEF Expire
<1>5. ASSUME NEW c \in Cmds, PushLive(c) PROVE QueueInv'
    BY <1>5, <1>e DEF PushLive
<1>6. ASSUME NEW c \in Cmds, Fail(c) PROVE QueueInv'
    BY <1>6, <1>e DEF Fail
<1>7. ASSUME NEW c \in Cmds, AckCmd(c) PROVE QueueInv'
    BY <1>7, <1>e DEF AckCmd, MarkDelivered
<1>8. ASSUME NEW p \in Polls, PollTake(p) PROVE QueueInv'
  <2>1. handed' \in Seq(Cmds) /\ Elements(handed') = Elements(handed) \cup Elements(queue)
    BY <1>8, ElementsOfConcat DEF PollTake, Taken, DeleteQueue
  <2>2. queue' = << >> /\ queue' \in Seq(Cmds) /\ Elements(queue') = {}
    BY <1>8, ElementsOfEmpty DEF PollTake, Taken, DeleteQueue
  <2>b. batch' = [batch EXCEPT ![p] = queue] \/ batch' = batch
    BY <1>8 DEF PollTake, Taken
  <2>3. \A r \in Polls : Elements(batch'[r]) \subseteq Elements(batch[r]) \cup Elements(queue)
    BY <2>b
  <2>4. faults' = 0 => \A c \in Cmds : Pollable(c) => Pollable(c)'
    <3> SUFFICES ASSUME faults' = 0, NEW c \in Cmds, Pollable(c) PROVE Pollable(c)'
      OBVIOUS
    <3>1. batch'[p] = queue /\ received' = received /\ dropped' = dropped
      BY <1>8 DEF PollTake, Taken, DeleteQueue
    <3>2. \A r \in Polls : r # p => batch'[r] = batch[r]
      BY <1>8 DEF PollTake, Taken, DeleteQueue
    <3>3. batch[p] = << >> /\ Elements(batch[p]) = {}
      BY <1>8, ElementsOfEmpty DEF PollTake, Taken, DeleteQueue
    <3> QED
      BY <3>1, <3>2, <3>3
  <2>5. TypeOK'
    <3>1. poll' \in [Polls -> {"idle", "mark"}] /\ batch' \in [Polls -> Seq(Cmds)]
      <4>1. poll' = [poll EXCEPT ![p] = "mark"] \/ poll' = poll
        BY <1>8 DEF PollTake
      <4>2. poll \in [Polls -> {"idle", "mark"}] /\ batch \in [Polls -> Seq(Cmds)] /\ queue \in Seq(Cmds)
        OBVIOUS
      <4> HIDE DEF QueueInv, TypeOK
      <4>3. poll' \in [Polls -> {"idle", "mark"}]
        BY <4>1, <4>2
      <4>4. batch' \in [Polls -> Seq(Cmds)]
        BY <2>b, <4>2
      <4> QED
        BY <4>3, <4>4
    <3>2. ttl' = FALSE /\ UNCHANGED <<log, phase, received, settled, dropped, earlier>>
      BY <1>8 DEF PollTake, Taken, DeleteQueue
    <3> QED
      BY <1>f, <2>1, <2>2, <3>1, <3>2
  <2>6. UNCHANGED <<log, phase, received, settled, dropped, earlier>>
    BY <1>8 DEF PollTake, Taken, DeleteQueue
  <2>7. BatchesAreHanded'
    <3>1. \A r \in Polls : poll'[r] = "idle" => poll[r] = "idle" /\ batch'[r] = batch[r]
      BY <1>8 DEF PollTake, Taken, DeleteQueue
    <3> QED
      BY <2>1, <2>3, <3>1
  <2>8. PushedIsPollable'
    BY <1>f, <2>1, <2>4, <2>6
  <2>9. QueuedArePushed' /\ AbandonedExpires' /\ RowsAreFirst' /\ NothingInvented'
    BY <1>e, <2>1, <2>2, <2>3, <2>6
  <2> QED
    BY <2>5, <2>7, <2>8, <2>9
<1>9. ASSUME NEW p \in Polls, PollAnswer(p) PROVE QueueInv'
  <2>1. \A r \in Polls : IF r = p THEN Elements(batch'[r]) = {} ELSE batch'[r] = batch[r]
    BY <1>9, ElementsOfEmpty DEF PollAnswer
  <2>2. TypeOK'
    BY <1>9, <1>e DEF PollAnswer, MarkSent
  <2>3. /\ received' = received \cup Elements(batch[p])
        /\ \A c \in Cmds : log'[c] = IF c \in Elements(batch[p]) THEN "sent" ELSE log[c]
        /\ UNCHANGED <<queue, ttl, phase, handed, settled, dropped, earlier>>
    BY <1>9 DEF PollAnswer, MarkSent
  <2>4. PushedIsPollable'
    BY <1>f, <2>1, <2>3
  <2>5. BatchesAreHanded'
    <3>1. batch'[p] = << >> /\ \A r \in Polls : r # p => poll'[r] = poll[r]
      BY <1>9 DEF PollAnswer
    <3> QED
      BY <2>1, <2>3, <3>1
  <2>6. RowsAreFirst' /\ NothingInvented'
    BY <1>9, <2>1, <2>3 DEF PollAnswer
  <2> QED
    BY <2>2, <2>3, <2>4, <2>5, <2>6
<1>10. ASSUME NEW p \in Polls, PollFails(p) PROVE QueueInv'
    BY <1>10, <1>e, ElementsOfEmpty DEF PollFails, MarkSent
<1>11. CASE QueueExpires \/ EvictQueue
  <2>1. /\ queue' = << >> /\ queue' \in Seq(Cmds) /\ Elements(queue') = {} /\ ttl' = FALSE
        /\ dropped' = dropped \cup Elements(queue)
        /\ UNCHANGED <<log, phase, pollVars, deviceVars, earlier>>
    <3>1. CASE QueueExpires
      BY <3>1, ElementsOfEmpty DEF QueueExpires, DeleteQueue
    <3>2. CASE EvictQueue
      BY <3>2, ElementsOfEmpty DEF EvictQueue, DeleteQueue
    <3> QED
      BY <1>11, <3>1, <3>2
  <2>2. TypeOK'
    BY <1>f, <2>1, <1>e
  <2>3. PushedIsPollable'
    BY <1>f, <2>1
  <2> QED
    BY <2>1, <2>2, <2>3
<1>12. CASE UNCHANGED vars
    BY <1>12 DEF vars
<1> HIDE DEF QueueInv
<1> QED
    BY <1>1, <1>2, <1>3, <1>4, <1>5, <1>6, <1>7, <1>8, <1>9, <1>10, <1>11, <1>12 DEF Next, Enqueue

\* Every step keeps what concerns the log: only a push brings a command back, and
\* only the answer of a poll, or an acknowledgement, changes a row that exists.
LEMMA NextLog == QueueInv /\ QueueInv' /\ LogInv /\ [Next]_vars => LogInv'
<1> SUFFICES ASSUME QueueInv, QueueInv', LogInv, [Next]_vars PROVE LogInv'
    OBVIOUS
<1> DEFINE InBatch(c) == \E p \in Polls : c \in Elements(batch[p])
<1>t. /\ log \in [Cmds -> {"none", "pending", "sent", "delivered"}] /\ phase \in [Cmds -> Phases]
      /\ queue \in Seq(Cmds) /\ handed \in Seq(Cmds) /\ queue' \in Seq(Cmds)
      /\ batch \in [Polls -> Seq(Cmds)] /\ poll \in [Polls -> {"idle", "mark"}]
      /\ settled \subseteq Cmds /\ faults \in Nat /\ faults' \in Nat
    BY DownlinkAssumptions DEF QueueInv, TypeOK
<1>a. ASSUME NEW c \in Cmds
      PROVE  /\ log[c] = "none" <=> phase[c] = "none"
             /\ log[c] = "none" => c \notin Elements(handed) /\ ~InBatch(c)
             /\ c \in settled => Over(c) /\ log[c] = "delivered"
             /\ log[c] = "sent" => c \in Elements(handed)
             /\ log[c] = "pending" /\ c \in Elements(handed) => faults > 0 \/ InBatch(c)
             /\ InBatch(c) => c \in Elements(handed)
    BY DEF QueueInv, RowsAreFirst, NothingInvented, BatchesAreHanded, LogInv, SettledIsOver, LogIsEarned
<1>s. SUFFICES ASSUME NEW c \in Cmds
               PROVE  /\ c \in settled' => Over(c)' /\ log'[c] = "delivered"
                      /\ log'[c] = "sent" => c \in Elements(handed')
                      /\ log'[c] = "pending" /\ c \in Elements(handed') => faults' > 0 \/ InBatch(c)'
    BY DEF LogInv, SettledIsOver, LogIsEarned, QueueInv, TypeOK
\* A step that touches no row and no batch, hands nothing over, and pushes c only
\* when it is about to, changes nothing.
<1>q. ASSUME UNCHANGED <<handed, settled, batch>>, faults <= faults',
             log'[c] = log[c] \/ (log[c] = "none" /\ log'[c] = "pending"),
             Over(c) => Over(c)'
      PROVE  /\ c \in settled' => Over(c)' /\ log'[c] = "delivered"
             /\ log'[c] = "sent" => c \in Elements(handed')
             /\ log'[c] = "pending" /\ c \in Elements(handed') => faults' > 0 \/ InBatch(c)'
  <2>1. c \in settled => log[c] = "delivered" /\ Over(c)
    BY <1>a
  <2> QED
    BY <1>q, <1>a, <1>t, <2>1
<1>1. ASSUME NEW b \in Cmds, Create(b) \/ Expire(b) \/ PushLive(b) \/ Fail(b)
      PROVE  /\ c \in settled' => Over(c)' /\ log'[c] = "delivered"
             /\ log'[c] = "sent" => c \in Elements(handed')
             /\ log'[c] = "pending" /\ c \in Elements(handed') => faults' > 0 \/ InBatch(c)'
  <2> USE DEF Advance, Fault, storeVars, pollVars, deviceVars
  <2>1. CASE Create(b)
    <3>1. /\ UNCHANGED <<handed, settled, batch, queue, faults>>
          /\ phase[b] = "none" /\ phase' = [phase EXCEPT ![b] = "push"] /\ log' = [log EXCEPT ![b] = "pending"]
      BY <2>1 DEF Create
    <3>2. log'[c] = log[c] \/ (log[c] = "none" /\ log'[c] = "pending")
      <4>1. log[b] = "none"
        BY <3>1 DEF QueueInv, RowsAreFirst
      <4> QED
        BY <1>t, <3>1, <4>1
    <3>3. Over(c) => Over(c)'
      BY <1>t, <3>1 DEF Over
    <3> QED
      BY <1>q, <1>t, <3>1, <3>2, <3>3
  <2>2. CASE Expire(b) \/ PushLive(b) \/ Fail(b)
    <3>1. /\ UNCHANGED <<handed, settled, batch, queue, log>> /\ faults <= faults'
          /\ phase' = [phase EXCEPT ![b] = phase'[b]] /\ phase'[b] \in {"live", "done", "failed"}
      <4>1. CASE Expire(b)
        BY <1>t, <4>1 DEF Expire
      <4>2. CASE PushLive(b)
        BY <1>t, <4>2 DEF PushLive
      <4>3. CASE Fail(b)
        BY <1>t, <4>3 DEF Fail
      <4> QED
        BY <2>2, <4>1, <4>2, <4>3
    <3>2. Over(c) => Over(c)'
      BY <1>t, <3>1 DEF Over
    <3> QED
      <4>1. log'[c] = log[c]
        BY <3>1
      <4> QED
        BY <1>q, <3>1, <3>2, <4>1
  <2> QED
    BY <1>1, <2>1, <2>2
<1>2. ASSUME NEW b \in Cmds, RPush(b) \/ LTrim(b)
      PROVE  /\ c \in settled' => Over(c)' /\ log'[c] = "delivered"
             /\ log'[c] = "sent" => c \in Elements(handed')
             /\ log'[c] = "pending" /\ c \in Elements(handed') => faults' > 0 \/ InBatch(c)'
  <2>1. UNCHANGED <<handed, settled, batch, log>> /\ faults <= faults'
    BY <1>2, <1>t DEF RPush, LTrim, Fault, pollVars, deviceVars
  <2>2. CASE RPush(b)
    <3>1. Elements(queue') = Elements(queue) \cup {b}
      BY <1>t, <2>2, ElementsOfAppend DEF RPush, Push
    <3>2. /\ phase[b] \in {"push", "repush"} /\ \A d \in Cmds : d # b => phase'[d] = phase[d]
      <4>1. CASE Advance(b, "push", "repush")
        BY <1>t, <4>1 DEF Advance
      <4>2. CASE Advance(b, "push", "trim")
        BY <1>t, <4>2 DEF Advance
      <4>3. CASE Advance(b, "repush", "trim")
        BY <1>t, <4>3 DEF Advance
      <4> QED
        BY <2>2, <4>1, <4>2, <4>3 DEF RPush
    <3>3. Over(c) => Over(c)'
      BY <2>1, <3>1, <3>2 DEF Over
    <3> QED
      <4>1. log'[c] = log[c]
        BY <2>1
      <4> QED
        BY <1>q, <2>1, <3>3, <4>1
  <2>3. CASE LTrim(b)
    <3>1. Elements(queue') \subseteq Elements(queue)
      <4>1. Surplus \in 0 .. Len(queue)
        BY <1>t, DownlinkAssumptions DEF Surplus
      <4> QED
        BY <1>t, <2>3, <4>1, ElementsOfCut DEF LTrim
    <3>2. phase' = [phase EXCEPT ![b] = "expire"]
      BY <2>3 DEF LTrim, Advance
    <3>3. Over(c) => Over(c)'
      BY <1>t, <2>1, <3>1, <3>2 DEF Over
    <3> QED
      <4>1. log'[c] = log[c]
        BY <2>1
      <4> QED
        BY <1>q, <2>1, <3>3, <4>1
  <2> QED
    BY <1>2, <2>2, <2>3
<1>3. ASSUME NEW b \in Cmds, AckCmd(b)
      PROVE  /\ c \in settled' => Over(c)' /\ log'[c] = "delivered"
             /\ log'[c] = "sent" => c \in Elements(handed')
             /\ log'[c] = "pending" /\ c \in Elements(handed') => faults' > 0 \/ InBatch(c)'
  <2>1. /\ log' = [log EXCEPT ![b] = "delivered"]
        /\ settled' = IF Over(b) THEN settled \cup {b} ELSE settled
        /\ UNCHANGED <<queue, phase, batch, handed, faults>>
    BY <1>3 DEF AckCmd, MarkDelivered, pollVars
  <2>2. Over(c)' <=> Over(c)
    BY <2>1 DEF Over
  <2>3. log'[c] = log[c] \/ log'[c] = "delivered"
    BY <1>t, <2>1
  <2>4. c = b => log'[c] = "delivered"
    BY <1>t, <2>1
  <2>5. c \in settled' => c \in settled \/ (c = b /\ Over(b))
    BY <2>1
  <2> QED
    BY <1>a, <2>1, <2>2, <2>3, <2>4, <2>5
<1>4. ASSUME NEW p \in Polls, PollTake(p)
      PROVE  /\ c \in settled' => Over(c)' /\ log'[c] = "delivered"
             /\ log'[c] = "sent" => c \in Elements(handed')
             /\ log'[c] = "pending" /\ c \in Elements(handed') => faults' > 0 \/ InBatch(c)'
  <2>1. /\ UNCHANGED <<log, settled, phase>> /\ queue' = << >>
        /\ Elements(handed') = Elements(handed) \cup Elements(queue)
        /\ Elements(queue') = {}
    BY <1>t, <1>4, ElementsOfConcat, ElementsOfEmpty DEF PollTake, DeleteQueue
  <2>2. /\ batch' = [batch EXCEPT ![p] = queue] \/ batch' = batch
        /\ faults <= faults' /\ (batch' = batch => faults' > 0)
        /\ Elements(batch[p]) = {}
    <3>1. batch[p] = << >>
      BY <1>4 DEF PollTake, QueueInv, BatchesAreHanded
    <3>2. Elements(batch[p]) = {}
      BY <3>1, ElementsOfEmpty
    <3>3. CASE batch' = [batch EXCEPT ![p] = queue] /\ UNCHANGED faults
      <4>1. batch' # batch
        BY <1>t, <1>4, <3>1, <3>3 DEF PollTake
      <4> QED
        BY <1>t, <3>2, <3>3, <4>1
    <3>4. CASE Fault /\ UNCHANGED pollVars
      BY <1>t, <3>2, <3>4 DEF Fault, pollVars
    <3> QED
      BY <1>4, <3>3, <3>4 DEF PollTake, Taken
  <2>3. ASSUME NEW r \in Polls
        PROVE  /\ Elements(batch[r]) \subseteq Elements(batch'[r])
               /\ Elements(batch'[r]) \subseteq Elements(batch[r]) \cup Elements(queue)
    BY <1>t, <2>2
  <2>4. Over(c) => Over(c)'
    BY <2>1, <2>3 DEF Over
  <2>5. InBatch(c) => InBatch(c)'
    BY <2>3
  <2>6. c \in Elements(queue) => faults' > 0 \/ InBatch(c)'
    <3>1. batch' = [batch EXCEPT ![p] = queue] => batch'[p] = queue
      BY <1>t
    <3> QED
      BY <2>2, <3>1
  <2>7. faults > 0 => faults' > 0
    BY <1>t, <2>2
  <2> QED
    BY <1>a, <2>1, <2>4, <2>5, <2>6, <2>7
<1>5. ASSUME NEW p \in Polls, PollAnswer(p) \/ PollFails(p)
      PROVE  /\ c \in settled' => Over(c)' /\ log'[c] = "delivered"
             /\ log'[c] = "sent" => c \in Elements(handed')
             /\ log'[c] = "pending" /\ c \in Elements(handed') => faults' > 0 \/ InBatch(c)'
  <2>1. /\ UNCHANGED <<queue, phase, handed, settled>> /\ faults <= faults'
        /\ batch' = [batch EXCEPT ![p] = << >>]
        /\ \/ log'[c] = IF c \in Elements(batch[p]) THEN "sent" ELSE log[c]
           \/ log'[c] = log[c] /\ faults' > 0
    <3>1. CASE PollAnswer(p)
      BY <1>t, <3>1 DEF PollAnswer, MarkSent
    <3>2. CASE PollFails(p)
      BY <1>t, <3>2 DEF PollFails, MarkSent, Fault, deviceVars
    <3> QED
      BY <1>5, <3>1, <3>2
  <2>2. ASSUME NEW r \in Polls
        PROVE  Elements(batch'[r]) = IF r = p THEN {} ELSE Elements(batch[r])
    BY <1>t, <2>1, ElementsOfEmpty
  <2>3. Over(c) => Over(c)'
    BY <2>1, <2>2 DEF Over
  <2>4. InBatch(c) => InBatch(c)' \/ c \in Elements(batch[p])
    BY <2>2
  <2>5. c \in settled => c \notin Elements(batch[p])
    BY <1>a DEF Over
  <2>6. faults > 0 => faults' > 0
    BY <1>t, <2>1
  <2>7. c \in Elements(batch[p]) => c \in Elements(handed)
    BY <1>a
  <2> QED
    BY <1>a, <2>1, <2>3, <2>4, <2>5, <2>6, <2>7
<1>6. CASE QueueExpires \/ EvictQueue \/ UNCHANGED vars
  <2>1. UNCHANGED <<handed, settled, batch, log, phase, faults>> /\ Elements(queue') \subseteq Elements(queue)
    BY <1>6, ElementsOfEmpty DEF QueueExpires, EvictQueue, DeleteQueue, vars, storeVars, pollVars, deviceVars
  <2>2. Over(c) => Over(c)'
    BY <2>1 DEF Over
  <2> QED
    <3>1. log'[c] = log[c] /\ faults <= faults'
      BY <1>t, <2>1
    <3> QED
      BY <1>q, <2>1, <2>2, <3>1
<1> HIDE DEF InBatch
<1> QED
    BY <1>1, <1>2, <1>3, <1>4, <1>5, <1>6 DEF Next, Enqueue

\* Every step keeps the invariant.
LEMMA NextIInv == IInv /\ [Next]_vars => IInv'
<1>1. IInv /\ [Next]_vars => QueueInv'
    BY NextQueue DEF IInv
<1> QED
    BY <1>1, NextLog DEF IInv

\* The invariant holds in every reachable state.
THEOREM Invariance == Spec => []IInv
BY InitIInv, NextIInv, PTL DEF Spec

\* The state is well typed in every reachable state.
THEOREM TypeCorrect == Spec => []TypeOK
<1>1. IInv => TypeOK
    BY DEF IInv, QueueInv, LogInv
<1> QED
    BY Invariance, <1>1, PTL

\* The queue of an abandoned device expires.
THEOREM NoQueueForEver == Spec => []AbandonedExpires
<1>1. IInv => AbandonedExpires
    BY DEF IInv, QueueInv, LogInv
<1> QED
    BY Invariance, <1>1, PTL

\* As long as no store fails, no issued command is forgotten: it is in the
\* queue, with a poll, with the device, or was dropped on purpose.
THEOREM NoCommandForgotten == Spec => []AnsweredIsPollable
<1>1. IInv => AnsweredIsPollable
    BY DEF IInv, QueueInv, LogInv, PushedIsPollable, AnsweredIsPollable
<1> QED
    BY Invariance, <1>1, PTL

\* The log says sent only of what a poll took, pending of nothing a poll took and
\* answered, and delivered for ever of what was acknowledged when it was over.
THEOREM LogIsTrue == Spec => []LogIsEarned
<1>1. IInv => LogIsEarned
    BY DEF IInv, QueueInv, LogInv
<1> QED
    BY Invariance, <1>1, PTL

-----------------------------------------------------------------------------
(* The order of what is fetched.                                           *)

\* What a list has of a command, and what one more entry adds to it.
LEMMA OccurrencesOfAppend ==
    ASSUME NEW s \in Seq(Cmds), NEW c \in Cmds, NEW b \in Cmds
    PROVE  /\ IsFiniteSet(Occurrences(s, b)) /\ Cardinality(Occurrences(s, b)) \in Nat
           /\ Cardinality(Occurrences(Append(s, c), b)) =
                  Cardinality(Occurrences(s, b)) + IF b = c THEN 1 ELSE 0
<1>1. Len(s) \in Nat /\ Len(Append(s, c)) = Len(s) + 1
    OBVIOUS
<1>2. \A i \in 1 .. Len(s) : Append(s, c)[i] = s[i]
    OBVIOUS
<1>3. Append(s, c)[Len(s) + 1] = c
    OBVIOUS
<1>4. IsFiniteSet(Occurrences(s, b)) /\ Cardinality(Occurrences(s, b)) \in Nat
  <2>1. IsFiniteSet(1 .. Len(s))
    BY <1>1, FS_Interval
  <2>2. Occurrences(s, b) \in SUBSET (1 .. Len(s))
    BY DEF Occurrences
  <2> QED
    BY <2>1, <2>2, FS_Subset, FS_CardinalityType
<1>5. Occurrences(Append(s, c), b) =
          IF b = c THEN Occurrences(s, b) \cup {Len(s) + 1} ELSE Occurrences(s, b)
  <2>1. 1 .. Len(s) + 1 = (1 .. Len(s)) \cup {Len(s) + 1} /\ Len(s) + 1 \notin 1 .. Len(s)
    BY <1>1
  <2> QED
    BY <1>1, <1>2, <1>3, <2>1 DEF Occurrences
<1>6. Len(s) + 1 \notin Occurrences(s, b)
    BY <1>1 DEF Occurrences
<1>7. Cardinality(Occurrences(s, b) \cup {Len(s) + 1}) = Cardinality(Occurrences(s, b)) + 1
    BY <1>4, <1>6, FS_AddElement
<1> QED
    BY <1>4, <1>5, <1>7

\* What is left of s when entries are taken out of it: t.
Thinner(t, s) ==
    \E shift \in [1 .. Len(t) -> 1 .. Len(s)] :
        \A i \in 1 .. Len(t) :
            t[i] = s[shift[i]] /\ \A j \in 1 .. Len(t) : i < j => shift[i] < shift[j]

LEMMA ThinnerSelf == ASSUME NEW s \in Seq(Cmds) PROVE Thinner(s, s)
<1>1. [i \in 1 .. Len(s) |-> i] \in [1 .. Len(s) -> 1 .. Len(s)]
    OBVIOUS
<1> QED
    BY <1>1 DEF Thinner

\* Cutting the head of the queue off takes a piece out of the course.
LEMMA CourseOfCut ==
    ASSUME NEW h \in Seq(Cmds), NEW q \in Seq(Cmds), NEW r \in Seq(Cmds), NEW n \in 0 .. Len(q),
           Len(r) = Len(q) - n, \A i \in 1 .. Len(r) : r[i] = q[n + i]
    PROVE  Thinner(h \o r, h \o q)
<1> DEFINE s == h \o q
           t == h \o r
           shift == [i \in 1 .. Len(t) |-> IF i <= Len(h) THEN i ELSE i + n]
<1>1. Len(s) = Len(h) + Len(q) /\ Len(t) = Len(h) + Len(r)
    BY ConcatProperties
<1>2. /\ Len(h) \in Nat /\ Len(q) \in Nat /\ n \in Nat /\ n <= Len(q)
      /\ Len(s) = Len(h) + Len(q) /\ Len(t) = Len(h) + Len(q) - n
    BY <1>1
<1>3. /\ \A i \in 1 .. Len(h) : s[i] = h[i] /\ t[i] = h[i]
      /\ \A i \in 1 .. Len(q) : s[Len(h) + i] = q[i]
      /\ \A i \in 1 .. Len(r) : t[Len(h) + i] = r[i]
    OBVIOUS
<1> HIDE DEF s, t
<1>4. \A i \in 1 .. Len(t) : shift[i] \in 1 .. Len(s) /\ shift[i] = IF i <= Len(h) THEN i ELSE i + n
    BY <1>2
<1>5. ASSUME NEW i \in 1 .. Len(t) PROVE t[i] = s[shift[i]]
  <2>1. CASE i <= Len(h)
    BY <1>2, <1>3, <1>4, <2>1
  <2>2. CASE i > Len(h)
    <3>1. i - Len(h) \in 1 .. Len(r) /\ n + (i - Len(h)) \in 1 .. Len(q)
      BY <1>1, <1>2, <2>2
    <3>2. t[i] = r[i - Len(h)] /\ r[i - Len(h)] = q[n + (i - Len(h))]
      <4>1. Len(h) + (i - Len(h)) = i
        BY <1>2
      <4> QED
        BY <1>1, <1>3, <3>1, <4>1
    <3>3. s[i + n] = q[n + (i - Len(h))]
      <4>1. Len(h) + (n + (i - Len(h))) = i + n
        BY <1>2
      <4> QED
        BY <1>3, <3>1, <4>1
    <3> QED
      BY <1>2, <1>4, <2>2, <3>2, <3>3
  <2> QED
    BY <1>2, <2>1, <2>2
<1>6. ASSUME NEW i \in 1 .. Len(t), NEW j \in 1 .. Len(t), i < j PROVE shift[i] < shift[j]
    BY <1>2, <1>4, <1>6
<1>7. shift \in [1 .. Len(t) -> 1 .. Len(s)]
    BY <1>4
<1> HIDE DEF shift
<1>8. \E f \in [1 .. Len(t) -> 1 .. Len(s)] :
          \A i \in 1 .. Len(t) : t[i] = s[f[i]] /\ \A j \in 1 .. Len(t) : i < j => f[i] < f[j]
    BY <1>5, <1>6, <1>7
<1> QED
    BY <1>8 DEF s, t, Thinner

\* It has no more of any command, and nothing new.
LEMMA ThinnerHasNoMore ==
    ASSUME NEW s \in Seq(Cmds), NEW t \in Seq(Cmds), Thinner(t, s)
    PROVE  /\ \A c \in Cmds : Cardinality(Occurrences(t, c)) <= Cardinality(Occurrences(s, c))
           /\ Elements(t) \subseteq Elements(s)
<1>0. PICK shift \in [1 .. Len(t) -> 1 .. Len(s)] :
          \A i \in 1 .. Len(t) :
              t[i] = s[shift[i]] /\ \A j \in 1 .. Len(t) : i < j => shift[i] < shift[j]
    BY DEF Thinner
<1>1. ASSUME NEW c \in Cmds
      PROVE  Cardinality(Occurrences(t, c)) <= Cardinality(Occurrences(s, c))
  <2> DEFINE f == [i \in Occurrences(t, c) |-> shift[i]]
  <2>1. f \in [Occurrences(t, c) -> Occurrences(s, c)]
    BY <1>0 DEF Occurrences
  <2>2. \A i, j \in Occurrences(t, c) : f[i] = f[j] => i = j
    <3>1. \A i, j \in 1 .. Len(t) : i # j => shift[i] # shift[j]
      <4>1. \A i \in 1 .. Len(t) : shift[i] \in Nat
        OBVIOUS
      <4>2. \A i, j \in 1 .. Len(t) : i # j => i < j \/ j < i
        OBVIOUS
      <4> QED
        BY <1>0, <4>1, <4>2
    <3> QED
      BY <3>1 DEF Occurrences
  <2>3. f \in Injection(Occurrences(t, c), Occurrences(s, c))
    BY <2>1, <2>2 DEF Injection, IsInjective
  <2>4. IsFiniteSet(Occurrences(s, c))
    BY OccurrencesOfAppend
  <2> QED
    BY <2>3, <2>4, FS_Injection
<1>2. Elements(t) \subseteq Elements(s)
    BY <1>0 DEF Elements
<1> QED
    BY <1>1, <1>2

LEMMA CourseTyped ==
    ASSUME TypeOK, TypeOK'
    PROVE  /\ Course \in Seq(Cmds) /\ Elements(Course) \subseteq Cmds
           /\ Course' \in Seq(Cmds) /\ Elements(Course') \subseteq Cmds
<1>1. Course \in Seq(Cmds) /\ Course' \in Seq(Cmds)
    BY DEF TypeOK, Course
<1> QED
    BY <1>1, ElementsTyped

\* A step that adds nothing to the course and starts no handler keeps the order.
LEMMA OrderKept ==
    ASSUME TypeOK, TypeOK', OrderInv, Thinner(Course', Course),
           faults <= faults', earlier' = earlier,
           \A c \in Cmds : \/ phase'[c] = phase[c]
                           \/ phase[c] # "done" /\ phase'[c] \notin {"none", "push", "repush"}
    PROVE  OrderInv'
<1>0. /\ Course \in Seq(Cmds) /\ Elements(Course) \subseteq Cmds
      /\ Course' \in Seq(Cmds) /\ Elements(Course') \subseteq Cmds
    BY CourseTyped
<1>1. /\ \A c \in Cmds : Cardinality(Occurrences(Course', c)) <= Cardinality(Occurrences(Course, c))
      /\ Elements(Course') \subseteq Elements(Course)
    BY <1>0, ThinnerHasNoMore
<1>2. CourseIsPushed'
    BY <1>0, <1>1 DEF OrderInv, CourseIsPushed, Elements
<1>3. PushedOnce'
  <2> SUFFICES ASSUME NEW c \in Cmds
               PROVE  Cardinality(Occurrences(Course', c)) <=
                          IF phase'[c] = "repush" THEN faults' ELSE 1 + faults'
    BY DEF PushedOnce, Occurrences
  <2>1. Cardinality(Occurrences(Course', c)) \in Nat /\ Cardinality(Occurrences(Course, c)) \in Nat
    BY <1>0, OccurrencesOfAppend
  <2>2. Cardinality(Occurrences(Course, c)) <= IF phase[c] = "repush" THEN faults ELSE 1 + faults
    BY DEF OrderInv, PushedOnce
  <2>3. faults \in Nat /\ faults' \in Nat
    BY DownlinkAssumptions DEF TypeOK
  <2> QED
    BY <1>1, <2>1, <2>2, <2>3
<1>4. EarlierAreDone'
    BY DEF OrderInv, EarlierAreDone, TypeOK
<1>5. NoOvertaking'
  <2>1. PICK shift \in [1 .. Len(Course') -> 1 .. Len(Course)] :
            \A i \in 1 .. Len(Course') :
                /\ Course'[i] = Course[shift[i]]
                /\ \A j \in 1 .. Len(Course') : i < j => shift[i] < shift[j]
    BY DEF Thinner
  <2> QED
    BY <2>1 DEF OrderInv, NoOvertaking
<1> QED
    BY <1>2, <1>3, <1>4, <1>5 DEF OrderInv

LEMMA InitOrder == Init => OrderInv
<1> SUFFICES ASSUME Init PROVE OrderInv
    OBVIOUS
<1>1. Course = << >> /\ Len(Course) = 0
    BY DEF Init, Course
<1>2. Elements(Course) = {} /\ \A c \in Cmds : Occurrences(Course, c) = {}
    BY <1>1 DEF Elements, Occurrences
<1>3. PushedOnce
  <2>1. \A c \in Cmds : Cardinality(Occurrences(Course, c)) = 0
    BY <1>2, FS_EmptySet
  <2>2. faults = 0 /\ \A c \in Cmds : phase[c] = "none"
    BY DEF Init
  <2> QED
    BY <2>1, <2>2 DEF PushedOnce
<1>4. CourseIsPushed /\ EarlierAreDone /\ NoOvertaking
    BY <1>1, <1>2 DEF Init, CourseIsPushed, EarlierAreDone, NoOvertaking
<1> QED
    BY <1>3, <1>4 DEF OrderInv

\* A row is created: what was answered before it is fixed, and it is not in the course.
LEMMA CreateOrder ==
    ASSUME IInv, TypeOK', OrderInv, NEW c \in Cmds, Create(c) PROVE OrderInv'
<1> USE DEF Create, Advance, deviceVars
<1>0. Course \in Seq(Cmds) /\ Elements(Course) \subseteq Cmds /\ Course' = Course
    BY CourseTyped DEF IInv, QueueInv, LogInv, Course
<1>1. /\ phase \in [Cmds -> Phases] /\ phase[c] = "none" /\ phase' = [phase EXCEPT ![c] = "push"]
      /\ earlier' = [earlier EXCEPT ![c] = {b \in Cmds : phase[b] = "done"}]
      /\ earlier \in [Cmds -> SUBSET Cmds] /\ faults' = faults
    BY DEF IInv, QueueInv, LogInv, TypeOK
<1>2. c \notin Elements(Course)
    BY <1>1 DEF OrderInv, CourseIsPushed
<1>3. CourseIsPushed' /\ PushedOnce'
    BY <1>0, <1>1, <1>2 DEF OrderInv, CourseIsPushed, PushedOnce, Elements, Occurrences
<1>4. EarlierAreDone'
    BY <1>1 DEF OrderInv, EarlierAreDone
<1>5. NoOvertaking'
  <2> SUFFICES ASSUME NEW i \in 1 .. Len(Course), NEW j \in 1 .. Len(Course), i < j
               PROVE  Course[j] \notin earlier'[Course[i]]
    BY <1>0 DEF NoOvertaking
  <2>1. Course[i] # c /\ Course[i] \in Cmds
    BY <1>0, <1>2 DEF Elements
  <2> QED
    BY <1>1, <2>1 DEF OrderInv, NoOvertaking
<1> QED
    BY <1>3, <1>4, <1>5 DEF OrderInv

\* A command is pushed: behind all others, and none of those was issued after it.
LEMMA RPushOrder ==
    ASSUME IInv, TypeOK', OrderInv, NEW c \in Cmds, RPush(c) PROVE OrderInv'
<1>0. /\ handed \in Seq(Cmds) /\ queue \in Seq(Cmds) /\ faults \in Nat /\ faults' \in Nat
      /\ phase \in [Cmds -> Phases] /\ earlier \in [Cmds -> SUBSET Cmds]
    BY DownlinkAssumptions DEF IInv, QueueInv, LogInv, TypeOK
<1>1. Course \in Seq(Cmds) /\ Elements(Course) \subseteq Cmds
    BY CourseTyped DEF IInv, QueueInv, LogInv
<1>2. queue' = Append(queue, c) /\ handed' = handed /\ earlier' = earlier
    BY DEF RPush, Push, deviceVars
<1>3. Course' = Append(Course, c)
    BY <1>0, <1>2 DEF Course
<1>4. /\ phase[c] \in {"push", "repush"} /\ phase'[c] \in {"trim", "repush"}
      /\ \A b \in Cmds : b # c => phase'[b] = phase[b]
      /\ faults <= faults'
      /\ phase'[c] = "repush" => phase[c] = "push" /\ faults' = faults + 1
  <2>1. CASE Advance(c, "push", "repush") /\ Fault
    BY <1>0, <2>1 DEF Advance, Fault
  <2>2. CASE (Advance(c, "push", "trim") \/ Advance(c, "repush", "trim")) /\ UNCHANGED faults
    BY <1>0, <2>2 DEF Advance
  <2> QED
    BY <2>1, <2>2 DEF RPush
<1>5. CourseIsPushed'
  <2>1. Elements(Course') = Elements(Course) \cup {c}
    BY <1>1, <1>3, ElementsOfAppend
  <2> QED
    BY <1>1, <1>4, <2>1 DEF OrderInv, CourseIsPushed
<1>6. PushedOnce'
  <2> SUFFICES ASSUME NEW b \in Cmds
               PROVE  Cardinality(Occurrences(Course', b)) <=
                          IF phase'[b] = "repush" THEN faults' ELSE 1 + faults'
    BY DEF PushedOnce
  <2>1. /\ Cardinality(Occurrences(Course, b)) \in Nat
        /\ Cardinality(Occurrences(Course', b)) =
               Cardinality(Occurrences(Course, b)) + IF b = c THEN 1 ELSE 0
    BY <1>1, <1>3, OccurrencesOfAppend
  <2>2. Cardinality(Occurrences(Course, b)) <= IF phase[b] = "repush" THEN faults ELSE 1 + faults
    BY DEF OrderInv, PushedOnce
  <2>3. phase[b] = "push" => Cardinality(Occurrences(Course, b)) = 0
    <3>1. phase[b] = "push" => Occurrences(Course, b) = {}
      BY DEF OrderInv, CourseIsPushed, Occurrences, Elements
    <3> QED
      BY <3>1, FS_EmptySet
  <2>4. CASE b # c
    BY <1>0, <1>4, <2>1, <2>2, <2>4
  <2>5. CASE b = c
    BY <1>0, <1>4, <2>1, <2>2, <2>3, <2>5
  <2> QED
    BY <2>4, <2>5
<1>7. EarlierAreDone'
    BY <1>0, <1>2, <1>4 DEF OrderInv, EarlierAreDone
<1>8. NoOvertaking'
  <2> SUFFICES ASSUME NEW i \in 1 .. Len(Course'), NEW j \in 1 .. Len(Course'), i < j
               PROVE  Course'[j] \notin earlier[Course'[i]]
    BY <1>2 DEF NoOvertaking
  <2>1. Len(Course) \in Nat /\ Len(Course') = Len(Course) + 1 /\ Course'[Len(Course) + 1] = c
        /\ \A k \in 1 .. Len(Course) : Course'[k] = Course[k]
    BY <1>1, <1>3
  <2>2. i \in 1 .. Len(Course) /\ Course'[i] = Course[i] /\ Course[i] \in Cmds
    BY <1>1, <2>1
  <2>3. CASE j <= Len(Course)
    BY <2>1, <2>2, <2>3 DEF OrderInv, NoOvertaking
  <2>4. CASE j > Len(Course)
    <3>1. Course'[j] = c
      <4>1. j = Len(Course) + 1
        BY <2>1, <2>4
      <4> QED
        BY <2>1, <4>1
    <3> QED
      BY <1>4, <2>2, <3>1 DEF OrderInv, EarlierAreDone
  <2> QED
    BY <2>1, <2>3, <2>4
<1> QED
    BY <1>5, <1>6, <1>7, <1>8 DEF OrderInv

\* Every step keeps the order, action by action.
LEMMA NextOrder == IInv /\ IInv' /\ OrderInv /\ [Next]_vars => OrderInv'
<1> SUFFICES ASSUME IInv, IInv', OrderInv, [Next]_vars PROVE OrderInv'
    OBVIOUS
<1>t. TypeOK /\ TypeOK'
    BY DEF IInv, QueueInv, LogInv
<1>0. /\ handed \in Seq(Cmds) /\ queue \in Seq(Cmds) /\ faults \in Nat /\ faults' \in Nat
      /\ phase \in [Cmds -> Phases] /\ earlier \in [Cmds -> SUBSET Cmds]
    BY <1>t, DownlinkAssumptions DEF TypeOK
<1>c. Course' = Course => Thinner(Course', Course)
    BY <1>t, CourseTyped, ThinnerSelf
<1>n. handed' = handed /\ queue' = << >> => Thinner(Course', Course)
  <2> SUFFICES ASSUME handed' = handed, queue' = << >> PROVE Thinner(Course', Course)
    OBVIOUS
  <2>1. << >> \in Seq(Cmds) /\ Len(queue) \in 0 .. Len(queue) /\ Len(<< >>) = Len(queue) - Len(queue)
    BY <1>0
  <2>2. \A i \in 1 .. Len(<< >>) : << >>[i] = queue[Len(queue) + i]
    OBVIOUS
  <2> QED
    BY <1>0, <2>1, <2>2, CourseOfCut DEF Course
<1>1. ASSUME NEW c \in Cmds, Create(c) PROVE OrderInv'
    BY <1>t, <1>1, CreateOrder
<1>2. ASSUME NEW c \in Cmds, RPush(c) PROVE OrderInv'
    BY <1>t, <1>2, RPushOrder
<1>3. ASSUME NEW c \in Cmds, LTrim(c) PROVE OrderInv'
  <2>1. Surplus \in 0 .. Len(queue)
    BY <1>0, DownlinkAssumptions DEF Surplus
  <2>2. queue' = SubSeq(queue, Surplus + 1, Len(queue)) /\ handed' = handed
    BY <1>3 DEF LTrim, deviceVars
  <2>3. queue' \in Seq(Cmds) /\ Len(queue') = Len(queue) - Surplus
    BY <1>0, <2>1, <2>2
  <2>4. \A i \in 1 .. Len(queue') : queue'[i] = queue[Surplus + i]
    BY <1>0, <2>1, <2>2, <2>3
  <2>5. Thinner(Course', Course)
    BY <1>0, <2>1, <2>2, <2>3, <2>4, CourseOfCut DEF Course
  <2> QED
    BY <1>t, <1>0, <1>3, <2>5, OrderKept DEF LTrim, Advance
<1>4. ASSUME NEW c \in Cmds, Expire(c) \/ PushLive(c) \/ Fail(c) PROVE OrderInv'
  <2>1. /\ Course' = Course /\ faults <= faults' /\ earlier' = earlier
        /\ phase[c] # "done" /\ phase'[c] \notin {"none", "push", "repush"}
        /\ \A b \in Cmds : b # c => phase'[b] = phase[b]
    <3>1. CASE Expire(c)
      BY <1>0, <3>1 DEF Expire, Advance, storeVars, deviceVars, Course
    <3>2. CASE PushLive(c)
      BY <1>0, <3>2 DEF PushLive, Advance, storeVars, deviceVars, Course
    <3>3. CASE Fail(c)
      BY <1>0, <3>3 DEF Fail, Fault, Advance, storeVars, deviceVars, Course
    <3> QED
      BY <1>4, <3>1, <3>2, <3>3
  <2> QED
    BY <1>t, <1>c, <2>1, OrderKept
<1>5. ASSUME NEW p \in Polls, PollTake(p) PROVE OrderInv'
  <2>1. handed' = handed \o queue /\ queue' = << >>
    BY <1>5 DEF PollTake, DeleteQueue
  <2>2. Course' = Course
    BY <1>0, <2>1, ConcatProperties, ConcatEmptySeq DEF Course
  <2>3. faults <= faults' /\ phase' = phase /\ earlier' = earlier
    BY <1>0, <1>5 DEF PollTake, Fault
  <2> QED
    BY <1>t, <1>c, <2>2, <2>3, OrderKept
<1>6. ASSUME NEW p \in Polls, PollAnswer(p) \/ PollFails(p) PROVE OrderInv'
  <2>1. Course' = Course /\ faults <= faults' /\ earlier' = earlier /\ phase' = phase
    <3>1. CASE PollAnswer(p)
      BY <1>0, <3>1 DEF PollAnswer, deviceVars, Course
    <3>2. CASE PollFails(p)
      BY <1>0, <3>2 DEF PollFails, Fault, deviceVars, Course
    <3> QED
      BY <1>6, <3>1, <3>2
  <2> QED
    BY <1>t, <1>c, <2>1, OrderKept
<1>7. ASSUME NEW c \in Cmds, AckCmd(c) PROVE OrderInv'
  <2>1. Course' = Course /\ faults <= faults' /\ earlier' = earlier /\ phase' = phase
    BY <1>0, <1>7 DEF AckCmd, Course
  <2> QED
    BY <1>t, <1>c, <2>1, OrderKept
<1>8. CASE QueueExpires \/ EvictQueue
  <2>1. /\ handed' = handed /\ queue' = << >>
        /\ faults <= faults' /\ earlier' = earlier /\ phase' = phase
    BY <1>0, <1>8 DEF QueueExpires, EvictQueue, DeleteQueue, deviceVars
  <2> QED
    BY <1>t, <1>n, <2>1, OrderKept
<1>9. CASE UNCHANGED vars
  <2>1. Course' = Course /\ faults <= faults' /\ earlier' = earlier /\ phase' = phase
    BY <1>0, <1>9 DEF vars, storeVars, deviceVars, Course
  <2> QED
    BY <1>t, <1>c, <2>1, OrderKept
<1> QED
    BY <1>1, <1>2, <1>3, <1>4, <1>5, <1>6, <1>7, <1>8, <1>9 DEF Next, Enqueue

\* However many handlers and polls interleave, and whatever fails, no entry is handed to
\* two polls and no command overtakes one that was answered before it was issued.
THEOREM FetchedOnceAlways == Spec => []FetchedOnceInOrder
<1>1. IInv /\ OrderInv => FetchedOnceInOrder
  <2> SUFFICES ASSUME IInv, OrderInv PROVE FetchedOnce
    BY DEF OrderInv, FetchedOnceInOrder
  <2>1. faults \in Nat
    BY DownlinkAssumptions DEF IInv, QueueInv, LogInv, TypeOK
  <2> SUFFICES ASSUME NEW c \in Cmds PROVE Cardinality(Occurrences(Course, c)) <= 1 + faults
    BY DEF FetchedOnce
  <2>2. Cardinality(Occurrences(Course, c)) \in Nat
    <3>1. Course \in Seq(Cmds)
      BY DEF IInv, QueueInv, LogInv, TypeOK, Course
    <3> QED
      BY <3>1, OccurrencesOfAppend
  <2>3. Cardinality(Occurrences(Course, c)) <= IF phase[c] = "repush" THEN faults ELSE 1 + faults
    BY DEF OrderInv, PushedOnce
  <2> QED
    BY <2>1, <2>2, <2>3
<1> QED
    BY Invariance, InitOrder, NextOrder, <1>1, PTL DEF Spec

=============================================================================
