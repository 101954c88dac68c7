--------------------------------- MODULE Pacer ---------------------------------
(* The pacer of a sending PeerConnection: RtpTransportControllerSend posts        *)
(* packets to the task queue of TaskQueuePacedSender, whose delayed task runs     *)
(* PacingController every few milliseconds to send what its IntervalBudget        *)
(* allows. Times are in milliseconds, sizes in bytes, rates in kbit/s.            *)
EXTENDS RoundRobinPacketQueue

CONSTANTS
    PriorityOf,         \* GetPriorityForType of the one media type of each source
    SizeOf,             \* payload and padding of the packets of each source
    MaxPackets,         \* bound: packets of each source
    PacingBitrate,      \* pacing_bitrate_
    QueueTimeLimit,     \* queue_time_limit_
    HoldBackWindow,     \* hold_back_window_
    Ticks,              \* how far the clock moves in one step
    LastPost,           \* bound: the time after which no packet is posted
    MaxGap,             \* bound: how long after a round the clock moves before the next
    MaxTasks,           \* bound: tasks posted and not run
    MaxStarts           \* calls of EnsureStarted

ASSUME PacerAssumption ==
    /\ PriorityOf \in [Ssrcs -> 1..4] /\ SizeOf \in [Ssrcs -> Nat \ {0}]
    /\ PacingBitrate \in Nat \ {0} /\ Ticks \subseteq Nat \ {0}
    /\ QueueTimeLimit \in Nat /\ HoldBackWindow \in Nat

\* A packet is no larger than what the pacing rate sends in kWindowMs: at 800 kbit/s, 50000 bytes.
ASSUME SizeAssumption == \A s \in Ssrcs : SizeOf[s] <= (PacingBitrate * 500) \div 8

VARIABLES
    now,                \* clock_
    tasks,              \* what is posted to task_queue_ and has not run
    delayed,            \* the delayed tasks: when they run, and with which argument
    next_process_time_,
    queue,              \* packet_queue_
    budget,             \* media_budget_
    last_process_time_,
    sending,            \* the loop of ProcessPackets is running
    posted,             \* packets of each source posted so far
    starts,
    meter,              \* a leaky bucket of PacingBitrate that every packet sent fills
    drained,            \* the rate was raised to drain a large queue
    overtaken           \* bytes a source sent since another one, which waits, last sent

paced == <<queue, budget, last_process_time_, sending>>
ghosts == <<meter, drained, overtaken>>
vars == <<now, tasks, delayed, next_process_time_, paced, posted, starts, ghosts>>

MinPacketLimit == 5             \* kDefaultMinPacketLimit
MaxElapsedTime == 2000          \* kMaxElapsedTime
MaxProcessingInterval == 30     \* kMaxProcessingInterval
WindowMs == 500                 \* kWindowMs
MinusInfinity == -1
Start == "start"

Least(a, b) == IF a < b THEN a ELSE b
Most(a, b) == IF a < b THEN b ELSE a

--------------------------------------------------------------------------------
(* IntervalBudget. *)

MaxBytesInBudget(kbps) == (kbps * WindowMs) \div 8

SetTargetBitrateKbps(b, kbps) ==
    [target_bitrate_kbps_ |-> kbps,
     bytes_remaining_ |-> Least(Most(-MaxBytesInBudget(kbps), b.bytes_remaining_),
                                MaxBytesInBudget(kbps))]

\* What was left of the last round is lost, what it overspent is made up for.
IncreaseBudget(b, elapsed_time) ==
    LET bytes == (elapsed_time * b.target_bitrate_kbps_) \div 8
    IN [b EXCEPT !.bytes_remaining_ =
            Least(IF @ < 0 THEN @ + bytes ELSE bytes, MaxBytesInBudget(b.target_bitrate_kbps_))]

UseBudget(b, bytes) ==
    [b EXCEPT !.bytes_remaining_ = Most(@ - bytes, -MaxBytesInBudget(b.target_bitrate_kbps_))]

BytesRemaining(b) == Most(0, b.bytes_remaining_)

--------------------------------------------------------------------------------
(* PacingController. *)

NextSendTime == last_process_time_ + MinPacketLimit

\* DataRate::kbps rounds to the nearest.
Kbps(bytes, ms) == (16 * bytes + ms) \div (2 * ms)

MinRateNeed(q) == Kbps(q.size_, Most(1, QueueTimeLimit - AverageQueueTime(q)))

TargetRate(q) == IF Empty(q) THEN PacingBitrate ELSE Most(PacingBitrate, MinRateNeed(q))

\* Mutant: a round that comes late may send all that the time missed allows.
UpdateBudgetWithAllTime(b, elapsed_time) == IncreaseBudget(b, elapsed_time)

UpdateBudgetWithElapsedTime(b, elapsed_time) ==
    IncreaseBudget(b, Least(elapsed_time, MaxProcessingInterval))

\* ProcessPackets up to its loop.
BeginProcess ==
    LET elapsed == Least(now - last_process_time_, MaxElapsedTime)
        q == UpdateQueueTime(queue, now)
        b == SetTargetBitrateKbps(budget, TargetRate(q))
    IN /\ sending' = TRUE
       /\ last_process_time_' = now
       /\ IF elapsed > 0
          THEN /\ queue' = q
               /\ budget' = UpdateBudgetWithElapsedTime(b, elapsed)
               /\ drained' = (drained \/ TargetRate(q) > PacingBitrate)
          ELSE UNCHANGED <<queue, budget, drained>>

\* GetPendingPacket finds a packet.
Pending == ~Empty(queue) /\ BytesRemaining(budget) > 0

Waiting(s) == s \in DOMAIN queue.streams_ /\ queue.streams_[s].listed

\* One round of the loop: Pop, SendPacket and OnPacketSent.
SendPacket ==
    LET p == Top(queue)
    IN /\ sending /\ Pending
       /\ queue' = Pop(queue)
       /\ budget' = UseBudget(budget, p.size)
       /\ meter' = meter + p.size * 8
       /\ overtaken' = [a \in Ssrcs |-> [b \in Ssrcs |->
                            IF b = p.ssrc \/ ~Waiting(b) THEN 0
                            ELSE overtaken[a][b] + (IF a = p.ssrc THEN p.size ELSE 0)]]
       /\ UNCHANGED <<now, tasks, delayed, next_process_time_, last_process_time_, sending,
                      posted, starts, drained>>

--------------------------------------------------------------------------------
(* TaskQueuePacedSender. The task queue is one thread: no task runs while the     *)
(* loop of ProcessPackets does.                                                   *)

\* The constructor of RtpTransportControllerSend: the pacer is set up and started.
Init ==
    /\ now = 0 /\ last_process_time_ = 0
    /\ tasks = <<Start>> /\ starts = 1
    /\ delayed = {} /\ next_process_time_ = MinusInfinity
    /\ queue = Queue(0)
    /\ budget = [target_bitrate_kbps_ |-> 0, bytes_remaining_ |-> 0]
    /\ sending = FALSE
    /\ posted = [s \in Ssrcs |-> 0]
    /\ meter = 0 /\ drained = FALSE /\ overtaken = [a \in Ssrcs |-> [b \in Ssrcs |-> 0]]

EnsureStarted ==
    /\ starts < MaxStarts /\ Len(tasks) < MaxTasks
    /\ starts' = starts + 1
    /\ tasks' = Append(tasks, Start)
    /\ UNCHANGED <<now, delayed, next_process_time_, paced, posted, ghosts>>

\* EnqueuePacket, on whatever thread has the packet.
EnqueuePacket(s) ==
    /\ posted[s] < MaxPackets[s] /\ now <= LastPost /\ Len(tasks) < MaxTasks
    /\ posted' = [posted EXCEPT ![s] = @ + 1]
    /\ tasks' = Append(tasks, s)
    /\ UNCHANGED <<now, delayed, next_process_time_, paced, starts, ghosts>>

\* Mutant: no delayed task follows a round that leaves nothing waiting.
ScheduleIfWaiting ==
    IF Empty(queue) THEN UNCHANGED <<next_process_time_, delayed>>
    ELSE /\ next_process_time_' = NextSendTime
         /\ delayed' = delayed \cup {[at |-> NextSendTime, scheduled |-> NextSendTime]}

\* The end of MaybeProcessPackets: a delayed task, unless one is pending.
Schedule ==
    LET wait == Most(NextSendTime - now, HoldBackWindow)
    IN /\ next_process_time_' = NextSendTime
       /\ delayed' = delayed \cup {[at |-> now + wait, scheduled |-> NextSendTime]}

\* MaybeProcessPackets(scheduled_process_time).
MaybeProcessPackets(scheduled_process_time) ==
    IF scheduled_process_time = next_process_time_
    THEN next_process_time_' = MinusInfinity /\ BeginProcess
    ELSE next_process_time_ # MinusInfinity /\ UNCHANGED <<next_process_time_, paced, drained>>

\* The posted task of EnqueuePacket: PacingController::EnqueuePacket.
RunEnqueue ==
    /\ ~sending /\ tasks # <<>> /\ Head(tasks) # Start
    /\ LET s == Head(tasks)
       IN queue' = Push(queue, [ssrc |-> s, priority |-> PriorityOf[s], size |-> SizeOf[s],
                                enqueue_time |-> now])
    /\ tasks' = Tail(tasks)
    /\ UNCHANGED <<now, delayed, next_process_time_, budget, last_process_time_, sending,
                   posted, starts, ghosts>>

RunStart ==
    /\ ~sending /\ tasks # <<>> /\ Head(tasks) = Start
    /\ MaybeProcessPackets(MinusInfinity)
    /\ tasks' = Tail(tasks)
    /\ UNCHANGED <<now, delayed, posted, starts, meter, overtaken>>

RunDelayed(t) ==
    /\ ~sending /\ t \in delayed /\ t.at <= now
    /\ MaybeProcessPackets(t.scheduled)
    /\ delayed' = delayed \ {t}
    /\ UNCHANGED <<now, tasks, posted, starts, meter, overtaken>>

EndProcess ==
    /\ sending /\ ~Pending
    /\ sending' = FALSE
    /\ Schedule
    /\ UNCHANGED <<now, tasks, queue, budget, last_process_time_, posted, starts, ghosts>>

Outstanding == tasks # <<>> \/ ~Empty(queue)

\* The clock moves once the posted tasks have run, and need not go on for ever after
\* the last packet.
Tick(d) ==
    /\ tasks = <<>>
    /\ now <= LastPost \/ ~Empty(queue)
    /\ now - last_process_time_ < MaxGap \/ \E t \in delayed : t.at > now
    /\ now' = now + d
    /\ meter' = Most(0, meter - d * PacingBitrate)
    /\ UNCHANGED <<tasks, delayed, next_process_time_, paced, posted, starts, drained, overtaken>>

\* After LastPost nothing has to happen but what fairness demands.
Rest == now > LastPost /\ UNCHANGED vars

Thread == RunEnqueue \/ RunStart \/ SendPacket \/ EndProcess \/ \E t \in delayed : RunDelayed(t)

Clock == \E d \in Ticks : Tick(d)

Next ==
    \/ EnsureStarted
    \/ \E s \in Ssrcs : EnqueuePacket(s)
    \/ RunEnqueue \/ RunStart \/ SendPacket \/ EndProcess
    \/ \E t \in delayed : RunDelayed(t)
    \/ Clock
    \/ Rest

Spec == Init /\ [][Next]_vars /\ WF_vars(Thread) /\ WF_vars(Clock)

--------------------------------------------------------------------------------
Waits(s) == IF s \in DOMAIN queue.streams_ THEN queue.streams_[s].packet_queue ELSE <<>>

\* The sum of f[1] to f[n], and the sum of a function of the sources.
SumTo(f, n) == LET sum[i \in 0 .. n] == IF i = 0 THEN 0 ELSE sum[i - 1] + f[i] IN sum[n]
Numbering == CHOOSE e \in [1 .. Cardinality(Ssrcs) -> Ssrcs] :
                 \A i, j \in 1 .. Cardinality(Ssrcs) : e[i] = e[j] => i = j
SumOver(f) == SumTo([i \in 1 .. Cardinality(Ssrcs) |-> f[Numbering[i]]], Cardinality(Ssrcs))

\* The bytes of packets, and the time they have waited in all until t.
Bytes(packets) == SumTo([i \in DOMAIN packets |-> packets[i].size], Len(packets))
Waited(packets, t) == SumTo([i \in DOMAIN packets |-> t - packets[i].enqueue_time], Len(packets))

(* RoundRobinPacketQueue keeps its counters beside the packets: after every       *)
(* Push and Pop they agree with the packets that wait, and stream_priorities_     *)
(* lists each source with a packet waiting once, under the priority of its next   *)
(* packet, so that no source is left out of the round.                            *)
QueueAccounts ==
    LET list == queue.stream_priorities_
    IN /\ queue.size_packets_ = SumOver([s \in Ssrcs |-> Len(Waits(s))])
       /\ queue.size_ = SumOver([s \in Ssrcs |-> Bytes(Waits(s))])
       /\ queue.queue_time_sum_ = SumOver([s \in Ssrcs |-> Waited(Waits(s), queue.last_time_updated_)])
       /\ Len(list) = Cardinality({s \in Ssrcs : Waits(s) # <<>>})
       /\ \A s \in Ssrcs : Waits(s) # <<>> =>
              \E i \in DOMAIN list : list[i] = Key(Head(Waits(s)).priority, queue.streams_[s].size, s)

(* What leaves the pacer never exceeds the pacing rate by more than what two      *)
(* rounds may grant (one whose loop stalled and the late one after it) and the    *)
(* packet that overdraws them, however late the delayed task runs and whatever    *)
(* was left or overspent before, unless a large queue raised the rate.            *)
PacedRate ==
    \/ drained
    \/ \E s \in Ssrcs : meter < 2 * MaxProcessingInterval * PacingBitrate + 8 * SizeOf[s]

(* While a source has a packet waiting, another one of its priority sends no more *)
(* than kMaxLeadingSize and two packets of its own before it, however little that *)
(* other one sent before and however often it falls silent in between.            *)
FairShare ==
    \A a, b \in Ssrcs : PriorityOf[a] = PriorityOf[b] =>
        overtaken[a][b] <= MaxLeadingSize + 2 * SizeOf[a]

(* The packet queue serves its sources fairly and from counters that are exact.   *)
QueueSound == QueueAccounts /\ FairShare

(* Every packet posted is sent: the chain of delayed tasks never breaks, and a    *)
(* budget in debt becomes positive again.                                         *)
EverythingSent == [](Outstanding => <>~Outstanding)
================================================================================
