------------------------- MODULE RoundRobinPacketQueue -------------------------
(* The packets that wait for the pacer: one queue per source, and the sources    *)
(* that have a packet waiting in the order of stream_priorities_.                *)
EXTENDS Integers, Sequences, FiniteSets, SequencesExt, Functions

CONSTANTS
    Ssrcs,
    MaxLeadingSize      \* kMaxLeadingSize

ASSUME LeadAssumption == MaxLeadingSize \in Nat /\ IsFiniteSet(Ssrcs) /\ Ssrcs # {}

(* A packet: its source, priority, size, and the time and place it came in.      *)
(* listed is whether priority_it points into stream_priorities_.                 *)
NewStream == [size |-> 0, packet_queue |-> <<>>, listed |-> FALSE]

Queue(start_time) ==
    [streams_ |-> [s \in {} |-> NewStream],
     stream_priorities_ |-> <<>>,
     size_packets_ |-> 0, size_ |-> 0,
     max_size_ |-> MaxLeadingSize,
     queue_time_sum_ |-> 0, last_time_updated_ |-> start_time,
     freed |-> {}]      \* the sources whose Stream was erased while it was in use

Empty(q) == q.size_packets_ = 0

UpdateQueueTime(q, now) ==
    [q EXCEPT !.queue_time_sum_ = @ + (now - q.last_time_updated_) * q.size_packets_,
              !.last_time_updated_ = now]

AverageQueueTime(q) == IF Empty(q) THEN 0 ELSE q.queue_time_sum_ \div q.size_packets_

\* StreamPrioKey::operator<.
KeyBefore(a, b) == a.priority < b.priority \/ (a.priority = b.priority /\ a.size < b.size)

\* emplace into the multimap: after every entry whose key is not greater.
Emplace(list, key) ==
    LET at == Cardinality({i \in DOMAIN list : ~KeyBefore(key, list[i])})
    IN InsertAt(list, at + 1, key)

Key(priority, size, ssrc) == [priority |-> priority, size |-> size, ssrc |-> ssrc]

\* QueuedPacket::operator<: the more urgent packet first, then the earlier one.
Enlist(packets, p) ==
    LET at == Cardinality({i \in DOMAIN packets : packets[i].priority <= p.priority})
    IN InsertAt(packets, at + 1, p)

FindOrCreate(q, ssrc) ==
    IF ssrc \in DOMAIN q.streams_ THEN q
    ELSE [q EXCEPT !.streams_ =
             [s \in DOMAIN @ \cup {ssrc} |-> IF s = ssrc THEN NewStream ELSE @[s]]]

ListedPriority(q, ssrc) ==
    LET i == CHOOSE j \in DOMAIN q.stream_priorities_ : q.stream_priorities_[j].ssrc = ssrc
    IN q.stream_priorities_[i].priority

(* Push. A packet more urgent than its stream's entry erases the Stream itself   *)
(* and goes on using it, so all that is kept of this call is that it happened.   *)
Push(q0, p) ==
    LET q == FindOrCreate(q0, p.ssrc)
        stream == q.streams_[p.ssrc]
        counted == UpdateQueueTime(q, p.enqueue_time)
    IN IF stream.listed /\ p.priority < ListedPriority(q, p.ssrc)
       THEN [q EXCEPT !.freed = @ \cup {p.ssrc}]
       ELSE [counted EXCEPT
                !.stream_priorities_ =
                    IF stream.listed THEN @
                    ELSE Emplace(@, Key(p.priority, stream.size, p.ssrc)),
                !.streams_[p.ssrc] =
                    [stream EXCEPT !.listed = TRUE, !.packet_queue = Enlist(@, p)],
                !.size_packets_ = @ + 1,
                !.size_ = @ + p.size]

GetHighestPriorityStream(q) == Head(q.stream_priorities_).ssrc

\* Mutant: a stream that was silent may catch up with all that the others sent.
SentSizeOwn(q, stream, packet_size) == stream.size + packet_size

\* What has been sent of a stream, counted up to within reach of the leader's.
SentSize(q, stream, packet_size) ==
    LET size == stream.size + packet_size
    IN IF size > q.max_size_ - MaxLeadingSize THEN size ELSE q.max_size_ - MaxLeadingSize

\* The packet Pop returns, and the queue it leaves.
Top(q) == Head(q.streams_[GetHighestPriorityStream(q)].packet_queue)

Relist(list, ssrc, size, packets) ==
    IF packets = <<>> THEN list ELSE Emplace(list, Key(Head(packets).priority, size, ssrc))

Pop(q) ==
    LET ssrc == GetHighestPriorityStream(q)
        stream == q.streams_[ssrc]
        p == Top(q)
        size == SentSize(q, stream, p.size)
        packets == Tail(stream.packet_queue)
    IN [q EXCEPT
            !.stream_priorities_ = Relist(Tail(@), ssrc, size, packets),
            !.queue_time_sum_ = @ - (q.last_time_updated_ - p.enqueue_time),
            !.streams_[ssrc] =
                [size |-> size, packet_queue |-> packets, listed |-> packets # <<>>],
            !.max_size_ = IF size > @ THEN size ELSE @,
            !.size_packets_ = @ - 1,
            !.size_ = @ - p.size]

================================================================================
