--------------------------- MODULE IceChannelProofs ---------------------------
(***************************************************************************)
(* The selection of an IceTransportChannel and the state it reports, for   *)
(* any number of connections, priorities and round trip times.             *)
(***************************************************************************)
EXTENDS IceChannel, TLAPS

USE PriorityAssumption, RttsAssumption, NullAssumption, NullConnAssumption

Table == [Ids -> ConnType \cup {null}]

(* _update_state has been called since the last change that matters to it. *)
Fresh(cs, ch) ==
    /\ ch.writable <=> Writable(cs, ch.selected)
    /\ ch.writable => ch.ever
    /\ ch.state = ComputeIceTransportState(ch.had, Active(cs), ch.ever, ch.writable)

(* had_connection_ and has_been_connection_ have not been forgotten.       *)
Remembers(cs, ch) ==
    /\ Alive(cs) # {} => ch.had
    /\ ch.ever => ch.had

(* SelectionSound, for any table and channel.                              *)
Agree(cs, ch) ==
    ch.selected # null => ch.ctlSelected = ch.selected /\ cs[ch.selected] # null
Unselected(cs, ch) ==
    ch.ctlSelected = null => \A c \in Alive(cs) : ~ReadyToSend(cs, c)

Good(cs, ch) ==
    /\ Fresh(cs, ch)
    /\ Remembers(cs, ch)
    /\ Agree(cs, ch)
    /\ Unselected(cs, ch)

(* The connection whose response is being handled has not gone.            *)
Responding == callback.run = "response" => callback.now \in Alive(conn)

IInv == TypeOK /\ Good(conn, channel) /\ Responding

(* What sorting may do to a channel ch, of which ch2 is made.              *)
Selects(cs, ch, ch2) ==
    /\ ch2.had = ch.had
    /\ ch2.ever <=> (ch.ever \/ ch2.writable)
    /\ \/ ch2.selected = ch.selected /\ ch2.ctlSelected = ch.ctlSelected
       \/ /\ ch2.selected \in Alive(cs) /\ ch2.ctlSelected = ch2.selected
          /\ ReadyToSend(cs, ch2.selected)
          /\ \A c \in Alive(cs) : cs[c].write = "writable" => Writable(cs, ch2.selected)

-----------------------------------------------------------------------------
(* _compute_ice_transport_state yields a state.                            *)
LEMMA ComputedType ==
    \A h, a, e, w : ComputeIceTransportState(h, a, e, w) \in IceTransportState
BY DEF ComputeIceTransportState, IceTransportState

(* _update_state: what it leaves alone and what it derives.                *)
LEMMA UpdatedFacts ==
    ASSUME NEW cs, NEW ch \in ChannelType
    PROVE  /\ Updated(cs, ch) \in ChannelType
           /\ Fresh(cs, Updated(cs, ch))
           /\ Updated(cs, ch).selected = ch.selected
           /\ Updated(cs, ch).ctlSelected = ch.ctlSelected
           /\ Updated(cs, ch).had = ch.had
           /\ Updated(cs, ch).ever <=> (ch.ever \/ Writable(cs, ch.selected))
<1> DEFINE w == Writable(cs, ch.selected)
           e == ch.ever \/ w
           s == ComputeIceTransportState(ch.had, Active(cs), e, w)
           u == [ch EXCEPT !.writable = w, !.ever = e, !.state = s]
<1>1. w \in BOOLEAN
  BY DEF Writable
<1>2. e \in BOOLEAN
  BY <1>1 DEF ChannelType
<1>3. s \in IceTransportState
  BY ComputedType
<1>4. Updated(cs, ch) = u
  BY DEF Updated
<1> HIDE DEF w, e, s
<1>5. /\ u \in ChannelType
      /\ u.selected = ch.selected /\ u.ctlSelected = ch.ctlSelected /\ u.had = ch.had
      /\ u.writable = w /\ u.ever = e /\ u.state = s
  BY <1>1, <1>2, <1>3 DEF ChannelType
<1>6. Fresh(cs, u)
  BY <1>5 DEF Fresh, w, e, s
<1> QED BY <1>4, <1>5, <1>6 DEF w, e

(* A connection that no living one is better than is ready if one of them  *)
(* is, and writable if one of them is.                                     *)
LEMMA TopRank ==
    ASSUME NEW cs \in Table, NEW t \in Tops(cs), NEW c \in Alive(cs)
    PROVE  /\ t \in Alive(cs)
           /\ ReadyToSend(cs, c) => ReadyToSend(cs, t)
           /\ cs[c].write = "writable" => cs[t].write = "writable"
<1>1. t \in Alive(cs) /\ ~Better(cs, c, t)
  BY DEF Tops
<1>2. cs[t] \in ConnType /\ cs[c] \in ConnType
  BY <1>1 DEF Alive, Table
<1>3. ~(Rank[cs[c].write] < Rank[cs[t].write])
  BY <1>1 DEF Better
<1>4. cs[t].write \in WriteState /\ cs[c].write \in WriteState
  BY <1>2 DEF ConnType
<1> QED BY <1>1, <1>3, <1>4 DEF Rank, WriteState, ReadyToSend

(* sort_and_switch_connection: a connection it returns is the top one and  *)
(* can send; if nothing was selected, it returns none only if none can.    *)
LEMMA SwitchFacts ==
    ASSUME NEW cs \in Table, NEW sel, NEW stale, NEW c \in SortAndSwitch(cs, sel, stale)
    PROVE  /\ c # null => c \in Tops(cs) /\ ReadyToSend(cs, c)
           /\ c = null /\ sel = null => \A d \in Alive(cs) : ~ReadyToSend(cs, d)
<1> DEFINE rtts == IF sel \in Alive(cs) THEN {cs[sel].rtt} ELSE stale
           Pick(t, r) ==
              IF ~ReadyToSend(cs, t) \/ sel = t THEN null
              ELSE IF sel = null \/ cs[t].rtt <= r - KMinImprovement THEN t
              ELSE null
<1>1. CASE Alive(cs) = {}
  BY <1>1 DEF SortAndSwitch
<1>2. CASE Alive(cs) # {}
  <2>1. PICK t \in Tops(cs), r \in rtts : c = Pick(t, r)
    BY <1>2 DEF SortAndSwitch
  <2>2. t \in Ids
    BY DEF Tops, Alive
  <2>3. c # null => c = t /\ ReadyToSend(cs, t)
    BY <2>1
  <2>4. c = null /\ sel = null => ~ReadyToSend(cs, t)
    BY <2>1, <2>2
  <2> QED BY <2>3, <2>4, TopRank
<1> QED BY <1>1, <1>2

(* _maybe_start_pinging touches one field, which no other depends on.      *)
LEMMA StartedFacts ==
    ASSUME NEW cs \in Table, NEW ch \in ChannelType
    PROVE  /\ PingingStarted(cs, ch) \in ChannelType
           /\ Fresh(cs, PingingStarted(cs, ch)) <=> Fresh(cs, ch)
           /\ PingingStarted(cs, ch).selected = ch.selected
           /\ PingingStarted(cs, ch).ctlSelected = ch.ctlSelected
           /\ PingingStarted(cs, ch).had = ch.had
           /\ PingingStarted(cs, ch).ever = ch.ever
           /\ PingingStarted(cs, ch).writable = ch.writable
<1> DEFINE p == ch.pinging \/ \E c \in Alive(cs) : cs[c].pingable
           u == [ch EXCEPT !.pinging = p]
<1>1. p \in BOOLEAN
  BY DEF ChannelType
<1>2. PingingStarted(cs, ch) = u
  BY DEF PingingStarted
<1> HIDE DEF p
<1>3. /\ u \in ChannelType
      /\ u.selected = ch.selected /\ u.ctlSelected = ch.ctlSelected /\ u.had = ch.had
      /\ u.ever = ch.ever /\ u.writable = ch.writable /\ u.state = ch.state
  BY <1>1 DEF ChannelType
<1> QED BY <1>2, <1>3 DEF Fresh

(* _sort_connections_and_update_state.                                     *)
LEMMA SortFacts ==
    ASSUME NEW cs \in Table, NEW ch \in ChannelType, NEW stale,
           NEW ch2 \in SortedAndUpdated(cs, ch, stale)
    PROVE  /\ ch2 \in ChannelType
           /\ Fresh(cs, ch2)
           /\ Selects(cs, ch, ch2)
           /\ Unselected(cs, ch2)
<1>1. PICK c \in SortAndSwitch(cs, ch.ctlSelected, stale) :
         ch2 = PingingStarted(cs, Updated(cs, IF c = null THEN ch ELSE Switched(ch, c)))
  BY DEF SortedAndUpdated
<1>2. CASE c = null
  <2>1. ch2 = PingingStarted(cs, Updated(cs, ch))
    BY <1>1, <1>2
  <2>2. Unselected(cs, ch)
    BY <1>2, SwitchFacts DEF Unselected
  <2>3. /\ ch2 \in ChannelType /\ Fresh(cs, ch2) /\ ch2.selected = ch.selected
        /\ ch2.ctlSelected = ch.ctlSelected /\ ch2.had = ch.had
        /\ ch2.ever <=> (ch.ever \/ Writable(cs, ch.selected))
    BY <2>1, UpdatedFacts, StartedFacts
  <2>4. ch2.ever <=> (ch.ever \/ ch2.writable)
    BY <2>3 DEF Fresh
  <2> QED BY <2>2, <2>3, <2>4 DEF Selects, Unselected
<1>3. CASE c # null
  <2> DEFINE sw == Switched(ch, c)
  <2>1. c \in Alive(cs) /\ c \in Tops(cs) /\ ReadyToSend(cs, c)
    BY <1>3, SwitchFacts DEF Tops
  <2>2. /\ sw \in ChannelType /\ sw.selected = c /\ sw.ctlSelected = c
        /\ sw.had = ch.had /\ sw.ever = ch.ever
    BY <1>3, <2>1 DEF Switched, ChannelType, Alive
  <2> HIDE DEF sw
  <2>3. ch2 = PingingStarted(cs, Updated(cs, sw))
    BY <1>1, <1>3 DEF sw
  <2>4. /\ ch2 \in ChannelType /\ Fresh(cs, ch2) /\ ch2.selected = c /\ ch2.ctlSelected = c
        /\ ch2.had = ch.had
        /\ ch2.ever <=> (ch.ever \/ Writable(cs, c))
    BY <2>2, <2>3, UpdatedFacts, StartedFacts
  <2>5. ch2.ever <=> (ch.ever \/ ch2.writable)
    BY <2>4 DEF Fresh
  <2>6. \A d \in Alive(cs) : cs[d].write = "writable" => Writable(cs, c)
    BY <1>3, <2>1, TopRank DEF Writable
  <2> QED BY <1>3, <2>1, <2>4, <2>5, <2>6 DEF Selects, Unselected
<1> QED BY <1>2, <1>3

(* Sorting makes a channel good that has lost no memory.                   *)
LEMMA SortGood ==
    ASSUME NEW cs \in Table, NEW ch \in ChannelType, Remembers(cs, ch), Agree(cs, ch),
           NEW ch2 \in ChannelType, Fresh(cs, ch2), Selects(cs, ch, ch2), Unselected(cs, ch2)
    PROVE  Good(cs, ch2)
<1>1. Agree(cs, ch2)
  BY DEF Agree, Selects, Alive
<1>2. ch2.writable => Alive(cs) # {}
  BY <1>1 DEF Fresh, Writable, Agree, Alive, ChannelType
<1>3. Remembers(cs, ch2)
  BY <1>2 DEF Remembers, Selects
<1> QED BY <1>1, <1>3 DEF Good

(* What a channel shows depends on which connections live and how they     *)
(* write, on nothing else of them.                                         *)
LEMMA SameWrites ==
    ASSUME NEW cs \in Table, NEW cs2 \in Table, NEW ch \in ChannelType, Good(cs, ch),
           \A c \in Ids : cs[c] = null <=> cs2[c] = null,
           \A c \in Ids : cs[c] # null => cs[c].write = cs2[c].write
    PROVE  Good(cs2, ch)
<1>1. Alive(cs2) = Alive(cs)
  <2>1. \A c : c \in Alive(cs2) <=> c \in Alive(cs)
    BY DEF Alive
  <2> QED BY <2>1 DEF Alive
<1>2. Active(cs2) <=> Active(cs)
  BY <1>1 DEF Active, Alive
<1>3. ch.selected # null => ch.selected \in Alive(cs)
  BY DEF Good, Agree, Alive, ChannelType
<1>4. Writable(cs2, ch.selected) <=> Writable(cs, ch.selected)
  <2>1. ch.selected # null => cs2[ch.selected].write = cs[ch.selected].write
    BY <1>3 DEF Alive
  <2> QED BY <2>1 DEF Writable
<1>5. Fresh(cs2, ch)
  BY <1>2, <1>4 DEF Good, Fresh, ComputeIceTransportState
<1>6. Unselected(cs2, ch)
  BY <1>1 DEF Good, Unselected, ReadyToSend, Alive
<1> QED BY <1>1, <1>3, <1>5, <1>6 DEF Good, Remembers, Agree, Alive

(* signal_state_change of a connection, and the sort it causes.            *)
LEMMA ChangedFacts ==
    ASSUME NEW cs \in Table, NEW cs2 \in Table, NEW ch \in ChannelType, Good(cs, ch),
           \A c \in Ids : cs[c] = null <=> cs2[c] = null,
           NEW ch2 \in Changed(cs, cs2, ch)
    PROVE  ch2 \in ChannelType /\ Good(cs2, ch2) /\ Selects(cs2, ch, ch2)
<1>1. CASE cs = cs2
  <2>1. ch2 = ch
    BY <1>1 DEF Changed
  <2> QED BY <1>1, <2>1 DEF Good, Fresh, Selects
<1>2. CASE cs # cs2
  <2>1. ch2 \in SortedAndUpdated(cs2, ch, AnyRtt)
    BY <1>2 DEF Changed
  <2>2. Alive(cs2) = Alive(cs)
    BY DEF Alive
  <2>3. Remembers(cs2, ch) /\ Agree(cs2, ch)
    BY <2>2 DEF Good, Remembers, Agree, ChannelType
  <2> QED BY <2>1, <2>3, SortFacts, SortGood
<1> QED BY <1>1, <1>2

-----------------------------------------------------------------------------
(* What one step may do to the memories and to the selection; and whether  *)
(* some connection is active falls only in the ping timer's callback, and  *)
(* rises only in that of an answer, when it is one of several signals.     *)
Follows ==
    /\ channel.had => channel'.had
    /\ channel.ever => channel'.ever
    /\ channel'.ever => channel.ever \/ channel'.writable
    /\ channel'.selected # channel.selected =>
          IF channel'.selected # null
          THEN ReadyToSend(conn', channel'.selected)
          ELSE conn'[channel.selected] = null
    /\ "update" \in {callback.run, callback'.run} => (Active(conn') => Active(conn))
    /\ "response" \in {callback.run, callback'.run} =>
          channel.had /\ (Active(conn) => Active(conn'))

(* The part of Follows that the channel itself answers for.                *)
Moves ==
    /\ channel.had => channel'.had
    /\ channel.ever => channel'.ever
    /\ channel'.ever => channel.ever \/ channel'.writable
    /\ channel'.selected # channel.selected =>
          IF channel'.selected # null
          THEN ReadyToSend(conn', channel'.selected)
          ELSE conn'[channel.selected] = null

(* A step in which the channel sorts at most once over the connections it  *)
(* had.                                                                    *)
LEMMA ChangedStep ==
    ASSUME IInv, NEW cs \in Table, Good(cs, channel), conn' \in Table,
           \A c \in Ids : cs[c] = null <=> conn'[c] = null,
           channel' \in Changed(cs, conn', channel)
    PROVE  channel' \in ChannelType /\ Good(conn', channel') /\ Moves
<1>1. channel' \in ChannelType /\ Good(conn', channel') /\ Selects(conn', channel, channel')
  BY ChangedFacts DEF IInv, TypeOK
<1>2. Moves
  BY <1>1 DEF Moves, Selects, Alive
<1> QED BY <1>1, <1>2

LEMMA NewConnType == \A p \in BOOLEAN : NewConn(p) \in ConnType
<1>1. InitialRtt \in AnyRtt
  BY DEF AnyRtt
<1> QED BY <1>1 DEF NewConn, ConnType, WriteState

LEMMA NoCallbackType == NoCallback \in CallbackType /\ NoCallback.run = "none"
BY DEF NoCallback, CallbackType

LEMMA UnknownAddressStep ==
    ASSUME IInv, NEW c \in Ids, UnknownAddress(c)
    PROVE  IInv' /\ Follows
<1> DEFINE ch == [channel EXCEPT !.had = TRUE]
<1>1. /\ conn \in Table /\ channel \in ChannelType /\ gone' \in BOOLEAN /\ conn[c] = null
      /\ callback' = callback /\ callback.run = "none" /\ callback \in CallbackType
  BY DEF IInv, TypeOK, UnknownAddress, Table, Idle
<1>2. PICK p \in BOOLEAN :
         conn' = [conn EXCEPT ![c] = NewConn(p)] /\ channel' \in SortedAndUpdated(conn', ch, AnyRtt)
  BY <1>1 DEF UnknownAddress, ChannelType
<1>3. conn' \in Table /\ \A d \in Ids : conn[d] # null => conn'[d] = conn[d]
  BY <1>1, <1>2, NewConnType DEF Table
<1>4. /\ ch \in ChannelType /\ ch.selected = channel.selected
      /\ ch.ctlSelected = channel.ctlSelected /\ ch.ever = channel.ever /\ ch.had = TRUE
  BY <1>1 DEF ChannelType
<1> HIDE DEF ch
<1>5. Agree(conn', ch)
  BY <1>1, <1>3, <1>4 DEF IInv, Good, Agree, ChannelType
<1>6. Remembers(conn', ch)
  BY <1>4 DEF Remembers
<1>7. channel' \in ChannelType /\ Good(conn', channel') /\ Selects(conn', ch, channel')
  BY <1>2, <1>3, <1>4, <1>5, <1>6, SortFacts, SortGood
<1>8. Follows
  BY <1>1, <1>4, <1>7 DEF Follows, Selects, Alive
<1> QED BY <1>1, <1>3, <1>7, <1>8 DEF IInv, TypeOK, Table, Responding, Alive

LEMMA PingStep ==
    ASSUME IInv, NEW c \in Ids, Ping(c)
    PROVE  IInv' /\ Follows
<1>1. conn \in Table /\ channel \in ChannelType /\ conn[c] \in ConnType
  BY DEF IInv, TypeOK, Ping, Table
<1>2. /\ conn' = [conn EXCEPT ![c] = [conn[c] EXCEPT !.unanswered = TRUE]] /\ channel' = channel
      /\ callback' = NoCallback /\ callback.run \in {"none", "update"} /\ gone' = gone
  BY <1>1 DEF Ping, InPingTimer
<1>3. /\ [conn[c] EXCEPT !.unanswered = TRUE] \in ConnType
      /\ [conn[c] EXCEPT !.unanswered = TRUE].write = conn[c].write
  BY <1>1 DEF ConnType
<1>4. conn' \in Table
  BY <1>1, <1>2, <1>3 DEF Table
<1>5. \A d \in Ids : conn[d] = null <=> conn'[d] = null
  BY <1>1, <1>2, <1>3 DEF Table
<1>6. \A d \in Ids : conn[d] # null => conn[d].write = conn'[d].write
  BY <1>1, <1>2, <1>3 DEF Table
<1>7. Good(conn', channel)
  BY <1>1, <1>4, <1>5, <1>6, SameWrites DEF IInv
<1>8. Active(conn') => Active(conn)
  BY <1>5, <1>6 DEF Active, Alive
<1>9. Follows
  BY <1>2, <1>8, NoCallbackType DEF Follows, IInv, Good, Fresh
<1>10. IInv'
  BY <1>1, <1>2, <1>4, <1>7, NoCallbackType DEF IInv, TypeOK, Table, Responding, Alive
<1> QED BY <1>9, <1>10

(* The ping timer's callback changes a connection.                         *)
LEMMA UpdateStep ==
    ASSUME IInv, NEW c \in Ids, WriteUnreliable(c) \/ WriteTimeout(c) \/ ReceiveTimeout(c)
    PROVE  IInv' /\ Follows
<1>1. /\ conn \in Table /\ conn[c] # null /\ conn[c] \in ConnType /\ gone' \in BOOLEAN
      /\ callback.run \in {"none", "update"} /\ callback \in CallbackType
      /\ Good(conn, channel)
  BY DEF IInv, TypeOK, Table, WriteUnreliable, WriteTimeout, ReceiveTimeout, Turn, Unsettled, Alive,
         Idle
<1>2. PICK v \in ConnType : /\ conn' = [conn EXCEPT ![c] = v]
                            /\ v.write # "timeout" => conn[c].write # "timeout"
  <2>1. \A w \in WriteState : /\ [conn[c] EXCEPT !.write = w] \in ConnType
                               /\ [conn[c] EXCEPT !.write = w].write = w
    BY <1>1 DEF ConnType
  <2>2. /\ [conn[c] EXCEPT !.receiving = FALSE] \in ConnType
        /\ [conn[c] EXCEPT !.receiving = FALSE].write = conn[c].write
    BY <1>1 DEF ConnType
  <2>3. CASE WriteUnreliable(c)
    BY <1>1, <2>1, <2>3 DEF WriteUnreliable, WriteState
  <2>4. CASE WriteTimeout(c)
    BY <1>1, <2>1, <2>4 DEF WriteTimeout, WriteState
  <2>5. CASE ReceiveTimeout(c)
    BY <1>1, <2>2, <2>5 DEF ReceiveTimeout
  <2> QED BY <2>3, <2>4, <2>5
<1>3. channel' \in Changed(conn, conn', channel)
  BY DEF WriteUnreliable, WriteTimeout, ReceiveTimeout
<1>4. conn' \in Table /\ \A d \in Ids : conn[d] = null <=> conn'[d] = null
  BY <1>1, <1>2, NullConnAssumption DEF Table
<1>5. channel' \in ChannelType /\ Good(conn', channel') /\ Moves
  BY <1>1, <1>3, <1>4, ChangedStep
<1>6. callback' \in CallbackType /\ callback'.run = "update"
  <2>1. Left(c) \in SUBSET Ids
    BY <1>1 DEF Left, Unsettled, Alive, CallbackType
  <2>2. PICK n \in Ids \cup {null} : callback' = [run |-> "update", now |-> n, due |-> Left(c)]
    BY DEF WriteUnreliable, WriteTimeout, ReceiveTimeout, Updating
  <2> QED BY <2>1, <2>2 DEF CallbackType
<1>7. Active(conn') => Active(conn)
  BY <1>1, <1>2, <1>4 DEF Active, Alive, Table
<1>8. Follows
  BY <1>1, <1>5, <1>6, <1>7 DEF Follows, Moves
<1> QED BY <1>1, <1>4, <1>5, <1>6, <1>8 DEF IInv, TypeOK, Table, Responding, Alive

(* The first half of received_ping_response.                               *)
LEMMA ReceivedPingResponseStep ==
    ASSUME IInv, NEW c \in Ids, NEW r \in Rtts[c], ReceivedPingResponse(c, r)
    PROVE  IInv' /\ Follows
<1> DEFINE v1 == [conn[c] EXCEPT !.rtt = r, !.unanswered = FALSE]
           v2 == [v1 EXCEPT !.receiving = TRUE]
           cs1 == [conn EXCEPT ![c] = v1]
           cs2 == [cs1 EXCEPT ![c] = v2]
<1>1. /\ conn \in Table /\ channel \in ChannelType /\ conn[c] # null /\ conn[c] \in ConnType
      /\ callback.run = "none" /\ Good(conn, channel)
  BY DEF IInv, TypeOK, Table, ReceivedPingResponse, Answered, Unanswered, Idle
<1>2. v1 \in ConnType /\ v2 \in ConnType
  BY <1>1 DEF ConnType, AnyRtt
<1>3. v1.write = conn[c].write /\ v2.write = conn[c].write
  BY <1>1 DEF ConnType
<1> HIDE DEF v1, v2
<1>4. cs1[c] = v1
  BY <1>1 DEF Table
<1>5. conn' = cs2 /\ channel' \in Changed(cs1, cs2, channel)
  <2>1. cs1 = [conn EXCEPT ![c].rtt = r, ![c].unanswered = FALSE]
    BY <1>1 DEF Table, v1
  <2>2. cs2 = [cs1 EXCEPT ![c].receiving = TRUE]
    BY <1>4 DEF v2
  <2> HIDE DEF cs1, cs2
  <2> QED BY <2>1, <2>2 DEF ReceivedPingResponse
<1>6. callback' = [run |-> "response", now |-> c, due |-> {}] /\ gone' = gone
  BY DEF ReceivedPingResponse
<1>7. callback' \in CallbackType /\ callback'.run = "response" /\ callback'.now = c
  BY <1>6 DEF CallbackType
<1>8. /\ cs1 \in Table
      /\ \A d \in Ids : conn[d] = null <=> cs1[d] = null
      /\ \A d \in Ids : conn[d] # null => conn[d].write = cs1[d].write
  BY <1>1, <1>2, <1>3 DEF Table
<1>9. /\ cs1[c] # null /\ cs2 \in Table /\ cs2[c] # null
      /\ \A d \in Ids : cs1[d] = null <=> cs2[d] = null
      /\ \A d \in Ids : conn[d] # null => conn[d].write = cs2[d].write
  BY <1>1, <1>2, <1>3, <1>4, <1>8, NullConnAssumption DEF Table
<1> HIDE DEF cs1, cs2
<1>10. Good(cs1, channel)
  BY <1>1, <1>8, SameWrites
<1>11. channel' \in ChannelType /\ Good(conn', channel') /\ Moves
  BY <1>5, <1>8, <1>9, <1>10, ChangedStep
<1>12. Active(conn) => Active(conn')
  BY <1>5, <1>8, <1>9 DEF Active, Alive
<1>13. channel.had
  BY <1>1 DEF Good, Remembers, Alive
<1>14. Follows
  BY <1>1, <1>7, <1>11, <1>12, <1>13 DEF Follows, Moves
<1>15. IInv'
  BY <1>5, <1>6, <1>7, <1>9, <1>11 DEF IInv, TypeOK, Table, Responding, Alive
<1> QED BY <1>14, <1>15

(* The second half: the connection is writable.                            *)
LEMMA BecomesWritableStep ==
    ASSUME IInv, NEW c \in Ids, BecomesWritable(c)
    PROVE  IInv' /\ Follows
<1> DEFINE v == [conn[c] EXCEPT !.write = "writable"]
<1>1. /\ callback.run = "response" /\ callback' = NoCallback /\ gone' \in BOOLEAN
      /\ conn \in Table /\ conn[c] # null /\ conn[c] \in ConnType /\ Good(conn, channel)
      /\ channel' \in Changed(conn, conn', channel)
  BY DEF IInv, TypeOK, Table, BecomesWritable, Responding, Alive
<1>2. v \in ConnType /\ v.write = "writable"
  BY <1>1 DEF ConnType, WriteState
<1>3. conn' = [conn EXCEPT ![c] = v]
  BY <1>1 DEF BecomesWritable, Table
<1> HIDE DEF v
<1>4. /\ conn' \in Table /\ conn'[c] # null /\ conn'[c].write = "writable"
      /\ \A d \in Ids : conn[d] = null <=> conn'[d] = null
  BY <1>1, <1>2, <1>3, NullConnAssumption DEF Table
<1>5. channel' \in ChannelType /\ Good(conn', channel') /\ Moves
  BY <1>1, <1>4, ChangedStep
<1>6. Active(conn')
  BY <1>4 DEF Active, Alive
<1>7. channel.had
  BY <1>1 DEF Good, Remembers, Alive
<1>8. Follows
  BY <1>1, <1>5, <1>6, <1>7, NoCallbackType DEF Follows, Moves
<1> QED BY <1>1, <1>4, <1>5, <1>8, NoCallbackType DEF IInv, TypeOK, Table, Responding, Alive

(* A fatal error response: _on_connection_destroyed.                       *)
LEMMA ErrorResponseStep ==
    ASSUME IInv, NEW c \in Ids, ErrorResponse(c)
    PROVE  IInv' /\ Follows
<1>1. /\ conn \in Table /\ channel \in ChannelType /\ conn[c] # null /\ gone' \in BOOLEAN
      /\ Good(conn, channel)
      /\ callback' = callback /\ callback.run = "none" /\ callback \in CallbackType
  BY DEF IInv, TypeOK, Table, ErrorResponse, Answered, Unanswered, Idle
<1>2. conn' = [conn EXCEPT ![c] = null]
  BY DEF ErrorResponse
<1>3. /\ conn' \in Table /\ conn'[c] = null
      /\ \A d \in Ids : d # c => conn'[d] = conn[d]
  BY <1>1, <1>2 DEF Table
<1>4. Alive(conn') \subseteq Alive(conn) /\ \A d \in Alive(conn') : conn'[d] = conn[d]
  BY <1>1, <1>3 DEF Alive
<1>5. CASE channel.selected = c
  <2> DEFINE ch == Switched(channel, null)
  <2>1. PICK stale : channel' \in SortedAndUpdated(conn', ch, stale)
    BY <1>2, <1>5 DEF ErrorResponse
  <2>2. /\ ch \in ChannelType /\ ch.selected = null /\ ch.ctlSelected = channel.ctlSelected
        /\ ch.had = channel.had /\ ch.ever = channel.ever
    BY <1>1 DEF Switched, ChannelType
  <2> HIDE DEF ch
  <2>3. Agree(conn', ch) /\ Remembers(conn', ch)
    BY <1>1, <1>4, <2>2 DEF Good, Agree, Remembers
  <2>4. channel' \in ChannelType /\ Good(conn', channel') /\ Selects(conn', ch, channel')
    BY <1>3, <2>1, <2>2, <2>3, SortFacts, SortGood
  <2>5. Follows
    BY <1>1, <1>3, <1>5, <2>2, <2>4 DEF Follows, Selects, Alive
  <2> QED BY <1>1, <1>3, <2>4, <2>5 DEF IInv, TypeOK, Table, Responding, Alive
<1>6. CASE channel.selected # c
  <2>1. channel' = Updated(conn', channel)
    BY <1>2, <1>6 DEF ErrorResponse
  <2>2. /\ channel' \in ChannelType /\ Fresh(conn', channel') /\ channel'.had = channel.had
        /\ channel'.selected = channel.selected /\ channel'.ctlSelected = channel.ctlSelected
    BY <1>1, <2>1, UpdatedFacts
  <2>3. channel'.ever <=> (channel.ever \/ channel'.writable)
    BY <1>1, <2>1, UpdatedFacts DEF Fresh
  <2>4. Agree(conn', channel') /\ Agree(conn', channel)
    BY <1>1, <1>3, <1>6, <2>2 DEF Good, Agree, ChannelType
  <2>5. Remembers(conn', channel)
    BY <1>1, <1>4 DEF Good, Remembers
  <2>6. Unselected(conn', channel')
    BY <1>1, <1>4, <2>2 DEF Good, Unselected, ReadyToSend
  <2>7. Selects(conn', channel, channel')
    BY <2>2, <2>3 DEF Selects
  <2>8. Good(conn', channel')
    BY <1>1, <1>3, <2>2, <2>4, <2>5, <2>6, <2>7, SortGood
  <2>9. Follows
    BY <1>1, <2>2, <2>3 DEF Follows
  <2> QED BY <1>1, <1>3, <2>2, <2>8, <2>9 DEF IInv, TypeOK, Table, Responding, Alive
<1> QED BY <1>5, <1>6

-----------------------------------------------------------------------------
LEMMA Initially == Init => IInv
<1> SUFFICES ASSUME Init PROVE IInv
  OBVIOUS
<1>1. conn \in Table /\ Alive(conn) = {}
  BY DEF Init, Table, Alive
<1>2. /\ channel \in ChannelType
      /\ channel.selected = null /\ channel.ctlSelected = null
  BY DEF Init, ChannelType, IceTransportState
<1>3. ~channel.had /\ ~channel.ever /\ ~channel.writable /\ channel.state = "new"
  BY DEF Init
<1>4. Fresh(conn, channel)
  BY <1>1, <1>2, <1>3 DEF Fresh, Writable, Active, ComputeIceTransportState
<1>5. gone \in BOOLEAN /\ callback = NoCallback
  BY DEF Init
<1> QED BY <1>1, <1>2, <1>3, <1>4, <1>5, NoCallbackType
        DEF IInv, TypeOK, Table, Good, Remembers, Agree, Unselected, Responding

LEMMA Preserved == IInv /\ [Next]_vars => IInv' /\ Follows
<1> SUFFICES ASSUME IInv, [Next]_vars PROVE IInv' /\ Follows
  OBVIOUS
<1>1. ASSUME NEW c \in Ids, UnknownAddress(c) PROVE IInv' /\ Follows
  BY <1>1, UnknownAddressStep
<1>2. ASSUME NEW c \in Ids, Ping(c) PROVE IInv' /\ Follows
  BY <1>2, PingStep
<1>3. ASSUME NEW c \in Ids, NEW r \in Rtts[c], ReceivedPingResponse(c, r) PROVE IInv' /\ Follows
  BY <1>3, ReceivedPingResponseStep
<1>4. ASSUME NEW c \in Ids, BecomesWritable(c) PROVE IInv' /\ Follows
  BY <1>4, BecomesWritableStep
<1>5. ASSUME NEW c \in Ids, WriteUnreliable(c) \/ WriteTimeout(c) \/ ReceiveTimeout(c)
      PROVE  IInv' /\ Follows
  BY <1>5, UpdateStep
<1>6. ASSUME NEW c \in Ids, ErrorResponse(c) PROVE IInv' /\ Follows
  BY <1>6, ErrorResponseStep
<1>7. ASSUME UNCHANGED <<conn, channel>>, gone' \in BOOLEAN,
             callback' = callback \/ (callback' = NoCallback /\ callback.run = "update")
      PROVE  IInv' /\ Follows
  <2>1. Good(conn, channel)' /\ TypeOK' /\ Responding'
    BY <1>7, NoCallbackType
       DEF IInv, TypeOK, Good, Fresh, Remembers, Agree, Unselected, Writable, Active, Alive,
           ReadyToSend, Responding
  <2>2. callback.run = "response" => channel.had
    BY DEF IInv, Good, Remembers, Alive, Responding, TypeOK, CallbackType
  <2>3. Follows
    BY <1>7, <2>2, NoCallbackType DEF Follows, Active, Alive
  <2> QED BY <2>1, <2>3 DEF IInv
<1>8. NoPing \/ PeerGone \/ UNCHANGED vars =>
         /\ UNCHANGED <<conn, channel>> /\ gone' \in BOOLEAN
         /\ callback' = callback \/ (callback' = NoCallback /\ callback.run = "update")
  BY DEF NoPing, PeerGone, vars, IInv, TypeOK
<1> QED BY <1>1, <1>2, <1>3, <1>4, <1>5, <1>6, <1>7, <1>8 DEF Next

LEMMA Inductive == Spec => []IInv
BY Initially, Preserved, PTL DEF Spec

(* The connections, the two selections and the state of the channel keep   *)
(* their types.                                                            *)
THEOREM TypeCorrect == Spec => []TypeOK
BY Inductive, PTL DEF IInv

(* The selected_connection_ of channel and controller agree on a living    *)
(* connection while the channel has one, and before the first selection no *)
(* connection can send (ice_transport_channel.cpp, ice_controller.cpp).    *)
THEOREM Selection == Spec => []SelectionSound
<1>1. IInv => SelectionSound
  BY DEF IInv, Good, Agree, Unselected, SelectionSound
<1> QED BY <1>1, Inductive, PTL

(* _switch_selected_connection takes only connections that can send, and   *)
(* the selection is dropped only with its connection.                      *)
THEOREM Switches == Spec => SwitchesToReady
<1>1. Follows => (channel'.selected # channel.selected =>
          IF channel'.selected # null
          THEN ReadyToSend(conn', channel'.selected)
          ELSE conn'[channel.selected] = null)
  BY DEF Follows
<1> QED BY <1>1, Inductive, Preserved, PTL DEF Spec, SwitchesToReady

(* Every channel of IceConnections is an IceLink: the layers above see     *)
(* only the steps PeerTransport is built on, and a callback of several     *)
(* signals does not both fail the channel and revive it.                   *)
THEOREM Refinement == Spec => ImplementsLink
<1>1. Init => link = NewLink
  <2>1. ASSUME Init PROVE Active(conn) = FALSE
    BY <2>1 DEF Init, Active, Alive
  <2>2. ASSUME Init
        PROVE  /\ channel.had = FALSE /\ channel.ever = FALSE
               /\ channel.writable = FALSE /\ channel.state = "new"
    BY <2>2 DEF Init
  <2> QED BY <2>1, <2>2, Zenon DEF link, NewLink
<1>2. IInv => LinkOK(link)
  <2> SUFFICES ASSUME IInv PROVE LinkOK(link)
    OBVIOUS
  <2>1. channel.writable => Active(conn)
    BY DEF IInv, TypeOK, Good, Fresh, Agree, Writable, Active, Alive, ChannelType
  <2>2. Active(conn) => channel.had
    BY DEF IInv, Good, Remembers, Active
  <2>3. /\ link.had = channel.had /\ link.active = Active(conn) /\ link.ever = channel.ever
        /\ link.writable = channel.writable /\ link.state = channel.state
    BY DEF link
  <2> QED BY <2>1, <2>2, <2>3 DEF LinkOK, IInv, Good, Fresh, Remembers
<1>3. IInv /\ IInv' /\ Follows => LinkStep(link, link') /\ OneWay
  <2> SUFFICES ASSUME IInv, IInv', Follows PROVE LinkStep(link, link') /\ OneWay
    OBVIOUS
  <2>1. LinkOK(link) /\ LinkOK(link)'
    BY <1>2, PTL
  <2>2. /\ link'.had = channel'.had /\ link'.ever = channel'.ever
        /\ link'.writable = channel'.writable /\ link'.active = Active(conn')
        /\ link.had = channel.had /\ link.ever = channel.ever /\ link.active = Active(conn)
    BY DEF link
  <2>3. LinkOK(link)' <=> LinkOK(link')
    BY DEF LinkOK
  <2>4. LinkStep(link, link')
    BY <2>1, <2>2, <2>3, Zenon DEF LinkStep, Follows
  <2>5. /\ link.state = "failed" <=> link.had /\ ~link.active
        /\ link'.state = "failed" <=> link'.had /\ ~link'.active
    BY <2>1, <2>3 DEF LinkOK, ComputeIceTransportState
  <2>6. OneWay
    BY <2>2, <2>5 DEF OneWay, Revives, Follows
  <2> QED BY <2>4, <2>6
<1> QED BY <1>1, <1>2, <1>3, Inductive, Preserved, PTL DEF Spec, ImplementsLink
=============================================================================
