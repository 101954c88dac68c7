---------------------------- MODULE TcpConnection ----------------------------
(***************************************************************************)
(* One client connection of a SignalingWorker: how read_query and          *)
(* _process_query_buffer cut the request out of the byte stream, and when  *)
(* process_timeout closes a silent connection.                             *)
(*                                                                         *)
(* A client sends a head of HeadSize bytes, which holds a magic number and *)
(* the length of the body, then the body, and possibly more.  The sizes    *)
(* are scaled down; times are the real ones, in microseconds, and advance  *)
(* by Tick.                                                                *)
(***************************************************************************)
EXTENDS Naturals

CONSTANTS
    HeadSize,           \* XHEAD_SIZE (36)
    BodyLens,           \* body_len a client may announce
    DoneMark,           \* bytes_processed after a request (65535)
    MaxBytes,           \* bound on the bytes a client sends
    MaxHandled,         \* bound on the iterations over a complete request
    ConnectionTimeout,  \* options_.connection_timeout as configured (5000), which
                        \* the code compares with microseconds
    Tick,               \* grain of time, in microseconds
    Period              \* period of the connection's timer (100000)

ASSUME SizesAssumption ==
    /\ HeadSize \in Nat \ {0} /\ BodyLens \subseteq Nat
    /\ DoneMark \in Nat /\ MaxBytes \in Nat /\ MaxHandled \in Nat \ {0}
    /\ \A b \in BodyLens : HeadSize + b < DoneMark
ASSUME TimesAssumption ==
    /\ ConnectionTimeout \in Nat /\ Tick \in Nat \ {0} /\ Period \in Nat \ {0}
    /\ Period % Tick = 0

VARIABLES
    request,  \* what the client sends: magic and body right?, length of body
    sent,     \* bytes the client has sent
    conn,     \* fields of TcpConnection; handled counts _process_request
    looping,  \* is the worker inside the loop of _process_query_buffer?
    open,     \* "open", or why the connection was closed
    idle,     \* el_->now() - last_interaction
    phase     \* time since the timer last fired

connVars == <<request, sent, conn, looping, open, idle, phase>>

RequestType == [magicOK : BOOLEAN, bodyOK : BOOLEAN, bodyLen : BodyLens]

ConnType ==
    [state : {"head", "body"}, buf : Nat, processed : {0, HeadSize, DoneMark},
     expected : {HeadSize} \cup BodyLens, handled : 0 .. MaxHandled]

ConnTypeOK ==
    /\ request \in RequestType
    /\ sent \in 0 .. MaxBytes
    /\ conn \in ConnType /\ conn.buf <= sent
    /\ looping \in BOOLEAN
    /\ open \in {"open", "timeout", "peer", "error"}
    /\ idle \in Nat /\ phase \in 0 .. Period

(* _handle_new_conn.  An empty body is no JSON.                            *)
ConnInit ==
    /\ request \in {r \in RequestType : r.bodyOK => r.bodyLen > 0}
    /\ sent = 0
    /\ conn = [state |-> "head", buf |-> 0, processed |-> 0,
               expected |-> HeadSize, handled |-> 0]
    /\ looping = FALSE
    /\ open = "open"
    /\ idle = 0 /\ phase = 0

-----------------------------------------------------------------------------
(* The client.                                                             *)
Send(n) ==
    /\ sent + n <= MaxBytes
    /\ sent' = sent + n
    /\ UNCHANGED <<request, conn, looping, open, idle, phase>>

(* The loop is free to run a callback of this connection.                  *)
Ready == open = "open" /\ ~looping

Close(why) ==
    /\ open' = why
    /\ looping' = FALSE
    /\ UNCHANGED <<request, sent, conn, phase>>

(* read_query: at most bytes_expected bytes, however many of them the      *)
(* buffer already has; then the loop is entered.                           *)

ReadQuery(n) ==
    /\ Ready
    /\ n \in 1 .. conn.expected /\ conn.buf + n <= sent
    /\ conn' = [conn EXCEPT !.buf = @ + n]
    /\ looping' = TRUE
    /\ idle' = 0
    /\ UNCHANGED <<request, sent, open, phase>>

(* read() fails or the peer has closed.                                    *)
ReadFails == Ready /\ Close("peer") /\ idle' = 0

(* _process_query_buffer, one iteration of the loop at a time.             *)
CompleteTooSoon ==
    conn.buf >= conn.processed + (IF conn.state = "head" THEN conn.expected ELSE 1)

Complete == conn.buf >= conn.processed + conn.expected

ProcessHead ==
    /\ looping /\ Complete /\ conn.state = "head"
    /\ \/ ~request.magicOK /\ Close("error") /\ UNCHANGED idle
       \/ /\ request.magicOK
          /\ conn' = [conn EXCEPT !.state = "body", !.processed = HeadSize,
                                  !.expected = request.bodyLen]
          /\ UNCHANGED <<request, sent, looping, open, idle, phase>>

ProcessBody ==
    /\ looping /\ Complete /\ conn.state = "body"
    /\ conn.handled < MaxHandled
    /\ \/ ~request.bodyOK /\ Close("error") /\ UNCHANGED idle
       \/ /\ request.bodyOK
          /\ conn' = [conn EXCEPT !.processed = DoneMark, !.handled = @ + 1]
          /\ UNCHANGED <<request, sent, looping, open, idle, phase>>

LeaveLoop ==
    /\ looping /\ ~Complete
    /\ looping' = FALSE
    /\ UNCHANGED <<request, sent, conn, open, idle, phase>>

(* write_reply has written the answer.                                     *)
WriteReply ==
    /\ Ready /\ conn.handled > 0
    /\ idle' = 0
    /\ UNCHANGED <<request, sent, conn, looping, open, phase>>

(* Time passes; the repeating timer is served when it is due.              *)
Pass ==
    /\ Ready /\ phase + Tick <= Period
    /\ idle' = idle + Tick /\ phase' = phase + Tick
    /\ UNCHANGED <<request, sent, conn, looping, open>>

(* process_timeout.                                                        *)
TimedOutTooLong == idle >= ConnectionTimeout + Period
TimedOut == idle >= ConnectionTimeout

ProcessTimeout ==
    /\ Ready /\ phase >= Period
    /\ \/ TimedOut /\ Close("timeout") /\ UNCHANGED idle
       \/ /\ ~TimedOut
          /\ phase' = 0
          /\ UNCHANGED <<request, sent, conn, looping, open, idle>>

ConnNext ==
    \/ \E n \in 1 .. MaxBytes : Send(n) \/ ReadQuery(n)
    \/ ReadFails \/ ProcessHead \/ ProcessBody \/ LeaveLoop \/ WriteReply
    \/ Pass \/ ProcessTimeout

ConnSpec == ConnInit /\ [][ConnNext]_connVars

-----------------------------------------------------------------------------
RequestLen == HeadSize + request.bodyLen

(* Framing does not depend on how TCP cuts the stream: between callbacks   *)
(* an open connection has handled its request if and only if all of its    *)
(* bytes have been read, and a request with a wrong head or body is never  *)
(* handled and never survives its last byte.                               *)
FramingExact ==
    /\ conn.handled > 0 => conn.buf >= RequestLen /\ request.magicOK /\ request.bodyOK
    /\ Ready /\ conn.buf >= RequestLen => conn.handled > 0

(* process_timeout: a silent connection does not outlive its timeout by    *)
(* more than one period of the timer that looks for it, and none is closed *)
(* for silence before its timeout. Both in the unit of the comparison:     *)
(* microseconds, though settings.h means milliseconds.                     *)
ClosedInTime ==
    /\ Ready => idle <= ConnectionTimeout + Period
    /\ open = "timeout" => idle \in ConnectionTimeout .. ConnectionTimeout + Period

=============================================================================
