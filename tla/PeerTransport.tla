---------------------------- MODULE PeerTransport ----------------------------
(***************************************************************************)
(* pc/transport_controller.cpp with pc/dtls_transport.cpp,                 *)
(* pc/dtls_srtp_transport.cpp and ice/ice_agent.cpp: the transports of one *)
(* PeerConnection from the moment its answer is made.  Each transport is   *)
(* an IceTransportChannel (here an IceLink), a DtlsTransport on top of it  *)
(* and a DtlsSrtpTransport on top of that; the TransportController sums    *)
(* their states up for the PeerConnection.                                 *)
(*                                                                         *)
(* Everything is one thread, but a callback sets off signals whose slots   *)
(* run in the order in which they were connected and see the objects half  *)
(* changed.  A step therefore computes, in order, the moments at which     *)
(* TransportController::_update_state runs.  The callback of a channel can *)
(* change the channel several times, which is several steps; `reports'     *)
(* holds what was reported in the whole callback.                          *)
(*                                                                         *)
(* With dtls_on false, which only a request can ask for, there would be no *)
(* DtlsTransport and IceAgent's states would be passed on as they are;     *)
(* that branch is left out.                                                *)
(*                                                                         *)
(* create_answer returns early without a certificate, so every             *)
(* DtlsTransport has one; remote fingerprints are set once, before packets *)
(* can arrive.                                                             *)
(***************************************************************************)
EXTENDS Naturals, FiniteSets, Sequences, IceLink

CONSTANT Transports   \* mids with a transport of their own (one in a bundle)

ASSUME TransportsAssumption == IsFiniteSet(Transports) /\ Transports # {}

DtlsTransportState == {"new", "connecting", "connected", "closed", "failed"}
PeerConnectionState == {"new", "connecting", "connected", "disconnected", "failed"}

VARIABLES
    links,    \* [Transports -> the IceTransportChannel as an IceLink]
    agent,    \* IceAgent::ice_state_
    dtls,     \* [Transports -> DtlsTransport]
    srtp,     \* [Transports -> are the SrtpSessions of DtlsSrtpTransport set?]
    noKeys,   \* [Transports -> could the keys not be exported?]
    pc,       \* TransportController::pc_state_
    reports,  \* what signal_connection_state carried in this callback
    within    \* {t} if the callback of channel t goes on, {} if none does

vars == <<links, agent, dtls, srtp, noKeys, pc, reports, within>>

DtlsType ==
    [ssl : BOOLEAN,                         \* dtls_ is set
     digest : BOOLEAN,                      \* and knows the peer's fingerprint
     state : DtlsTransportState,
     writable : BOOLEAN,
     hello : {"none", "good", "malformed"}] \* cached_client_hello_

TypeOK ==
    /\ links \in [Transports -> LinkType]
    /\ agent \in IceTransportState
    /\ dtls \in [Transports -> DtlsType]
    /\ srtp \in [Transports -> BOOLEAN]
    /\ noKeys \in [Transports -> BOOLEAN]
    /\ pc \in PeerConnectionState
    /\ reports \subseteq PeerConnectionState
    /\ within \in {{}} \cup {{t} : t \in Transports}

-----------------------------------------------------------------------------
(* The two summaries, over functions from transports to states.            *)
Count(f, s) == Cardinality({t \in DOMAIN f : f[t] = s})

(* IceAgent::_update_state.                                                *)

AgentStateNoDisconnected(ice) ==
    IF Count(ice, "failed") > 0 THEN "failed"
    ELSE IF Count(ice, "new") = Cardinality(DOMAIN ice) THEN "new"
    ELSE IF Count(ice, "new") + Count(ice, "checking") > 0 THEN "checking"
    ELSE "connected"

AgentState(ice) ==
    IF Count(ice, "failed") > 0 THEN "failed"
    ELSE IF Count(ice, "disconnected") > 0 THEN "disconnected"
    ELSE IF Count(ice, "new") = Cardinality(DOMAIN ice) THEN "new"
    ELSE IF Count(ice, "new") + Count(ice, "checking") > 0 THEN "checking"
    ELSE "connected"

(* TransportController::_update_state.                                     *)
PcStateConnectedFirst(ice, d) ==
    LET totalNew == Count(ice, "new") + Count(d, "new")
        ended == Count(ice, "connected") + Count(d, "connected") + Count(d, "closed")
    IN  IF Count(ice, "failed") + Count(d, "failed") > 0 THEN "failed"
        ELSE IF Count(ice, "disconnected") > 0 THEN "disconnected"
        ELSE IF ended >= Cardinality(DOMAIN d) THEN "connected"
        ELSE IF Count(ice, "checking") + Count(d, "connecting") > 0 THEN "connecting"
        ELSE "new"

PcState(ice, d) ==
    LET totalNew == Count(ice, "new") + Count(d, "new")
        totalClosed == Count(d, "closed")
        totalConnected == Count(ice, "connected") + Count(d, "connected")
        total == 2 * Cardinality(DOMAIN d)
    IN  IF Count(ice, "failed") + Count(d, "failed") > 0 THEN "failed"
        ELSE IF Count(ice, "disconnected") > 0 THEN "disconnected"
        ELSE IF totalNew + totalClosed = total THEN "new"
        ELSE IF Count(ice, "checking") + Count(d, "connecting") + totalNew > 0
             THEN "connecting"
        ELSE IF totalConnected + totalClosed = total THEN "connected"
        ELSE "new"

IceOf(ls) == [t \in Transports |-> ls[t].state]
DtlsOf(ds) == [t \in Transports |-> ds[t].state]

(* _update_state runs at the moments ms, a sequence of the pc states it    *)
(* computes; it reports the ones that change pc_state_.                    *)
Reported(ms) ==
    {ms[i] : i \in {j \in 1 .. Len(ms) : ms[j] # IF j = 1 THEN pc ELSE ms[j - 1]}}

UpdateState(ms) ==
    /\ pc' = IF ms = <<>> THEN pc ELSE ms[Len(ms)]
    /\ reports' = (IF within = {} THEN {} ELSE reports) \cup Reported(ms)

-----------------------------------------------------------------------------
(* What a handler makes of DtlsTransport d: its value at the end, and the  *)
(* states it takes on the way, each of which is signalled.                 *)
Stays(d) == [d |-> d, via |-> <<>>]
NowIn(d, s) == [d |-> [d EXCEPT !.state = s], via |-> <<s>>]

(* _maybe_start_dtls: StartSSL fails, which leaves the cache alone, or DTLS *)
(* is started and the cached ClientHello handed to it at once.             *)
Started(d) ==
    LET n == [d EXCEPT !.hello = "none"] IN
    {NowIn(d, "failed"),
     IF d.hello = "malformed"
     THEN [d |-> [n EXCEPT !.state = "failed"], via |-> <<"connecting", "failed">>]
     ELSE NowIn(n, "connecting")}

MaybeStartDtls(d, iceWritable) == IF d.ssl /\ iceWritable THEN Started(d) ELSE {Stays(d)}

(* _setup_dtls creates dtls_ and may start it.                             *)
SetupDtls(d, iceWritable) == MaybeStartDtls([d EXCEPT !.ssl = TRUE], iceWritable)

(* The pc states _update_state computes while DtlsTransport t goes through *)
(* the states via and the channels are still as in ls.                     *)
PcStateWith(ls, t, s) == PcState(IceOf(ls), [DtlsOf(dtls) EXCEPT ![t] = s])
Moments(t, ls, via) == [i \in 1 .. Len(via) |-> PcStateWith(ls, t, via[i])]

(* DtlsTransport t ends as d.  After each change of its state              *)
(* DtlsSrtpTransport::_on_dtls_state drops the SRTP sessions unless DTLS   *)
(* is connected and writable, and sets them up if the keys can be exported.*)
SrtpAfter(d, keys) == d.state = "connected" /\ d.writable /\ keys

DtlsBecomes(t, d, keys) ==
    /\ dtls' = [dtls EXCEPT ![t] = d]
    /\ IF d.state = dtls[t].state
       THEN UNCHANGED <<srtp, noKeys>>
       ELSE /\ srtp' = [srtp EXCEPT ![t] = SrtpAfter(d, keys)]
            /\ noKeys' = [noKeys EXCEPT ![t] = d.state = "connected" /\ ~keys]

-----------------------------------------------------------------------------
(* The answer has been made: set_remote_fingerprint has set DTLS up, has   *)
(* failed on a bad fingerprint, or was not called at all.                  *)
BornDtls(fp) ==
    [ssl |-> fp # "none", digest |-> fp = "good",
     state |-> IF fp = "bad" THEN "failed" ELSE "new",
     writable |-> FALSE, hello |-> "none"]

Init ==
    /\ links = [t \in Transports |-> NewLink]
    /\ agent = "new"
    /\ \E fp \in [Transports -> {"none", "good", "bad"}] :
          dtls = [t \in Transports |-> BornDtls(fp[t])]
    /\ srtp = [t \in Transports |-> FALSE]
    /\ noKeys = [t \in Transports |-> FALSE]
    /\ pc = PcState(IceOf(links), DtlsOf(dtls))
    /\ reports = {pc} \ {"new"}
    /\ within = {}

(* IceTransportChannel::_update_state has new values l.  First the         *)
(* writable signal: DtlsTransport::_on_writable_state starts DTLS, or      *)
(* follows when it is connected.  Then the state signal: IceAgent reports  *)
(* to the TransportController only if its own summary changes.             *)
OnWritableStateStarted(d, w) ==
    IF d.state = "connected" THEN {Stays([d EXCEPT !.writable = w])} ELSE {Stays(d)}

OnWritableState(d, w) ==
    CASE d.state = "new" -> MaybeStartDtls(d, w)
      [] d.state = "connected" -> {Stays([d EXCEPT !.writable = w])}
      [] OTHER -> {Stays(d)}

(* The callback may go on and change the channel again, but not once it    *)
(* has made it fail (IceChannel's ImplementsLink).                         *)
GoesOn(t, l) == within' \in (IF l.state = "failed" THEN {{}} ELSE {{}, {t}})

IceUpdate(t, l) ==
    LET ls == [links EXCEPT ![t] = l]
        a == AgentState(IceOf(ls)) IN
    /\ within \subseteq {t}
    /\ LinkStep(links[t], l) /\ l # links[t]
    /\ links' = ls
    /\ agent' = a
    /\ \E r \in IF l.writable # links[t].writable
                THEN OnWritableState(dtls[t], l.writable) ELSE {Stays(dtls[t])} :
          LET afterIce == IF a # agent THEN <<PcStateWith(ls, t, r.d.state)>> ELSE <<>> IN
          /\ UpdateState(Moments(t, links, r.via) \o afterIce)
          /\ DtlsBecomes(t, r.d, TRUE)
    /\ GoesOn(t, l)

(* _on_read_packet before DTLS is started: a ClientHello is kept, and sets *)
(* DTLS up if no fingerprint has done so.                                  *)
CacheClientHello(t, h) ==
    LET d == [dtls[t] EXCEPT !.hello = h] IN
    /\ within = {}
    /\ links[t].had /\ d.state = "new"
    /\ \E r \in IF d.ssl THEN {Stays(d)} ELSE SetupDtls(d, links[t].writable) :
          UpdateState(Moments(t, links, r.via)) /\ DtlsBecomes(t, r.d, TRUE)
    /\ UNCHANGED <<links, agent, within>>

(* _on_dtls_event with SE_OPEN and SE_READ: a DTLS packet completes the    *)
(* handshake, writable first, then connected; what is read at once may end *)
(* DTLS again.  SSLStreamAdapter completes it only with a fingerprint.     *)
HandshakeComplete(t, keys, ends) ==
    LET d == [dtls[t] EXCEPT !.state = "connected", !.writable = TRUE] IN
    /\ within = {}
    /\ links[t].had /\ dtls[t].state = "connecting" /\ dtls[t].digest
    /\ IF ends = "open"
       THEN UpdateState(Moments(t, links, <<"connected">>)) /\ DtlsBecomes(t, d, keys)
       ELSE /\ UpdateState(Moments(t, links, <<"connected", ends>>))
            /\ DtlsBecomes(t, [d EXCEPT !.state = ends, !.writable = FALSE], keys)
    /\ UNCHANGED <<links, agent, within>>

(* _on_dtls_event with SE_READ or SE_CLOSE: the peer closes DTLS, or the   *)
(* handshake or a record fails.                                            *)
DtlsEnds(t, s) ==
    LET d == [dtls[t] EXCEPT !.state = s, !.writable = FALSE] IN
    /\ within = {}
    /\ links[t].had /\ dtls[t].state \in {"connecting", "connected"}
    /\ UpdateState(Moments(t, links, <<d.state>>))
    /\ DtlsBecomes(t, d, TRUE)
    /\ UNCHANGED <<links, agent, within>>

Next ==
    \E t \in Transports :
       \/ \E l \in Links : IceUpdate(t, l)
       \/ \E h \in {"good", "malformed"} : CacheClientHello(t, h)
       \/ \E keys \in BOOLEAN, ends \in {"open", "closed", "failed"} :
             HandshakeComplete(t, keys, ends)
       \/ \E s \in {"closed", "failed"} : DtlsEnds(t, s)

Spec == Init /\ [][Next]_vars

-----------------------------------------------------------------------------
(* pc_state_ is never stale: after every signal it is the summary of the   *)
(* transports as they are, although IceAgent passes on only the changes of *)
(* its own summary, the slots ran while the channel still had its old      *)
(* state, and _on_dtls_writable_state is not connected to the writable     *)
(* signal (transport_controller.cpp:72).                                   *)
PcStateFresh == pc = PcState(IceOf(links), DtlsOf(dtls))

(* `failed', on which RtcStream deletes the stream, is never taken back    *)
(* within the callback that reports it.  (`connected' may be: what is read *)
(* right after the handshake can end DTLS, and the ping timer can fail a   *)
(* connection it has just switched to.)                                    *)
FailedIsFinal == "failed" \in reports => pc = "failed"

(* What RtcStream is told of the transports is true: not stale, and what   *)
(* it cannot undo is not taken back in the same callback.                  *)
ReportsSound == PcStateFresh /\ FailedIsFinal

(* Media keys: SRTP is active exactly while DTLS is connected, unless the  *)
(* keys could not be exported.  (There is one chance: nothing sets SRTP up *)
(* again when DTLS becomes writable later.)                                *)
SrtpFollowsDtls ==
    \A t \in Transports :
       srtp[t] <=> (dtls[t].state = "connected" /\ ~noKeys[t])

(* DTLS never waits for something that has already happened: once it is    *)
(* set up and the channel is writable it has been started, and no early    *)
(* ClientHello is left behind in the cache.                                *)
HandshakeNotStuck ==
    \A t \in Transports :
       /\ dtls[t].ssl /\ links[t].writable => dtls[t].state # "new"
       /\ dtls[t].hello # "none" => dtls[t].ssl
       /\ dtls[t].state \in {"connecting", "connected"} => dtls[t].hello = "none"

(* A connected PeerConnection can carry media on every transport, unless   *)
(* the peer has closed DTLS (which leaves it connected) or the export of   *)
(* the keys failed.                                                        *)
ConnectedCarriesMedia ==
    pc = "connected" =>
       \A t \in Transports :
          /\ links[t].state = "connected"
          /\ srtp[t] \/ noKeys[t] \/ dtls[t].state = "closed"

(* Keys and states agree: SRTP is keyed while DTLS is connected and only   *)
(* then, and a PeerConnection reported connected can carry media.          *)
MediaPathSound == SrtpFollowsDtls /\ ConnectedCarriesMedia
=============================================================================
