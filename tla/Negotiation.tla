------------------------------ MODULE Negotiation ------------------------------
(* The offer of a browser, what set_remote_sdp takes from it and the answer that *)
(* create_answer makes, with the transports and receive streams they set up.     *)
EXTENDS Sdp

CONSTANT Orders    \* the sources of a video section, in the order of their lines

\* A video source and its retransmissions; 0 is no source and 10 that of the audio.
ASSUME OrdersAssumption ==
    \A order \in Orders :
        /\ order \in Seq(Nat \ {0, 10}) /\ Len(order) <= 2
        /\ Len(order) = 2 => order[1] # order[2]

VARIABLE coded     \* the last value coded: what it is, and what was read back

Nothing == [kind |-> "nothing"]
Made(kind, value, wire, parsed) ==
    coded' = [kind |-> kind, value |-> value, wire |-> wire, parsed |-> parsed]
Is(kind) == coded.kind = kind

\* The credentials of a section, other ones in each, so that a mix-up would show.
Ufrag(m) == IF m = "audio" THEN "u_audio" ELSE "u_video"
Pwd(m) == IF m = "audio" THEN "p_audio" ELSE "p_video"
Credentials(m) == [ufrag |-> Ufrag(m), pwd |-> Pwd(m), fingerprint |-> TRUE]

\* An offer with the sections of a browser, for a publisher or a player.
SsrcLines(order) == [i \in DOMAIN order |-> SsrcLine(order[i], "v")]
Section(m, order) ==
    <<MLine(m, 4), UfragLine(Ufrag(m)), PwdLine(Pwd(m)), FingerprintLine(TRUE)>>
        \o (IF m = "audio" THEN <<SsrcLine(10, "a"), SsrcLine(10, "a")>>
            ELSE <<FmtpLine(107), RtxMapLine(99), RtxMapLine(100), GroupLine(order)>> \o SsrcLines(order))
Offer(ms, order) ==
    Section(ms[1], order) \o (IF Len(ms) = 1 THEN <<>> ELSE Section(ms[2], order))

Negotiated ==
    \E order \in Orders, ms \in {<<"audio">>, <<"video">>, <<"audio", "video">>, <<"video", "audio">>},
          push, audio, video \in BOOLEAN :
          LET pc == PeerConnectionOf(ParseLines(Offer(ms, order)))
              opt == Options(push, audio, video)
          IN Made("sdp", [ms |-> ms, order |-> order, push |-> push, wanted |-> opt.send \cup opt.recv],
                  CreateAnswer(pc, opt, pc.tracks, "local"), pc)

\* One negotiation after the other.
NegotiationInit == coded = Nothing
NegotiationSpec == NegotiationInit /\ [][Negotiated]_coded

--------------------------------------------------------------------------------
(* The answer has the sections that were offered and are wanted; they share one  *)
(* transport, which knows the other side's credentials, and with audio it is the *)
(* one packets are sent on. A publisher's sources, in the order of the FID       *)
(* group, reach the stream of their medium.                                      *)
AnswerSound ==
    Is("sdp") =>
        LET v == coded.value  a == coded.wire  pc == coded.parsed
            T == LocalTransports(a)
        IN /\ {s.mid : s \in ToSet(a.sections)} = ToSet(v.ms) \cap v.wanted
           /\ a.sections # <<>> =>
                 /\ Cardinality(T) = 1
                 /\ \A t \in T : /\ t \in DOMAIN RemoteParams(pc, T)
                                 /\ RemoteParams(pc, T)[t] = Credentials(t)
                 /\ "audio" \in v.wanted \cap ToSet(v.ms) => SendTransport \in T
           /\ "audio" \in ToSet(v.ms) => Dispatch(pc, 10) = "audio"
           /\ "video" \in ToSet(v.ms) =>
                 /\ \A i \in DOMAIN v.order : Dispatch(pc, v.order[i]) = "video"
                 /\ v.order # <<>> => pc.receive.video = v.order[1]
                 /\ pc.payload = [h264 |-> 107, rtx |-> 99]
================================================================================
