---------------------------------- MODULE Sdp ----------------------------------
(* pc/session_description and the negotiation of pc/peer_connection: what        *)
(* set_remote_sdp takes from an offer and create_answer makes of it. A line of   *)
(* SDP is a record with its kind k and what the code reads of it; lines the code *)
(* ignores are left out.                                                         *)
EXTENDS Integers, Sequences, SequencesExt, FiniteSets

Media == {"audio", "video"}
Empty == "empty"                                      \* stands for the empty string
MLine(media, items) == [k |-> "m", media |-> media, items |-> items]
UfragLine(v) == [k |-> "ufrag", value |-> v]          \* Empty if there is not one value
PwdLine(v) == [k |-> "pwd", value |-> v]
FingerprintLine(good) == [k |-> "fingerprint", good |-> good]
SsrcLine(id, track) == [k |-> "ssrc", id |-> id, track |-> track]
GroupLine(ids) == [k |-> "ssrc-group", ids |-> ids]   \* FID: a stream and its retransmissions
FmtpLine(id) == [k |-> "fmtp", id |-> id]             \* of a usable H264 profile
RtxMapLine(id) == [k |-> "rtpmap", id |-> id]         \* rtx/90000

NoTransport == [ufrag |-> Empty, pwd |-> Empty, fingerprint |-> FALSE]

\* A session description being parsed, and the fields of the PeerConnection it fills.
NewOffer ==
    [ok |-> TRUE, media |-> Empty, offered |-> {}, td |-> [m \in Media |-> NoTransport],
     ssrcs |-> [m \in Media |-> <<>>], groups |-> <<>>, h264 |-> 0, rtx |-> 0]

\* parse_ssrc_info: the first line of a source adds it, every line may name its track.
ParseSsrcInfo(infos, l) ==
    LET known == {i \in DOMAIN infos : infos[i].id = l.id} IN
    IF known = {} THEN Append(infos, [id |-> l.id, track |-> l.track])
    ELSE [i \in DOMAIN infos |-> IF i \in known THEN [infos[i] EXCEPT !.track = l.track] ELSE infos[i]]

\* The lines read in any section, and those read in one of video only.
ParseMediaLine(o, m, l) ==
    LET refused == [o EXCEPT !.ok = FALSE] IN
    CASE l.k = "ufrag" -> IF l.value = Empty THEN refused ELSE [o EXCEPT !.td[m].ufrag = l.value]
      [] l.k = "pwd" -> IF l.value = Empty THEN refused ELSE [o EXCEPT !.td[m].pwd = l.value]
      [] l.k = "fingerprint" -> IF ~ l.good THEN refused ELSE [o EXCEPT !.td[m].fingerprint = TRUE]
      [] l.k = "ssrc" -> [o EXCEPT !.ssrcs[m] = ParseSsrcInfo(@, l)]
      [] l.k \in {"ssrc-group", "fmtp", "rtpmap"} /\ m = "audio" -> o
      [] l.k = "ssrc-group" /\ m = "video" -> [o EXCEPT !.groups = Append(@, l.ids)]
      [] l.k = "fmtp" /\ m = "video" -> IF o.h264 = 0 THEN [o EXCEPT !.h264 = l.id] ELSE o
      [] l.k = "rtpmap" /\ m = "video" ->
             IF o.h264 # 0 /\ o.rtx = 0 THEN [o EXCEPT !.rtx = l.id] ELSE o

\* The loop body of set_remote_sdp for one line.
ParseLine(o, l) ==
    IF ~ o.ok THEN o
    ELSE IF l.k = "m"
    THEN IF l.items <= 2 THEN [o EXCEPT !.ok = FALSE]
         ELSE [o EXCEPT !.media = l.media, !.offered = @ \cup ({l.media} \cap Media)]
    ELSE IF o.media \in Media THEN ParseMediaLine(o, o.media, l) ELSE o

\* The loop of set_remote_sdp.
ParseLines(lines) ==
    LET after[n \in 0 .. Len(lines)] == IF n = 0 THEN NewOffer ELSE ParseLine(after[n - 1], lines[n])
    IN after[Len(lines)]

\* create_track_from_ssrc_info: the sources of one track together, in order.
AddToTrack(tracks, info) ==
    LET known == {i \in DOMAIN tracks : tracks[i].id = info.track} IN
    IF known = {} THEN Append(tracks, [id |-> info.track, ssrcs |-> <<info.id>>, groups |-> <<>>])
    ELSE [i \in DOMAIN tracks |->
             IF i \in known THEN [tracks[i] EXCEPT !.ssrcs = Append(@, info.id)] ELSE tracks[i]]
CreateTracks(infos) ==
    LET after[n \in 0 .. Len(infos)] == IF n = 0 THEN <<>> ELSE AddToTrack(after[n - 1], infos[n])
    IN after[Len(infos)]
\* A group belongs to the track that has its first source.
GroupsOf(track, groups) == SelectSeq(groups, LAMBDA g : g # <<>> /\ Contains(track.ssrcs, Head(g)))
AddGroups(tracks, groups) ==
    [i \in DOMAIN tracks |-> [tracks[i] EXCEPT !.groups = GroupsOf(tracks[i], groups)]]

RemoteTracks(o) ==
    [m \in Media |-> IF m = "audio" THEN CreateTracks(o.ssrcs[m])
                     ELSE AddGroups(CreateTracks(o.ssrcs[m]), o.groups)]

(* The end of set_remote_sdp: which sources the receive streams listen to, from  *)
(* the first track of each medium. options_ still has its defaults here, which   *)
(* receive everything. 0 is no source.                                           *)
ReceiveSsrcs(tracks) ==
    LET First(m, i) == IF tracks[m] # <<>> /\ Len(tracks[m][1].ssrcs) >= i THEN tracks[m][1].ssrcs[i] ELSE 0
    IN [audio |-> First("audio", 1), video |-> First("video", 1), rtx |-> First("video", 2)]

PeerConnectionOf(o) ==
    LET tracks == RemoteTracks(o) IN
    [offered |-> o.offered, td |-> o.td, tracks |-> tracks, receive |-> ReceiveSsrcs(tracks),
     payload |-> [h264 |-> o.h264, rtx |-> o.rtx]]

\* _on_rtp_packet_received: which receive stream a packet goes to.
Dispatch(pc, ssrc) ==
    IF pc.receive.audio = ssrc THEN (IF ssrc # 0 THEN "audio" ELSE "none")
    ELSE IF ssrc \in {pc.receive.video, pc.receive.rtx} /\ pc.receive.video # 0 THEN "video"
    ELSE "none"

--------------------------------------------------------------------------------
\* RTCOfferAnswerOptions of PushStream and PullStream.
Options(push, audio, video) ==
    [send |-> IF push THEN {} ELSE (IF audio THEN {"audio"} ELSE {}) \cup (IF video THEN {"video"} ELSE {}),
     recv |-> IF push THEN (IF audio THEN {"audio"} ELSE {}) \cup (IF video THEN {"video"} ELSE {}) ELSE {}]
GetDirection(send, recv) ==
    IF send THEN (IF recv THEN "sendrecv" ELSE "sendonly") ELSE IF recv THEN "recvonly" ELSE "inactive"

\* create_answer: audio first, then video; sources is what the publisher sends.
IfWanted(pc, opt, m) == IF m \in pc.offered \cap (opt.send \cup opt.recv) THEN <<m>> ELSE <<>>
Contents(pc, opt) == IfWanted(pc, opt, "audio") \o IfWanted(pc, opt, "video")
AnswerSection(m, pc, opt, sources, creds) ==
    [mid |-> m, direction |-> GetDirection(m \in opt.send, m \in opt.recv), creds |-> creds,
     codecs |-> IF m = "audio" THEN <<111>> ELSE <<pc.payload.h264, pc.payload.rtx>>,
     streams |-> IF m \in opt.send THEN sources[m] ELSE <<>>]
CreateAnswer(pc, opt, sources, creds) ==
    [bundle |-> Contents(pc, opt),
     sections |-> [i \in DOMAIN Contents(pc, opt) |->
                      AnswerSection(Contents(pc, opt)[i], pc, opt, sources, creds)]]

IsBundle(answer, mid) == Contains(answer.bundle, mid)
\* Mutant: the last medium of the group carries the others.
LastBundleMid(answer) == answer.bundle[Len(answer.bundle)]
FirstBundleMid(answer) == answer.bundle[1]

\* TransportController::set_local_description makes one transport for the bundle.
LocalTransports(answer) ==
    {s.mid : s \in {x \in ToSet(answer.sections) : ~ (IsBundle(answer, x.mid) /\ x.mid # FirstBundleMid(answer))}}
(* set_remote_description: no group is found in an offer, whose line is          *)
(* a=group:BUNDLE where the code looks for m=group:BUNDLE, so every medium that  *)
(* was offered gets its parameters, if it has a transport.                       *)
RemoteParams(pc, transports) == [t \in pc.offered \cap transports |-> pc.td[t]]

\* PeerConnection::send_rtp, send_rtcp and send_unencrypted_rtcp
SendTransport == "audio"
================================================================================
