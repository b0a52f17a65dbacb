---------------------------- MODULE AudioStream ----------------------------
(****************************************************************************)
(* A call's audio between the network and the devices: the stream           *)
(* (baresip stream.c) with its jitter buffer, the decoder, the audio buffer *)
(* (rem aubuf.c) and the player behind it, the encoder and the source       *)
(* (baresip audio.c, opensles).                                             *)
(*                                                                          *)
(* The main thread receives packets and changes codecs; the player and the  *)
(* source call back on threads of their own.  Closing a device waits for    *)
(* the call it is in.  The network loses, delays and repeats packets.       *)
(****************************************************************************)
EXTENDS JitterBuffer, FiniteSets

CONSTANTS
  Sources,      \* packets the peer starts a new source with (SSRC)
  FirstSeq,     \* the sequence number before a source's first packet
  Pt,           \* the codec whose payload type packets have by default
  Switched, NewPt,     \* packets with another one
  Others,       \* telephone events, noise and types not negotiated
  Codecs, Wide,        \* those whose frames are WideSize, not 1
  Plc,          \* those that conceal a lost frame
  MinDelays, MaxDelays,  \* settings of jitter_buffer_delay
  DevSizes,     \* what auplay_srate makes a frame's size, 0: as the codec
  WideSize, SampMax,   \* AUDIO_SAMPSZ
  BufMax,       \* aubuf_alloc: frames in the audio buffer, 8
  LostMax, BackMax,    \* lostcalc: 3000 and 0x10000 - 0xff9c
  Reorder,      \* how many packets the network delivers before an older one
  MaxUpdates,
  MaxTroubles,  \* packets lost or repeated, and calls that fail
  None

ASSUME AudioStreamAssumption ==
  /\ Packets \subseteq Nat \ {0} /\ IsFiniteSet(Packets) /\ Sources \subseteq Packets
  /\ FirstSeq \in Seqs /\ Pt \in Codecs /\ NewPt \in Codecs
  /\ None \notin Codecs /\ 0 \notin Packets
  /\ \A k \in Packets : \E s \in Sources : s <= k
  /\ MinDelays \subseteq Nat /\ MaxDelays \subseteq Nat
  /\ DevSizes \subseteq Nat /\ {WideSize, SampMax, BufMax} \subseteq Nat \ {0}

VARIABLES
  cfg,       \* the configuration
  net,       \* the network
  strm,      \* struct stream
  jb,        \* its jitter buffer
  heard,     \* the packets it has given to the decoder
  rx, tx,    \* struct aurx and autx
  player, source,  \* the threads of the devices
  todo,      \* what the main thread is about to do
  spent      \* updates and troubles so far

vars == <<cfg, net, strm, jb, heard, rx, tx, player, source, todo, spent>>

Size(c) == IF c \in Wide THEN WideSize ELSE 1
Equal(a, b) == a # None /\ b # None /\ Size(a) = Size(b)
DevSize(c) == IF cfg.dev = 0 THEN Size(c) ELSE cfg.dev

Ssrc(k) == Cardinality({s \in Sources : s <= k})
Number(k) == (FirstSeq + 5 * (Ssrc(k) - 1) + k) % Wrap
PayloadType(k) == IF k \in Switched THEN NewPt ELSE Pt

Held == {jb.framel[i].mem : i \in DOMAIN jb.framel}

HasJbuf == cfg.min > 0 /\ cfg.max > 0

-----------------------------------------------------------------------------
(* The audio buffer: what is left of each piece of sound, oldest first.     *)

NoBuffer == [alloc |-> FALSE, frames |-> <<>>, cur |-> 0, wish |-> 0, max |-> 0,
             filling |-> TRUE]

Buffer(size) ==
  [alloc |-> TRUE, frames |-> <<>>, cur |-> 0, wish |-> size, max |-> size * BufMax,
   filling |-> TRUE]

aubuf_append(ab, f) ==
  LET all == Append(ab.frames, f)
      cur == ab.cur + f
  IN IF cur > ab.max
     THEN [ab EXCEPT !.frames = Tail(all), !.cur = cur - Head(all)]
     ELSE [ab EXCEPT !.frames = all, !.cur = cur]

\* The size of the first i pieces, for each i.
Sizes(s) ==
  LET size[i \in 0..Len(s)] == IF i = 0 THEN 0 ELSE size[i - 1] + s[i] IN size

Total(s) == Sizes(s)[Len(s)]

\* What is left of the pieces s when sz is read: those read to their end are freed.
Rest(s, sz) ==
  LET ends == {i \in 0..Len(s) : Sizes(s)[i] >= sz}
      i == Min(ends)
      after == SubSeq(s, i + 1, Len(s))
  IN IF ends = {} THEN <<>>
     ELSE IF Sizes(s)[i] = sz THEN after
     ELSE <<Sizes(s)[i] - sz>> \o after

\* Silence until it holds what it wishes for, and again when it runs out.
aubuf_read(ab, sz) ==
  IF ab.cur < (IF ab.filling THEN ab.wish ELSE sz)
  THEN [ab EXCEPT !.filling = TRUE]
  ELSE [ab EXCEPT !.filling = FALSE, !.frames = Rest(@, sz),
                  !.cur = @ - Min({sz, Total(ab.frames)})]

-----------------------------------------------------------------------------
(* audio.c.  An operation maps a == [rx, tx, err] to the next; bad is what  *)
(* fails in it, if anything.                                                *)

start_player(r, bad) ==
  LET dsp == DevSize(r.ac)
      opened == [r EXCEPT !.resamp = IF @ = 0 /\ dsp # Size(r.ac) THEN Size(r.ac) ELSE @,
                          !.aubuf = IF r.auplay = 0 /\ ~@.alloc THEN Buffer(dsp) ELSE @]
  IN IF r.ac = None THEN r
     ELSE IF r.auplay # 0 \/ bad = "player" THEN opened
     \* the player takes its first samples before it returns
     ELSE [opened EXCEPT !.auplay = dsp, !.aubuf = aubuf_read(@, dsp)]

start_source(t, bad) ==
  IF t.ac = None \/ t.ausrc # 0 THEN t
  ELSE [t EXCEPT !.aubuf = TRUE, !.ausrc = IF bad = "source" THEN 0 ELSE DevSize(t.ac)]

audio_start(a, bad) ==
  LET r == start_player(a.rx, bad)
      t == start_source(a.tx, bad)
  IN [rx |-> r, tx |-> t,
      err |-> a.err \/ (r.ac # None /\ r.auplay = 0) \/ (t.ac # None /\ t.ausrc = 0)]

(* Fault: the source is left running for every codec.                        *)
ClosesSource_never(t, c) == FALSE

ClosesSource(t, c) == ~Equal(c, t.ac)
ClosesPlayer(r, c, bad) == ~Equal(c, r.ac) /\ bad # "decoder"

audio_encoder_set(a, c, bad) ==
  LET t == IF c = a.tx.ac THEN a.tx
           ELSE [a.tx EXCEPT !.ausrc = IF ClosesSource(a.tx, c) THEN 0 ELSE @, !.enc = FALSE, !.ac = c]
  IN IF bad = "encoder" THEN [a EXCEPT !.tx = t, !.err = TRUE]
     ELSE LET set == [a EXCEPT !.tx = [t EXCEPT !.enc = TRUE]]
          IN IF t.ausrc # 0 THEN set ELSE audio_start(set, bad)

(* Fault: the new codec is compared with itself, so nothing is reopened.     *)
audio_decoder_set_late(a, c, bad) ==
  LET r == IF c = a.rx.ac THEN a.rx ELSE [a.rx EXCEPT !.pt = c, !.ac = c, !.dec = FALSE]
  IN IF bad = "decoder" THEN [a EXCEPT !.rx = r, !.err = TRUE]
     ELSE IF Equal(c, r.ac) /\ r.auplay # 0 THEN [a EXCEPT !.rx = [r EXCEPT !.dec = TRUE]]
     ELSE audio_start([a EXCEPT !.rx = [r EXCEPT !.dec = TRUE, !.auplay = 0]], bad)

audio_decoder_set(a, c, bad) ==
  LET r == IF c = a.rx.ac THEN a.rx ELSE [a.rx EXCEPT !.pt = c, !.ac = c, !.dec = FALSE]
  IN IF bad = "decoder" THEN [a EXCEPT !.rx = r, !.err = TRUE]
     ELSE IF Equal(c, a.rx.ac) THEN [a EXCEPT !.rx = [r EXCEPT !.dec = TRUE]]
     ELSE audio_start([a EXCEPT !.rx = [r EXCEPT !.dec = TRUE, !.auplay = 0]], bad)

(* Fault: the resampler's input is written, not its output.                  *)
aurx_stream_decode_raw(r, k) ==
  LET size == IF k = 0 /\ r.ac \notin Plc THEN 0 ELSE Size(r.ac)
  IN IF r.ac = None \/ ~r.dec \/ ~r.aubuf.alloc THEN r
     ELSE [r EXCEPT !.aubuf = aubuf_append(@, size)]

\* k is a packet, or 0 where one was lost.
aurx_stream_decode(r, k) ==
  LET size == IF k = 0 /\ r.ac \notin Plc THEN 0 ELSE Size(r.ac)
      out == IF r.resamp = 0 THEN size ELSE (size * DevSize(r.ac)) \div r.resamp
  IN IF r.ac = None \/ ~r.dec \/ ~r.aubuf.alloc \/ (r.resamp # 0 /\ out > SampMax) THEN r
     ELSE [r EXCEPT !.aubuf = aubuf_append(@, out)]

Decoded(a, k) == [a EXCEPT !.rx = aurx_stream_decode(@, k)]

NewPayloadType(r, k) ==
  k # 0 /\ k \notin Others /\ PayloadType(k) # r.pt

stream_recv_handler(a, k, bad) ==
  IF k \in Others THEN a
  ELSE IF NewPayloadType(a.rx, k)
  THEN LET set == audio_decoder_set([a EXCEPT !.rx.pt = PayloadType(k)], PayloadType(k), bad)
       IN IF set.err THEN set ELSE Decoded(set, k)
  ELSE Decoded(a, k)

-----------------------------------------------------------------------------
\* What call_stream_start(c) does: a call may begin with it, or with packets.
StartOps(c) == <<<<"encoder", c>>, <<"decoder", c>>, <<"start", c>>>>

Init ==
  /\ cfg \in [min : MinDelays, max : MaxDelays, dev : DevSizes]
  /\ cfg.min <= cfg.max
  /\ net = [arrived |-> {}, lost |-> {}, dups |-> 0, worst |-> 0, turned |-> {}, mixed |-> FALSE]
  /\ strm = [ssrc_rx |-> 0, pseq |-> -1, started |-> FALSE, recv |-> TRUE]
  /\ jb = jbuf_alloc(cfg.min, cfg.max)
  /\ heard = <<>>
  /\ rx = [ac |-> None, dec |-> FALSE, pt |-> None, auplay |-> 0,
           aubuf |-> NoBuffer, resamp |-> 0]
  /\ tx = [ac |-> None, enc |-> FALSE, ausrc |-> 0, aubuf |-> FALSE]
  /\ player = "idle"
  /\ source = None
  /\ todo \in {<<>>, StartOps(Pt)}
  /\ spent = [updates |-> 0, troubles |-> 0]

-----------------------------------------------------------------------------
(* stream.c                                                                 *)

\* How many packets are missing before seq, below 0 where it is no later one.
lostcalc(seq) ==
  LET delta == (seq - strm.pseq) % Wrap
  IN IF strm.pseq = -1 THEN 0
     ELSE IF delta = 0 THEN -1
     ELSE IF delta < LostMax THEN delta - 1
     ELSE IF delta < Wrap - BackMax THEN 0
     ELSE -2

\* What an operation of audio.c made of the devices.
Becomes(a) == rx' = a.rx /\ tx' = a.tx

Audio == [rx |-> rx, tx |-> tx, err |-> FALSE]

Troubles == {"none", "player", "source", "decoder", "encoder"}

Trouble(n) ==
  /\ spent.troubles + n <= MaxTroubles
  /\ spent' = [spent EXCEPT !.troubles = @ + n]

\* The stream, now s, gives a frame to the decoder, after one for what was lost.
Deliver(s, seq, k, bad) ==
  LET lost == lostcalc(seq)
      a == IF lost > 0 THEN Decoded(Audio, 0) ELSE Audio
  IN /\ bad # "none" => NewPayloadType(rx, k)
     /\ (NewPayloadType(rx, k) /\ ClosesPlayer(rx, PayloadType(k), bad))
          => player = "idle"
     /\ strm' = [s EXCEPT !.pseq = IF lost < 0 THEN @ ELSE seq]
     /\ heard' = IF k = 0 THEN heard ELSE Append(heard, k)
     /\ Becomes(stream_recv_handler(a, k, bad))

\* The packet that arrives goes into the jitter buffer, one goes out of it.  A
\* buffer that cannot give one gives an empty frame, with sequence number 0.
rtp_recv(k, bad) ==
  LET new == strm.ssrc_rx \notin {0, Ssrc(k)}
      put == jbuf_put(IF new THEN jbuf_flush(jb) ELSE jb, [seq |-> Number(k), mem |-> k])
      s == [strm EXCEPT !.ssrc_rx = Ssrc(k)]
      started == [s EXCEPT !.started = TRUE]
  IN \/ /\ ~strm.recv /\ bad = "none"
        /\ UNCHANGED <<strm, jb, heard, rx, tx>>
     \/ /\ strm.recv /\ ~HasJbuf
        /\ Deliver(s, Number(k), k, bad)
        /\ UNCHANGED jb
     \/ /\ strm.recv /\ HasJbuf
        /\ jb' = jbuf_get(put)
        /\ \/ HasFrame(put) /\ Deliver(started, Head(put.framel).seq, Head(put.framel).mem, bad)
           \/ ~HasFrame(put) /\ strm.started /\ Deliver(started, 0, 0, bad)
           \/ ~HasFrame(put) /\ ~strm.started /\ bad = "none" /\ strm' = s /\ UNCHANGED <<heard, rx, tx>>

-----------------------------------------------------------------------------
(* The network: packets are sent in the order of their numbers.             *)

Settled == net.arrived \cup net.lost

\* A packet may overtake at most Reorder older ones.
InFlight(k) == Cardinality({j \in Packets \ Settled : j < k}) <= Reorder

\* How far behind the packets that arrived before it k is.
Overtaken(k) == Max({j - k : j \in net.arrived} \cup {0})

\* What came in and was neither refused nor thrown away by the call.
Received == net.arrived \ net.turned

\* A source that was heard of goes on after another one.
Mixes(k) == strm.recv /\ Ssrc(k) # strm.ssrc_rx /\ \E j \in Received : Ssrc(j) = Ssrc(k)

Receive(k) ==
  /\ todo = <<>>
  /\ \/ /\ k \notin Settled /\ InFlight(k)
        /\ net' = [net EXCEPT !.arrived = @ \cup {k},
                              !.worst = IF Overtaken(k) > @ THEN Overtaken(k) ELSE @,
                              !.turned = IF strm.recv THEN @ ELSE @ \cup {k},
                              !.mixed = @ \/ Mixes(k)]
     \/ /\ k \in net.arrived
        /\ net' = [net EXCEPT !.dups = @ + 1,
                              !.mixed = @ \/ Mixes(k)]
  /\ \E bad \in Troubles :
       /\ rtp_recv(k, bad)
       /\ Trouble((IF bad = "none" THEN 0 ELSE 1) + IF k \in net.arrived THEN 1 ELSE 0)
  /\ UNCHANGED <<cfg, player, source, todo>>

Lose(k) ==
  /\ k \notin Settled /\ InFlight(k)
  /\ net' = [net EXCEPT !.lost = @ \cup {k}]
  /\ Trouble(1)
  /\ UNCHANGED <<cfg, strm, jb, heard, rx, tx, player, source, todo>>

-----------------------------------------------------------------------------
(* The devices' threads.                                                    *)

\* The player wants samples: auplay_write_handler is on its way to the buffer.
PlayerCallback ==
  /\ rx.auplay # 0 /\ player = "idle"
  /\ player' = "reading"
  /\ UNCHANGED <<cfg, net, strm, jb, heard, rx, tx, source, todo, spent>>

PlayerReads ==
  /\ player = "reading" /\ rx.aubuf.alloc
  /\ rx' = [rx EXCEPT !.aubuf = aubuf_read(@, rx.auplay)]
  /\ player' = "idle"
  /\ UNCHANGED <<cfg, net, strm, jb, heard, tx, source, todo, spent>>

\* ausrc_read_handler has a frame to encode, with the state of this encoder.
SourceEncodes ==
  /\ tx.ausrc # 0 /\ source = None /\ tx.enc
  /\ source' = tx.ac
  /\ UNCHANGED <<cfg, net, strm, jb, heard, rx, tx, player, todo, spent>>

SourceReturns ==
  /\ source # None
  /\ source' = None
  /\ UNCHANGED <<cfg, net, strm, jb, heard, rx, tx, player, todo, spent>>

-----------------------------------------------------------------------------
(* call.c: what it does to the audio, one call of audio.c at a time.        *)

Begins(ops) ==
  /\ todo = <<>> /\ spent.updates < MaxUpdates
  /\ todo' = ops /\ spent' = [spent EXCEPT !.updates = @ + 1]
  /\ UNCHANGED <<cfg, net, jb, heard, rx, tx, player, source>>

call_stream_start(c) ==
  /\ \E active \in BOOLEAN :
       Begins(StartOps(c) \o IF active THEN <<<<"reset", c>>>> ELSE <<>>)
  /\ UNCHANGED strm

update_media(c) ==
  /\ Begins(<<<<"decoder", c>>, <<"encoder", c>>>>)
  /\ UNCHANGED strm

call_stream_stop ==
  /\ Begins(<<<<"stop_tx", None>>, <<"stop_rx", None>>>>)
  /\ UNCHANGED strm

stream_hold ==
  /\ Begins(<<>>)
  /\ strm' = [strm EXCEPT !.recv = ~@]

Does(op) == todo # <<>> /\ todo[1][1] = op

\* After an error audio_start() is not called.
Then(err) == todo' = SelectSeq(Tail(todo), LAMBDA op : ~(err /\ op[1] = "start"))

SetEncoder ==
  /\ Does("encoder")
  /\ ClosesSource(tx, todo[1][2]) => source = None
  /\ \E bad \in Troubles :
       LET a == audio_encoder_set(Audio, todo[1][2], bad)
       IN Becomes(a) /\ Trouble(IF bad = "none" THEN 0 ELSE 1) /\ (bad # "none" => a.err) /\ Then(a.err)
  /\ UNCHANGED <<cfg, net, strm, jb, heard, player, source>>

SetDecoder ==
  /\ Does("decoder")
  /\ \E bad \in Troubles :
       LET a == audio_decoder_set(Audio, todo[1][2], bad)
       IN /\ ClosesPlayer(rx, todo[1][2], bad) => player = "idle"
          /\ Becomes(a) /\ Trouble(IF bad = "none" THEN 0 ELSE 1) /\ (bad # "none" => a.err) /\ Then(a.err)
  /\ UNCHANGED <<cfg, net, strm, jb, heard, player, source>>

Start ==
  /\ Does("start")
  /\ \E bad \in Troubles :
       LET a == audio_start(Audio, bad)
       IN Becomes(a) /\ Trouble(IF bad = "none" THEN 0 ELSE 1) /\ (bad # "none" => a.err)
  /\ todo' = Tail(todo)
  /\ UNCHANGED <<cfg, net, strm, jb, heard, player, source>>

stream_reset ==
  /\ Does("reset")
  /\ jb' = IF HasJbuf THEN jbuf_flush(jb) ELSE jb
  /\ net' = [net EXCEPT !.turned = @ \cup Held]
  /\ todo' = Tail(todo)
  /\ UNCHANGED <<cfg, strm, heard, rx, tx, player, source, spent>>

\* The source is closed, then the buffer it writes to.
stop_tx ==
  /\ Does("stop_tx") /\ source = None
  /\ tx' = [tx EXCEPT !.ausrc = 0, !.aubuf = FALSE]
  /\ todo' = Tail(todo)
  /\ UNCHANGED <<cfg, net, strm, jb, heard, rx, player, source, spent>>

(* Fault: the buffer is freed before the player is closed.                   *)
stop_rx_buffer ==
  /\ Does("stop_rx")
  /\ rx' = [rx EXCEPT !.aubuf = NoBuffer]
  /\ todo' = Tail(todo)
  /\ UNCHANGED <<cfg, net, strm, jb, heard, tx, player, source, spent>>

stop_rx ==
  /\ Does("stop_rx") /\ player = "idle"
  /\ rx' = [rx EXCEPT !.auplay = 0, !.aubuf = NoBuffer]
  /\ todo' = Tail(todo)
  /\ UNCHANGED <<cfg, net, strm, jb, heard, tx, player, source, spent>>

-----------------------------------------------------------------------------
Main == SetEncoder \/ SetDecoder \/ Start \/ stream_reset \/ stop_tx \/ stop_rx

Next ==
  \/ \E k \in Packets : Receive(k) \/ Lose(k)
  \/ \E c \in Codecs : call_stream_start(c) \/ update_media(c)
  \/ call_stream_stop \/ stream_hold
  \/ Main
  \/ PlayerCallback \/ PlayerReads \/ SourceEncodes \/ SourceReturns

Spec == Init /\ [][Next]_vars

-----------------------------------------------------------------------------
(* Properties.                                                              *)

\* The jitter buffer keeps its frames sorted and counted (jbuf.c).
JitterSound == HasJbuf => JitterBufferSound(jb)

\* A device's thread never works on a buffer that was freed, nor with an encoder
\* that was replaced.  audio_encoder_set() keeps the second only for a codec of
\* another rate: it does not stop the source for one of the same rate.
DeviceSafe ==
  /\ player = "reading" => rx.auplay # 0 /\ rx.aubuf.alloc
  /\ source # None => tx.ausrc # 0 /\ tx.aubuf /\ (source = tx.ac \/ Equal(source, tx.ac))

(* The jitter buffer is sound and the devices' threads work on what is       *)
(* theirs, whatever arrives and whichever codec is set while they do         *)
(* (jbuf.c, audio_encoder_set, audio_decoder_set, stop_tx, stop_rx).         *)
MemorySafety == JitterSound /\ DeviceSafe

(* The jitter buffer does its work: as long as the network repeats nothing   *)
(* and delays no packet by more than min places, packets are decoded in the  *)
(* order they were sent in, across lost packets, a wrap of the numbers and a *)
(* new source.  It cannot for a packet repeated min places late (jbuf.c:208).*)
PlaysInOrder ==
  (HasJbuf /\ net.dups = 0 /\ net.worst <= cfg.min) =>
    \A i, j \in DOMAIN heard : i < j => heard[i] < heard[j]

\* If neighbours are all the network swaps, and sources not mixed, no packet of
\* the present source is refused or thrown away: it waits or was decoded.
NoneIsDropped ==
  (HasJbuf /\ cfg.min < cfg.max /\ net.worst <= 1 /\ ~net.mixed)
     => \A k \in Received : Ssrc(k) = strm.ssrc_rx => k \in Held \/ k \in Range(heard)

\* Between packets at most min frames wait.
NoneIsDelayed == cfg.min < cfg.max => jb.n <= cfg.min

(* What arrives is decoded, after a wait of min packets and no longer.       *)
(* rtp_recv takes one frame out for each it puts in, so this is also why the *)
(* buffer never steals a frame unless min is max (stream.c:188-199).         *)
KeepsWhatArrives == NoneIsDropped /\ NoneIsDelayed

\* An open device works at the rate of the codec, or at the configured one.
DevicesMatch ==
  (todo = <<>> /\ spent.troubles = 0) =>
     /\ rx.auplay # 0 => rx.auplay = DevSize(rx.ac)
     /\ tx.ausrc # 0 => tx.ausrc = DevSize(tx.ac)

\* The audio buffer and the resampler were made for the codec the player has now.
\* After a change of rate they are not: the code makes neither again.
Fresh(r) ==
  /\ r.dec /\ r.ac # None /\ r.auplay = DevSize(r.ac) /\ r.aubuf.wish = r.auplay
  /\ r.resamp = IF DevSize(r.ac) = Size(r.ac) THEN 0 ELSE Size(r.ac)

\* cur_sz is the size of what is in the audio buffer, whoever reads or writes it.
BufferSound == rx.aubuf.cur = Total(rx.aubuf.frames)

\* A source that cannot be opened keeps the packet that changes the codec from
\* being decoded: audio_decoder_set() starts the source as well.
DecodedIsBuffered ==
  (/\ heard' # heard /\ Last(heard') \notin Others /\ Fresh(rx')
   /\ tx'.ac # None => tx'.ausrc # 0)
     => rx'.aubuf.cur >= rx'.auplay

(* A codec that is set in mid-call, by the peer's packets or by an offer,    *)
(* has its devices reopened, and what is decoded reaches the audio buffer,   *)
(* with a frame for the player to take; the buffer counts what it holds       *)
(* (audio_decoder_set, aubuf_append, aubuf_read).                            *)
DecodedIsHeard == [][DevicesMatch' /\ (rx' # rx => BufferSound' /\ DecodedIsBuffered)]_vars
=============================================================================
