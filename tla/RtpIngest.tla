------------------------------ MODULE RtpIngest ------------------------------
(***************************************************************************)
(* What a receiver thread of the RTSP publish server makes of the packets  *)
(* of one track: VideoRtpIngest assembles access units and reconstructs    *)
(* decode times, AacRtpIngest unpacks frames and follows the clock.  The   *)
(* packets come over UDP, which loses, repeats and swaps them; the code    *)
(* looks at no sequence number.                                            *)
(*                                                                         *)
(* One tick of the RTP clock stands for one millisecond, and for one AAC   *)
(* frame of 1024 samples: times are exact up to the rounding that the code *)
(* does.                                                                   *)
(***************************************************************************)
EXTENDS Integers, Sequences, FiniteSetsExt

CONSTANTS
    Clock,       \* the RTP clock wraps here: 2^32
    Word,        \* and so do the times of messages, in milliseconds
    MaxComposition, \* 2^23: a composition time is from -2^23 to 2^23 - 1
    MinInterval, MaxInterval, \* frame intervals believed: 4 and 100 ms
    DefaultInterval, SdpIntervals, \* 33 ms; those that an SDP may give
    AudioGap,    \* max_reasonable_delta, two seconds
    Steps,       \* by how much the source's time moves from unit to unit
    MaxUnits, MaxFaults \* bounds of the model

\* Units that follow each other at the receiver, with those between them lost or late, are
\* less than half the clock apart: what a signed 32-bit difference takes for granted.
MaxStep == (Clock \div 2 - 1) \div (2 * MaxFaults + 2)

IngestBounds ==
    /\ {MaxUnits, MaxFaults} \subseteq Nat
    /\ {Clock, Word, MaxComposition, MinInterval, MaxInterval, DefaultInterval, AudioGap}
           \cup SdpIntervals \subseteq Nat \ {0}
    /\ Clock > 1 /\ AudioGap < Clock \div 2 /\ Steps \subseteq -MaxStep..MaxStep

VARIABLES
    track,      \* the payload: "video" or "aac"
    times,      \* of each unit sent, when it is to be presented
    wire,       \* packets on the network, the next one first
    hit, faults, \* the units that lost, repeated or swapped a packet; how many
    current,    \* current_au_: start codes and pieces of NAL units
    lastTs,     \* last_rtp_ts_, last_rtp_timestamp_, -1 none
    ticks,      \* presentation_ticks_, elapsed_samples_
    decodeTime, \* decode_timestamp_ms_
    laps,       \* how often that has wrapped, which the code does not know
    deltaGcd, interval, fromSdp, \* the estimate of the frame interval
    sentSequence,
    output      \* what was published, each with the unit it took its time from

network == << track, times, wire, hit, faults >>
timing == << lastTs, ticks, decodeTime, laps, deltaGcd, interval, fromSdp >>
ingestVars == << network, current, timing, sentSequence, output >>

\* frame_interval_ms_ is 33 unless the SDP gives the frame rate.
Init ==
    /\ track \in {"video", "aac"}
    /\ times = << >> /\ wire = << >> /\ hit = {} /\ faults = 0
    /\ current = << >> /\ lastTs = -1 /\ ticks = 0 /\ decodeTime = 0 /\ laps = 0
    /\ deltaGcd = 0
    /\ \/ fromSdp = FALSE /\ interval = DefaultInterval
       \/ fromSdp = TRUE /\ interval \in SdpIntervals
    /\ sentSequence = FALSE /\ output = << >>

-----------------------------------------------------------------------------
(* The publisher and the network *)

\* A NAL unit in one piece, parameter sets aggregated, a slice in fragments.
Packet(n, form, marker) == [unit |-> n, form |-> form, marker |-> marker]

Packets(n, shape) ==
    CASE shape = "whole" -> << Packet(n, "nal", TRUE) >>
      [] shape = "parts" -> << Packet(n, "sets", FALSE), Packet(n, "start", FALSE),
                               Packet(n, "rest", TRUE) >>
      [] shape = "frames" -> << Packet(n, "frames", TRUE) >>

Shapes == IF track = "aac" THEN {"frames"} ELSE {"whole", "parts"}

Send ==
    /\ Len(times) < MaxUnits /\ Len(wire) <= 1
    /\ \E shape \in Shapes, step \in Steps :
          /\ times' = Append(times, IF times = << >> THEN Clock - 2 ELSE times[Len(times)] + step)
          /\ wire' = wire \o Packets(Len(times) + 1, shape)
    /\ UNCHANGED << track, hit, faults, current, timing, sentSequence, output >>

Lose ==
    /\ wire # << >>
    /\ wire' = Tail(wire) /\ hit' = hit \cup {Head(wire).unit}

Repeat ==
    /\ wire # << >>
    /\ wire' = << Head(wire) >> \o wire /\ hit' = hit \cup {Head(wire).unit}

Swap ==
    /\ Len(wire) > 1
    /\ wire' = << wire[2], wire[1] >> \o SubSeq(wire, 3, Len(wire))
    /\ hit' = hit \cup {wire[1].unit, wire[2].unit}

Fault ==
    /\ faults < MaxFaults /\ faults' = faults + 1
    /\ Lose \/ Repeat \/ Swap
    /\ UNCHANGED << track, times, current, timing, sentSequence, output >>

-----------------------------------------------------------------------------
(* VideoRtpIngest *)

StartCode == << 0, "start code" >>

\* Mutant: a first fragment gets no start code.
PiecesJoined(p) ==
    LET nal(name) == << StartCode, << p.unit, name >> >> IN
    CASE p.form = "nal"   -> nal("slice")
      [] p.form = "sets"  -> nal("sps") \o nal("pps")
      [] p.form \in {"start", "rest"} -> << << p.unit, p.form >> >>

\* What handle_packet appends: an aggregate and a first fragment get start
\* codes, the other fragments are taken for the rest of whatever came before.
Pieces(p) ==
    LET nal(name) == << StartCode, << p.unit, name >> >> IN
    CASE p.form = "nal"   -> nal("slice")
      [] p.form = "sets"  -> nal("sps") \o nal("pps")
      [] p.form = "start" -> nal("first")
      [] p.form = "rest"  -> << << p.unit, "rest" >> >>

\* What the annexb parser finds: everything from the first start code on.
Body(au) ==
    LET codes == {i \in DOMAIN au : au[i] = StartCode}
    IN  IF codes = {} THEN << >> ELSE SubSeq(au, Min(codes), Len(au))

HasSets(au) == \E i \in DOMAIN Body(au) : Body(au)[i][2] = "pps"

RtpTime(n) == times[n] % Clock

\* Mutant: the presentation moves by the size of the difference.
AbsoluteDelta(a, b) ==
    LET d == (a - b) % Clock IN IF d < Clock \div 2 THEN d ELSE Clock - d

\* It is a signed 32-bit one.
SignedDelta(a, b) ==
    LET d == (a - b) % Clock IN IF d < Clock \div 2 THEN d ELSE d - Clock

Gcd(a, b) == Max({d \in 1..Max({a, b}) : a % d = 0 /\ b % d = 0})

\* next_timing: the first unit is at 0, whatever the clock says.
NextTiming(n) ==
    LET delta == SignedDelta(RtpTime(n), lastTs)
        size  == IF delta < 0 THEN -delta ELSE delta
        gcd   == IF fromSdp \/ size = 0 THEN deltaGcd
                 ELSE IF deltaGcd = 0 THEN size ELSE Gcd(deltaGcd, size)
        step  == IF gcd # deltaGcd /\ gcd \in MinInterval..MaxInterval
                 THEN gcd ELSE interval
    IN  /\ lastTs' = RtpTime(n)
        /\ \/ /\ lastTs = -1
              /\ UNCHANGED << ticks, decodeTime, laps, deltaGcd, interval >>
           \/ /\ lastTs # -1
              /\ ticks' = ticks + delta
              /\ decodeTime' = (decodeTime + step) % Word
              /\ laps' = laps + (decodeTime + step) \div Word
              /\ deltaGcd' = gcd /\ interval' = step
        /\ UNCHANGED fromSdp

Message(n, header, body, dts, cts, lap) ==
    [unit |-> n, header |-> header, body |-> body, dts |-> dts, cts |-> cts, laps |-> lap]

\* How far the presentation is from the decode time, as far as the field goes.
Composition == Max({-MaxComposition, Min({MaxComposition - 1, ticks - decodeTime})})

\* publish: the sequence header once the parameter sets are complete, then the
\* unit, unless no NAL unit is found in it.
PublishUnit(n, au) ==
    LET header == Message(n, TRUE, << >>, decodeTime', 0, laps')
        unit   == Message(n, FALSE, Body(au), decodeTime', Composition', laps')
        first  == ~sentSequence /\ HasSets(au)
    IN  /\ sentSequence' = (sentSequence \/ first)
        /\ output' = output \o (IF first THEN << header >> ELSE << >>)
                            \o (IF Body(au) # << >> THEN << unit >> ELSE << >>)

HandleVideo ==
    /\ track = "video" /\ wire # << >>
    /\ LET p == Head(wire)
           au == current \o Pieces(p)
       IN IF p.marker
          THEN NextTiming(p.unit) /\ PublishUnit(p.unit, au) /\ current' = << >>
          ELSE current' = au /\ UNCHANGED << timing, sentSequence, output >>
    /\ wire' = Tail(wire)
    /\ UNCHANGED << track, times, hit, faults >>

-----------------------------------------------------------------------------
(* AacRtpIngest *)

\* Mutant: a frame is a frame.
NextFrame(n) == IF lastTs = -1 THEN 0 ELSE ticks + 1

\* next_timestamp_ms: a step back, none, or one beyond the limit counts as one
\* frame.
NextElapsed(n) ==
    LET delta == (RtpTime(n) - lastTs) % Clock
    IN  IF lastTs = -1 THEN 0
        ELSE ticks + (IF delta \in 1..AudioGap THEN delta ELSE 1)

\* handle_packet, a frame a packet: the header first, once.
HandleAudio ==
    /\ track = "aac" /\ wire # << >>
    /\ LET n == Head(wire).unit
           header == Message(n, TRUE, << >>, 0, 0, 0)
           frame  == Message(n, FALSE, << >>, ticks' % Word, 0, ticks' \div Word)
       IN /\ ticks' = NextElapsed(n) /\ lastTs' = RtpTime(n)
          /\ output' = output \o (IF sentSequence THEN << frame >> ELSE << header, frame >>)
    /\ sentSequence' = TRUE
    /\ wire' = Tail(wire)
    /\ UNCHANGED << track, times, hit, faults, current, decodeTime, laps, deltaGcd,
                    interval, fromSdp >>

Next == Send \/ Fault \/ HandleVideo \/ HandleAudio

Spec == Init /\ [][Next]_ingestVars

-----------------------------------------------------------------------------
(* Properties *)

Media == {i \in DOMAIN output : ~output[i].header}
Passed == {n \in DOMAIN times : \A i \in DOMAIN wire : wire[i].unit # n}

\* A unit as it was sent.
Sent(n) ==
    {<< StartCode, << n, "slice" >> >>,
     << StartCode, << n, "sps" >>, StartCode, << n, "pps" >>,
        StartCode, << n, "first" >>, << n, "rest" >> >>}

\* The damage that the network does is confined to the unit it hits and the
\* next one, which a lost marker joins to it: any other unit is published as it
\* was sent, once.
DamageConfined ==
    track = "video" =>
        \A n \in Passed : {n - 1, n} \cap hit = {} =>
            \E i \in Media :
                /\ output[i].body \in Sent(n)
                /\ \A j \in Media \ {i} : output[j].unit # n

Elapsed(m) == m.laps * Word + m.dts
Pts(m) == m.dts + m.cts

\* The composition time is not at a limit of its field.
Exact(m) == m.cts \in (1 - MaxComposition)..(MaxComposition - 2)

\* Times are the source's.  Decode time always advances, however often it wraps.
\* Video is presented at the intervals it was sent for, across the wrap of both
\* clocks, for frames sent out of order and with units missing - except messages
\* whose composition time does not fit its field.  Audio advances from frame to
\* frame by the source's step or, when that is back, none or beyond AudioGap, by
\* one frame.
OnTime ==
    \A i, j \in Media : i < j =>
        LET a == output[i]
            b == output[j]
            apart == times[b.unit] - times[a.unit]
        IN  /\ Elapsed(a) < Elapsed(b)
            /\ track = "video" /\ Exact(a) /\ Exact(b) => Pts(b) - Pts(a) = apart
            /\ track = "aac" /\ (\A k \in Media : k <= i \/ k >= j)
                 => Elapsed(b) - Elapsed(a) = IF apart \in 1..AudioGap THEN apart ELSE 1

=============================================================================
