----------------------------- MODULE TsTransport -----------------------------
(***************************************************************************)
(* MPEG-TS: samples of a CMAF fragment packetised by mux_to_ts (ts_mux.rs) *)
(* and a transport stream demultiplexed by TsDemuxer (ts.rs) and turned    *)
(* back into a fragment by transmux_to_cmaf (transmux.rs).                 *)
(*                                                                         *)
(* A sender packetises the samples of a track one after the other; several *)
(* tracks are interleaved packet by packet, as an encoder upstream does    *)
(* (mux_to_ts itself writes one track).  PAT and PMT may come at any time  *)
(* and more than once, and a packet may lack its sync byte.                *)
(*                                                                         *)
(* Bytes are positions: a packet carries the bytes from..to-1 of one PES,  *)
(* and what the demuxer has collected is a sequence of such pieces.        *)
(***************************************************************************)
EXTENDS Naturals, Integers, Sequences, FiniteSets, SequencesExt, Lists

CONSTANTS
    Tracks,         \* tracks sent, a subset of {"video", "audio"}
    Sizes,          \* sample sizes in bytes, as in the trun
    Durations,      \* video sample durations, in ticks of the track's timescale
    Timescale,      \* of the video track, in ticks per second
    Clock,          \* of a PES header: 90000
    ParamSetSize,   \* start codes, SPS and PPS that precede an IDR sample
    TimeModulus,    \* 2^33 in a PES header
    LastDuration,   \* what build_video_fragment gives the last sample
    MaxSamples,     \* bound: samples of a track
    MaxTables,      \* bound: PAT and PMT packets
    MaxMalformed    \* bound: packets without a sync byte

ASSUME TracksAssumption == Tracks \subseteq {"video", "audio"}
ASSUME SizesAssumption == Sizes \subseteq Nat \ {0} /\ Durations \subseteq Nat
ASSUME TimeAssumption ==
    {TimeModulus, Timescale, Clock} \subseteq Nat \ {0} /\ LastDuration \in Nat
ASSUME BoundsAssumption == {ParamSetSize, MaxSamples, MaxTables, MaxMalformed} \subseteq Nat

PacketSize == 188
AdtsHeader == 7
NoHeader   == 0
NoField    == -1        \* a packet without adaptation field

VARIABLES
    phase,      \* "sending", then "done" after flush
    tables,     \* what the demuxer knows: "none", "pat" or "pmt"
    tableCount,
    sent,       \* [track]: the samples whose PES has been started
    position,   \* [track]: bytes of the last PES packetised so far
    malformed,  \* [track]: <<PES, position>> of packets that were skipped
    started,    \* [track]: {video,audio}_pusi_seen
    header,     \* [track]: {video,audio}_pes_header, as the index of its PES
    buffer,     \* [track]: {video,audio}_buffer
    packets     \* [track]: {video,audio}_packets

senderVars == <<sent, position, malformed>>
demuxVars  == <<started, header, buffer, packets>>
vars == <<phase, tables, tableCount, senderVars, demuxVars>>

Init ==
    /\ phase = "sending" /\ tables = "none" /\ tableCount = 0
    /\ sent = [t \in Tracks |-> <<>>]
    /\ position = [t \in Tracks |-> 0]
    /\ malformed = [t \in Tracks |-> {}]
    /\ started = [t \in Tracks |-> FALSE]
    /\ header = [t \in Tracks |-> NoHeader]
    /\ buffer = [t \in Tracks |-> <<>>]
    /\ packets = [t \in Tracks |-> <<>>]

-----------------------------------------------------------------------------
(* Packetising                                                              *)

\* Mutant: every sample gets the parameter sets.
StreamSizeWithParamSets(t, sample) ==
    sample.size + (IF t = "audio" THEN AdtsHeader ELSE ParamSetSize)

\* Elementary stream bytes of a sample: a start code takes the place of each
\* four-byte NAL length, an IDR is preceded by SPS and PPS, and an AAC frame by
\* its ADTS header.
StreamSize(t, sample) ==
    sample.size + (IF t = "audio" THEN AdtsHeader
                   ELSE IF sample.idr THEN ParamSetSize ELSE 0)

\* build_pes_packet: nine fixed bytes, a PTS, and a DTS when it differs.
HeaderSize(sample) == IF sample.reordered THEN 19 ELSE 14
PesSize(t, sample) == HeaderSize(sample) + StreamSize(t, sample)

\* packetize_pes, one packet: a random access point has a field of its own from
\* the start, and what is left over is stuffed into an adaptation field.
Layout(rai, remaining) ==
    LET first == IF rai THEN 6 ELSE 4
        count == IF remaining < PacketSize - first THEN remaining ELSE PacketSize - first
        stuff == PacketSize - first - count
    IN  [field |-> IF rai THEN 1 + stuff ELSE IF stuff = 0 THEN NoField ELSE stuff - 1,
         at    |-> first + stuff,
         count |-> count]

\* parse_ts_packet: where the payload of a packet begins for the demuxer.
PayloadOffset(layout) == IF layout.field = NoField THEN 4 ELSE 5 + layout.field

-----------------------------------------------------------------------------
(* TsDemuxer                                                                *)

\* The last piece grows when the next bytes of the same PES follow it.
Extend(pieces, pes, from, to) ==
    IF pieces # <<>> /\ Last(pieces).pes = pes /\ Last(pieces).to = from
    THEN [pieces EXCEPT ![Len(pieces)].to = to]
    ELSE Append(pieces, [pes |-> pes, from |-> from, to |-> to])

Complete(t) == started[t] /\ buffer[t] # <<>> /\ header[t] # NoHeader
Collected(t) == [pes |-> header[t], data |-> buffer[t]]

\* Mutant: the bytes of a finished PES stay in the buffer.
PushStartKeepingBuffer(t, pes, from, to) ==
    LET begins == from = 0 /\ to - from >= 9
        size == HeaderSize(sent[t][pes])
    IN  /\ packets' = [packets EXCEPT ![t] =
                            IF Complete(t) THEN Append(@, Collected(t)) ELSE @]
        /\ started' = [started EXCEPT ![t] = TRUE]
        /\ header' = [header EXCEPT ![t] =
                            IF begins THEN pes ELSE IF Complete(t) THEN NoHeader ELSE @]
        /\ buffer' = [buffer EXCEPT ![t] = Extend(@, pes, IF begins THEN size ELSE from, to)]

\* A packet with payload_unit_start: what has been collected is a PES if it has
\* a header, and is kept for the next one if it has none; then the new PES begins
\* after its header.
PushStart(t, pes, from, to) ==
    LET begins == from = 0 /\ to - from >= 9
        size == HeaderSize(sent[t][pes])
        rest == IF Complete(t) THEN <<>> ELSE buffer[t]
    IN  /\ packets' = [packets EXCEPT ![t] =
                            IF Complete(t) THEN Append(@, Collected(t)) ELSE @]
        /\ started' = [started EXCEPT ![t] = TRUE]
        /\ header' = [header EXCEPT ![t] =
                            IF begins THEN pes ELSE IF Complete(t) THEN NoHeader ELSE @]
        /\ buffer' = [buffer EXCEPT ![t] =
                            IF begins /\ size >= to THEN rest
                            ELSE Extend(rest, pes, IF begins THEN size ELSE from, to)]

\* Any other packet continues a PES whose start was seen.
PushContinuation(t, pes, from, to) ==
    /\ buffer' = [buffer EXCEPT ![t] = IF started[t] THEN Extend(@, pes, from, to) ELSE @]
    /\ UNCHANGED <<started, header, packets>>

\* push_packet: without the PMT the PID of a track means nothing.
PushPacket(t, pes, start, from, to) ==
    IF tables # "pmt" THEN UNCHANGED demuxVars
    ELSE IF start THEN PushStart(t, pes, from, to)
    ELSE PushContinuation(t, pes, from, to)

PushPat ==
    /\ phase = "sending" /\ tableCount < MaxTables
    /\ tableCount' = tableCount + 1
    /\ tables' = IF tables = "none" THEN "pat" ELSE tables
    /\ UNCHANGED <<phase, senderVars, demuxVars>>

\* Until a PAT has named its PID, a PMT is a packet of an unknown PID.
PushPmt ==
    /\ phase = "sending" /\ tableCount < MaxTables
    /\ tableCount' = tableCount + 1
    /\ tables' = IF tables = "none" THEN "none" ELSE "pmt"
    /\ UNCHANGED <<phase, senderVars, demuxVars>>

Pes(t) == Len(sent[t])
AllSent(t) == IF sent[t] = <<>> THEN TRUE ELSE position[t] = PesSize(t, Last(sent[t]))

\* An AAC frame lasts 1024 ticks of its own clock; the time at which the audio
\* fragment starts (transmux.rs, base_time) is not modelled.
SampleDurations(t) == IF t = "video" THEN Durations ELSE {1024}

\* The next sample of the loop of mux_to_ts.  known is history: whether the
\* demuxer had the tables when the first packet of the sample came (MarkKnown).
StartSample(t) ==
    /\ phase = "sending" /\ AllSent(t) /\ Pes(t) < MaxSamples
    /\ \E size \in Sizes, idr, reordered \in BOOLEAN, duration \in SampleDurations(t) :
        /\ t = "audio" => ~idr /\ ~reordered
        /\ LET time == IF sent[t] = <<>> THEN 0
                       ELSE Last(sent[t]).time + Last(sent[t]).duration
           IN  sent' = [sent EXCEPT ![t] = Append(@,
                   [size |-> size, idr |-> idr, reordered |-> reordered, time |-> time,
                    duration |-> duration, known |-> FALSE])]
    /\ position' = [position EXCEPT ![t] = 0]
    /\ UNCHANGED <<phase, tables, tableCount, malformed, demuxVars>>

Remaining(t) == PesSize(t, Last(sent[t])) - position[t]
NextLayout(t) == Layout(position[t] = 0 /\ Last(sent[t]).idr, Remaining(t))

MarkKnown(t) ==
    IF position[t] = 0 THEN [sent EXCEPT ![t][Pes(t)].known = (tables = "pmt")] ELSE sent

\* A packet is written, read and pushed.
SendPacket(t) ==
    /\ phase = "sending" /\ ~AllSent(t)
    /\ LET layout == NextLayout(t)
           skew   == PayloadOffset(layout) - layout.at
       IN  /\ PushPacket(t, Pes(t), position[t] = 0, position[t] + skew,
                         position[t] + PacketSize - layout.at)
           /\ position' = [position EXCEPT ![t] = @ + layout.count]
    /\ sent' = MarkKnown(t)
    /\ UNCHANGED <<phase, tables, tableCount, malformed>>

\* demux_segment skips a packet whose first byte is not the sync byte.
SkipPacket(t) ==
    /\ phase = "sending" /\ ~AllSent(t)
    /\ Cardinality(UNION {malformed[u] : u \in Tracks}) < MaxMalformed
    /\ malformed' = [malformed EXCEPT ![t] = @ \cup {<<Pes(t), position[t]>>}]
    /\ position' = [position EXCEPT ![t] = @ + NextLayout(t).count]
    /\ sent' = MarkKnown(t)
    /\ UNCHANGED <<phase, tables, tableCount, demuxVars>>

\* The segment ends, in the middle of a PES or not.
Flush ==
    /\ phase = "sending"
    /\ phase' = "done"
    /\ packets' = [t \in Tracks |-> IF Complete(t) THEN Append(packets[t], Collected(t))
                                    ELSE packets[t]]
    /\ buffer' = [t \in Tracks |-> <<>>]
    /\ header' = [t \in Tracks |-> NoHeader]
    /\ UNCHANGED <<tables, tableCount, senderVars, started>>

Next ==
    \/ \E t \in Tracks : StartSample(t) \/ SendPacket(t) \/ SkipPacket(t)
    \/ PushPat \/ PushPmt \/ Flush
    \/ phase = "done" /\ UNCHANGED vars

Spec == Init /\ [][Next]_vars

-----------------------------------------------------------------------------
(* transmux_to_cmaf                                                         *)

\* The DTS of a PES, or its PTS when it has none, as 33 bits carry it.
\* rescale_time: times are rounded down to the clock of the stream.
RescaleTime(time) == (time * Clock) \div Timescale
DecodeTime(t, pes) == RescaleTime(sent[t][pes].time) % TimeModulus
Minus(a, b) == IF a > b THEN a - b ELSE 0

\* Mutant: the duration of a sample is the time since the one before it.
VideoDurationBackwards(ps, i) ==
    IF i > 1 THEN Minus(DecodeTime("video", ps[i].pes), DecodeTime("video", ps[i - 1].pes))
    ELSE LastDuration

\* build_video_fragment: the time to the next sample, saturating at zero.
VideoDuration(ps, i) ==
    IF i < Len(ps)
    THEN Minus(DecodeTime("video", ps[i + 1].pes), DecodeTime("video", ps[i].pes))
    ELSE LastDuration

\* The bytes of a fragment sample: SPS and PPS go to the avcC box, ADTS headers
\* go away; both are at the front of the stream data.
SampleSize(t, p) ==
    LET bytes == [i \in 1 .. Len(p.data) |-> p.data[i].to - p.data[i].from]
    IN  SumUpTo(bytes, Len(p.data))
            - (IF t = "audio" THEN AdtsHeader
               ELSE IF sent[t][p.pes].idr THEN ParamSetSize ELSE 0)

FragmentSamples(t) ==
    [i \in 1 .. Len(packets[t]) |->
        [size |-> SampleSize(t, packets[t][i]),
         sync |-> sent[t][packets[t][i].pes].idr,
         duration |-> IF t = "video" THEN VideoDuration(packets[t], i) ELSE 1024]]

\* Decode time of sample i: tfdt plus the durations before it.
FragmentTime(i) ==
    DecodeTime("video", packets["video"][1].pes)
        + SumUpTo([k \in 1 .. i - 1 |-> FragmentSamples("video")[k].duration], i - 1)

-----------------------------------------------------------------------------
(* Properties                                                               *)

SampleRecords == [size : Sizes, idr : BOOLEAN, reordered : BOOLEAN, time : Nat,
                  duration : Durations \cup {1024}, known : BOOLEAN]
TypeOK ==
    /\ phase \in {"sending", "done"} /\ tables \in {"none", "pat", "pmt"}
    /\ tableCount \in 0 .. MaxTables
    /\ \A t \in Tracks :
        /\ sent[t] \in Seq(SampleRecords)
        /\ sent[t] # <<>> => position[t] \in 0 .. PesSize(t, Last(sent[t]))
        /\ malformed[t] \subseteq (1 .. Pes(t)) \X Nat
        /\ started[t] \in BOOLEAN /\ header[t] \in 0 .. Pes(t)
        /\ \A i \in 1 .. Len(buffer[t]) :
            /\ buffer[t][i].pes \in 1 .. Pes(t)
            /\ buffer[t][i].from < buffer[t][i].to
        /\ \A i \in 1 .. Len(packets[t]) : packets[t][i].pes \in 1 .. Pes(t)

Whole(t, k) ==
    [pes |-> k, data |-> <<[pes |-> k, from |-> HeaderSize(sent[t][k]),
                            to |-> PesSize(t, sent[t][k])]>>]
StartLost(t, k) == <<k, 0>> \in malformed[t]
Undamaged(t, k) ==
    /\ sent[t][k].known
    /\ \A m \in malformed[t] : m[1] # k
    /\ k = Pes(t) => AllSent(t)
    /\ k < Pes(t) => ~StartLost(t, k + 1)

\* Bytes of one PES are never delivered under the header of another, unless the
\* packet that carried their own header was skipped.
NothingMixed ==
    \A t \in Tracks : \A i \in 1 .. Len(packets[t]) : \A n \in 1 .. Len(packets[t][i].data) :
        LET piece == packets[t][i].data[n]
        IN  piece.pes # packets[t][i].pes =>
                piece.pes > packets[t][i].pes /\ StartLost(t, piece.pes)

\* However packets of two tracks and the tables are interleaved, every PES that
\* began after the PMT comes out of the demuxer whole and once, in the order sent.
\* A skipped packet damages its own PES, or the one before it when it was a
\* start, and no other.
PesReassembled ==
    /\ NothingMixed
    /\ phase = "done" => \A t \in Tracks :
           /\ \A k \in 1 .. Pes(t) : Undamaged(t, k) =>
               Cardinality({i \in 1 .. Len(packets[t]) : packets[t][i] = Whole(t, k)}) = 1
           /\ \A i, j \in 1 .. Len(packets[t]) : i < j => packets[t][i].pes < packets[t][j].pes

Intact(t) == malformed[t] = {} /\ AllSent(t) /\ \A k \in 1 .. Pes(t) : sent[t][k].known

\* A fragment that went to TS and back has the samples it had: as many, each of
\* its size, sync samples where they were.
SamplesKept ==
    phase = "done" => \A t \in Tracks : Intact(t) =>
        /\ Len(packets[t]) = Pes(t)
        /\ \A i \in 1 .. Pes(t) :
            /\ FragmentSamples(t)[i].size = sent[t][i].size
            /\ FragmentSamples(t)[i].sync = sent[t][i].idr

\* And each is decoded when it was, to the tick of the stream's clock: although
\* times are rounded to it, tfdt and the durations before a sample add up to its
\* own rounded time, as long as the 33-bit clock does not wrap inside the segment.
DecodeTimesKept ==
    phase = "done" /\ "video" \in Tracks /\ Intact("video") =>
        \A i \in 1 .. Pes("video") :
            RescaleTime(Last(sent["video"]).time) < TimeModulus =>
                FragmentTime(i) = RescaleTime(sent["video"][i].time)
=============================================================================
