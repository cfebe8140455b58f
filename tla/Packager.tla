------------------------------ MODULE Packager ------------------------------
(***************************************************************************)
(* The batch pipeline: execute_progressive of repackager/pipeline.rs, from *)
(* the source to the finished outputs, and its output as the source of a   *)
(* further job, so that keys, IVs and boxes go through several rewrites.   *)
(*                                                                         *)
(* A job is sequential; its steps are the calls that may fail and the      *)
(* progress events that others see.  HLS and DASH outputs of a scheme hold *)
(* the same segments, so there is one output per scheme.  The tenc of an   *)
(* encrypted source is laid out as parse_tenc and build_tenc have it.      *)
(***************************************************************************)
EXTENDS InitSegment, SegmentRewrite, AdMarkers

CONSTANTS
    Sources,        \* sources a job may start from
    Requests,       \* requests a client may send
    MaxJobs         \* bound: jobs of one behaviour

\* What a source holds: an elementary stream of each segment has its track, the
\* segments of the others their boxes.
TsWellFormed(segment) ==
    LET streams == segment[1].streams
    IN  IsList(streams) /\ \A s \in 1..Len(streams) : streams[s].track \in {"video", "audio"}

WellFormed(src) ==
    /\ IsList(src.segments) /\ src.segments # << >>
    /\ IF src.ts THEN \A i \in 1..Len(src.segments) : TsWellFormed(src.segments[i])
       ELSE /\ InitWellFormed(src.init)
            /\ \A i \in 1..Len(src.segments) : SegmentWellFormed(src.segments[i])

\* What it holds is what is read of it.
TsHolds(segment, clear) ==
    LET streams == segment[1].streams
    IN  /\ clear = [s \in 1..Len(streams) |-> streams[s].samples]
        /\ \A s \in 1..Len(streams) :
             /\ IsList(streams[s].samples)
             /\ \A i \in 1..Len(streams[s].samples) : IsBare(streams[s].samples[i])

SegmentHolds(info, segment, clear) ==
    FragmentsWellFormed(info, segment) /\ clear = ReadSegment(info, segment)

Holds(src) ==
    \A i \in 1..Len(src.segments) :
        IF src.ts THEN TsHolds(src.segments[i], src.clear[i])
        ELSE SegmentHolds(ParseProtectionInfo(src.init), src.segments[i], src.clear[i])

ASSUME JobSourcesAssumption == \A s \in Sources : WellFormed(s) /\ Holds(s)
ASSUME RequestsAssumption ==
    \A r \in Requests : IsList(r.schemes) /\ Range(r.schemes) \subseteq Schemes /\ IsList(r.raw)
ASSUME JobsAssumption == MaxJobs \in Nat \ {0}

VARIABLES
    source,         \* SourceManifest of the job, with what its URLs hold
    original,       \* history: the clear samples of each segment, by fragment
    request,        \* RepackageRequest
    phase,          \* where execute_progressive is
    failure,        \* history: why the last job failed
    keySet,         \* key_set of the job
    keyCache,       \* the drm_keys entry of the content
    stale,          \* history: whether that entry was left by a failed job
    next,           \* segments processed
    elapsed,        \* elapsed_time
    outputs,        \* the ProgressiveOutput of each target scheme
    jobs            \* jobs begun

vars == <<source, original, request, phase, failure, keySet, keyCache, stale, next, elapsed,
          outputs, jobs>>

Phases   == {"idle", "fetched", "validated", "keyed", "processing", "done", "failed"}
Failures == {"none", "fetch", "scheme", "invalid", "server", "nokey", "segment"}

NoCipher == [present |-> FALSE, key |-> Unset, iv |-> 0]

Targets == Range(request.schemes)

-----------------------------------------------------------------------------
(* Transport streams: a segment is its elementary streams, under one cipher *)

TsSegment(streams, cipher) == << [type |-> "ts", streams |-> streams, cipher |-> cipher] >>
Stream(track, samples) == [track |-> track, samples |-> samples]

TsFormat(track) == IF track = "video" THEN "avc1" ELSE "mp4a"

\* demux_segment finds no packets in an encrypted segment, nor is the AES-128
\* key of the source ever asked for.
CanDemux(segment) == ~segment[1].cipher.present /\ segment[1].streams # << >>

\* synthesize_init_segment, from the first segment.
SynthesizeInit(segment) ==
    [brands |-> {"isom", "iso5", "dash", "cmfc"}, pssh |-> {},
     tracks |-> [s \in 1..Len(segment[1].streams) |->
        LET track == segment[1].streams[s].track
        IN  [type |-> track, entries |-> << [format |-> TsFormat(track), sinf |-> NoSinf] >>]]]

\* build_video_trun and build_audio_trun leave the data_offset at a placeholder.
ClearTraf(track, samples, first) ==
    [track |-> track, sizes |-> [i \in 1..Len(samples) |-> Len(samples[i])], sized |-> TRUE,
     senc |-> NoSenc, aux |-> FALSE, dataOffset |-> 0, firstFlags |-> first,
     defaultFlags |-> "absent"]

Fragment(track, samples, first) ==
    << Moof(<< ClearTraf(track, samples, first) >>), Mdat(FlattenSeq(samples)) >>

\* transmux_to_cmaf: a fragment per stream; its flags are those of the samples.
TransmuxToCmaf(segment) ==
    FlattenSeq([s \in 1..Len(segment[1].streams) |->
        Fragment(segment[1].streams[s].track, segment[1].streams[s].samples, "absent")])

\* extract_mux_config: a job with a video track muxes video.
MuxTrack(init) ==
    IF \E t \in 1..Len(init.tracks) : init.tracks[t].type = "video" THEN "video" ELSE "audio"

\* mux_to_ts reads the last moof and mdat and the first traf, as the one track
\* of its configuration; a sample that is cut short ends the loop.
MuxToTs(segment, track) ==
    LET traf    == MoofOf(segment).trafs[1]
        data    == MdatOf(segment).data
        whole   == {n \in 0..Len(traf.sizes) : SampleEnd(traf.sizes, n) <= Len(data)}
        count   == CHOOSE n \in whole : \A m \in whole : m <= n
        sample(i) == IF traf.track = track THEN Sample(data, traf.sizes, i) ELSE << <<Garbled>> >>
    IN  << Stream(track, [i \in 1..count |-> sample(i)]) >>

-----------------------------------------------------------------------------
(* The source of a job                                                      *)

\* Step 2: the init segment, or the one that the first TS segment makes.
InitOfSource(src) == IF src.ts THEN SynthesizeInit(src.segments[1]) ELSE src.init
SourceInit == InitOfSource(source)
SourceInfo == ParseProtectionInfo(SourceInit)
FromScheme == SourceScheme(SourceInfo)
SourceTracks == ExtractTracks(SourceInit)
Mapping == BuildTrackKeyMapping(SourceTracks, SourceInfo)

DataOfSource(src, i) == IF src.ts THEN TransmuxToCmaf(src.segments[i]) ELSE src.segments[i]
SegmentData(i) == DataOfSource(source, i)

NeedsKeys == IsEncrypted(FromScheme) \/ \E s \in Targets : IsEncrypted(s)

\* What the proofs ask of a source: the one track that mux_to_ts writes is that
\* of the fragment it reads, if a request makes transport streams of it,
Muxable(src) ==
    \A i \in 1..Len(src.segments) : HasMoofMdat(DataOfSource(src, i)) =>
        MoofOf(DataOfSource(src, i)).trafs[1].track = MuxTrack(InitOfSource(src))

MuxableFor(src, requests) ==
    \A r \in requests :
        r.container = "ts" /\ ValidRequest(Range(r.schemes), ExtractTracks(InitOfSource(src)))
            => Muxable(src)

\* and the last fragment of each segment has a sample with something to encrypt,
\* with the map it came with and without one.
Fills(sample, map) ==
    \A scheme \in Schemes \ {"none"} : \E p \in 1..Len(sample) :
        Layer(scheme, Unset, DefaultVideoPattern(scheme), << >>, Regions(Len(sample), map), p) # NoLayer

FillsSegment(info, segment) ==
    LET entries == MoofOf(segment).trafs[1].senc.entries
        found   == ReadFragment(info, MoofOf(segment), MdatOf(segment))
    IN  \E n \in DOMAIN found :
            /\ Fills(found[n], Whole)
            /\ info.present => Fills(found[n], entries[n].subsamples)

Protectable(src) ==
    LET info == IF src.ts THEN NoSinf ELSE ParseProtectionInfo(src.init)
    IN  \A i \in 1..Len(src.segments) :
            HasMoofMdat(DataOfSource(src, i)) => FillsSegment(info, DataOfSource(src, i))

\* Each step may also end the job: the callers get an error and no more events.
Fail(why) ==
    /\ phase' = "failed" /\ failure' = why
    /\ stale' = keyCache.present

-----------------------------------------------------------------------------
(* The steps of a job                                                       *)

Init ==
    /\ source \in Sources
    /\ original = source.clear
    /\ request \in Requests
    /\ phase = "idle" /\ failure = "none"
    /\ keySet = NoKeySet
    /\ keyCache = [present |-> FALSE, set |-> NoKeySet] /\ stale = FALSE
    /\ next = 0 /\ elapsed = 0
    /\ outputs = [s \in {} |-> << >>]
    /\ jobs = 1

\* fetch_source_manifest, fetch_segment and parse_protection_info.
FetchSource ==
    /\ phase = "idle"
    /\ \/ /\ source.ts => CanDemux(source.segments[1])
          /\ ~source.ts => SchemeKnown(ParseProtectionInfo(source.init))
          /\ phase' = "fetched" /\ UNCHANGED <<failure, stale>>
       \/ source.ts /\ ~CanDemux(source.segments[1]) /\ Fail("segment")
       \/ ~source.ts /\ ~SchemeKnown(ParseProtectionInfo(source.init)) /\ Fail("scheme")
       \/ Fail("fetch")
    /\ UNCHANGED <<source, original, request, keySet, keyCache, next, elapsed, outputs, jobs>>

Validate ==
    /\ phase = "fetched"
    /\ IF ValidRequest(Targets, SourceTracks)
       THEN phase' = "validated" /\ UNCHANGED <<failure, stale>>
       ELSE Fail("invalid")
    /\ UNCHANGED <<source, original, request, keySet, keyCache, next, elapsed, outputs, jobs>>

\* The key set is there: the key of the first key id must be in it.
UseKeys(keys) ==
    /\ keySet' = keys
    /\ IF HasKey(keys, PrimaryKid(Mapping))
       THEN phase' = "keyed" /\ UNCHANGED failure
       ELSE phase' = "failed" /\ failure' = "nokey"

\* Step 4, get_or_fetch_keys: raw keys, else the cache, else the server.
GetKeys ==
    /\ phase = "validated"
    /\ \/ /\ ~NeedsKeys
          /\ phase' = "keyed" /\ UNCHANGED <<failure, keySet, keyCache, stale>>
       \/ /\ NeedsKeys /\ request.raw # << >>
          /\ UseKeys(RawKeySet(request.raw)) /\ UNCHANGED <<keyCache, stale>>
       \/ /\ NeedsKeys /\ request.raw = << >> /\ keyCache.present
          /\ UseKeys(keyCache.set) /\ UNCHANGED <<keyCache, stale>>
       \/ /\ NeedsKeys /\ request.raw = << >> /\ ~keyCache.present
          /\ \E document \in Answers(KidList(Mapping)) :
                LET keys == ParseCpixResponse(document)
                IN  IF keys = NoKeySet
                    THEN Fail("server") /\ UNCHANGED <<keySet, keyCache>>
                    ELSE /\ UseKeys(keys)
                         /\ keyCache' = [present |-> TRUE, set |-> keys]
                         /\ stale' = (phase' = "failed")
    /\ UNCHANGED <<source, original, request, next, elapsed, outputs, jobs>>

\* The init segment of an output.
NewInit(target) ==
    LET container == request.container
    IN  CASE IsEncrypted(FromScheme) /\ IsEncrypted(target) ->
               RewriteInitSegment(SourceInit, keySet, Mapping, target, container)
          [] ~IsEncrypted(FromScheme) /\ IsEncrypted(target) ->
               CreateProtectionInfo(SourceInit, keySet, Mapping, target, container)
          [] IsEncrypted(FromScheme) /\ ~IsEncrypted(target) ->
               StripProtectionInfo(SourceInit, container)
          [] OTHER -> RewriteFtypOnly(SourceInit, container)

\* Mutant: the manifest names the key of the request and not that of the source.
NewDrmInfoOwnKid(target) ==
    IF IsEncrypted(target)
    THEN DrmInfo(keySet, ContentKid, AllKids(Mapping), target, request.systems)
    ELSE NoDrmInfo

NewDrmInfo(target) ==
    IF IsEncrypted(target)
    THEN DrmInfo(keySet, PrimaryKid(Mapping), AllKids(Mapping), target, request.systems)
    ELSE NoDrmInfo

NewOutput(target) ==
    [ts |-> request.container = "ts", init |-> NewInit(target), drm |-> NewDrmInfo(target),
     segments |-> << >>, parts |-> << >>, iframes |-> << >>, adBreaks |-> << >>, ended |-> FALSE]

\* Step 5, up to InitReady, and the start of step 6.
BuildOutputs ==
    /\ phase = "keyed"
    /\ outputs' = [s \in Targets |-> NewOutput(s)]
    /\ phase' = "processing"
    /\ next' = 0 /\ elapsed' = 0
    /\ UNCHANGED <<source, original, request, failure, keySet, keyCache, stale, jobs>>

\* SegmentRewriteParams of segment i: one key, that of the first key id, serves
\* for the source and for every target.
Params(target, i) ==
    LET key == IF NeedsKeys THEN KeyOf(keySet, PrimaryKid(Mapping)) ELSE Unset
    IN  [sourceKey |-> key, targetKey |-> key,
         sourceScheme |-> FromScheme, targetScheme |-> target,
         sourceIvSize |-> SourceInfo.tenc.ivSize, constantIv |-> SourceInfo.tenc.constantIv,
         sourcePattern |-> SourceInfo.tenc.pattern, targetPattern |-> DefaultVideoPattern(target),
         segmentNumber |-> i - 1]

\* TS output: clear fragments, muxed, then the whole segment encrypted with
\* generate_ts_iv, which is the number of the segment.
TsOutput(target, i) ==
    LET clear  == RewriteSegment(SegmentData(i), Params("none", i))
        cipher == IF IsEncrypted(target)
                  THEN [present |-> TRUE, key |-> Params(target, i).targetKey, iv |-> i - 1]
                  ELSE NoCipher
    IN  IF clear.ok /\ HasMoofMdat(clear.boxes)
        THEN OkSegment(TsSegment(MuxToTs(clear.boxes, MuxTrack(SourceInit)), cipher))
        ELSE ErrSegment

Rewritten(target, i) ==
    IF request.container = "ts" THEN TsOutput(target, i)
    ELSE RewriteSegment(SegmentData(i), Params(target, i))

Boundaries(segment) ==
    IF request.container # "ts" /\ (source.parts \/ request.iframes)
    THEN ChunkBoundaries(segment) ELSE << >>

\* add_part for each chunk of a segment that has several.
NewParts(segment, i) ==
    LET bs == Boundaries(segment)
    IN  IF source.parts /\ Len(bs) > 1
        THEN [p \in 1..Len(bs) |-> [segment |-> i - 1, part |-> p - 1,
                                    data |-> ExtractChunk(segment, bs[p]),
                                    independent |-> bs[p].independent]]
        ELSE << >>

\* add_iframe_info for the first independent chunk.
NewIframes(segment, i) ==
    LET bs == Boundaries(segment)
        independent == Chosen(bs, {b \in 1..Len(bs) : bs[b].independent})
    IN  IF request.iframes /\ independent # << >>
        THEN << [segment |-> i - 1, from |-> independent[1].from, to |-> independent[1].to] >>
        ELSE << >>

Extended(output, segment, i, breaks) ==
    [output EXCEPT !.segments = Append(@, segment),
                   !.parts    = @ \o NewParts(segment, i),
                   !.iframes  = @ \o NewIframes(segment, i),
                   !.adBreaks = @ \o breaks,
                   !.ended    = i = Len(source.segments) /\ ~source.live]

\* Step 6 for one segment: rewritten for every scheme before any output gets it.
\* The ad breaks are those of the source; every segment lasts one unit of time.
ProcessSegment ==
    LET i == next + 1
    IN  /\ phase = "processing" /\ next < Len(source.segments)
        /\ IF /\ source.ts => CanDemux(source.segments[i])
              /\ \A s \in Targets : Rewritten(s, i).ok
           THEN /\ outputs' = [s \in Targets |->
                        Extended(outputs[s], Rewritten(s, i).boxes, i,
                                 ExtractAdBreaks(ExtractEmsgBoxes(SegmentData(i)), i - 1, elapsed))]
                /\ next' = i /\ elapsed' = elapsed + 1
                /\ UNCHANGED <<phase, failure, stale>>
           ELSE Fail("segment") /\ UNCHANGED <<outputs, next, elapsed>>
        /\ UNCHANGED <<source, original, request, keySet, keyCache, jobs>>

\* A segment of the source cannot be fetched.
SegmentLost ==
    /\ phase = "processing" /\ next < Len(source.segments)
    /\ Fail("fetch")
    /\ UNCHANGED <<source, original, request, keySet, keyCache, next, elapsed, outputs, jobs>>

\* Mutant: the keys stay in the cache.
CleanupNothing == UNCHANGED <<keyCache, stale>>

\* cleanup_sensitive_data.
CleanupSensitiveData == keyCache' = [present |-> FALSE, set |-> NoKeySet] /\ stale' = FALSE

Finish ==
    /\ phase = "processing" /\ next = Len(source.segments)
    /\ phase' = "done"
    /\ CleanupSensitiveData
    /\ UNCHANGED <<source, original, request, failure, keySet, next, elapsed, outputs, jobs>>

-----------------------------------------------------------------------------
(* Between jobs                                                             *)

StartJob ==
    /\ jobs < MaxJobs /\ jobs' = jobs + 1
    /\ request' \in Requests
    /\ phase' = "idle" /\ failure' = "none"
    /\ keySet' = NoKeySet
    /\ next' = 0
    /\ outputs' = [s \in {} |-> << >>]
    /\ UNCHANGED <<keyCache, stale, elapsed>>

\* Another job for the content, from any source.
NewJob ==
    /\ phase \in {"done", "failed"}
    /\ source' \in Sources /\ original' = source'.clear
    /\ StartJob

\* The drm_keys entry reaches its time to live, or the process restarts, between
\* two jobs.
ExpireKeys ==
    /\ phase = "idle" /\ keyCache.present
    /\ keyCache' = [present |-> FALSE, set |-> NoKeySet] /\ stale' = FALSE
    /\ UNCHANGED <<source, original, request, phase, failure, keySet, next, elapsed, outputs, jobs>>

-----------------------------------------------------------------------------
(* What is read of an output                                                *)

\* A TS playlist gives the key but no IV: a player takes the media sequence
\* number of the segment.
ReadTs(output, segment, i) ==
    LET cipher == segment[1].cipher
        agrees == IF output.drm.present
                  THEN cipher.present /\ cipher.key = output.drm.defaultKid /\ cipher.iv = i - 1
                  ELSE ~cipher.present
    IN  IF agrees THEN [s \in 1..Len(segment[1].streams) |-> segment[1].streams[s].samples]
        ELSE << << <<Garbled>> >> >>

\* The samples of segment i of an output, by fragment.
Read(output, i) ==
    IF output.ts THEN ReadTs(output, output.segments[i], i)
    ELSE ReadSegment(ParseProtectionInfo(output.init), output.segments[i])

\* The output of a job is published and becomes the source of the next one; its
\* playlist has parts if it is HLS and parts were made, and its content is what
\* is read of it.
Republish ==
    /\ phase = "done"
    /\ \E s \in Targets, parts \in BOOLEAN :
        LET o == outputs[s]
            clear == [i \in 1..Len(o.segments) |-> Read(o, i)]
        IN  /\ parts => o.parts # << >>
            /\ source' = [ts |-> o.ts, init |-> o.init, segments |-> o.segments,
                          parts |-> parts, live |-> ~o.ended, clear |-> clear]
            /\ original' = clear
    /\ StartJob

-----------------------------------------------------------------------------

Over == phase \in {"done", "failed"} /\ jobs = MaxJobs /\ UNCHANGED vars

Next ==
    \/ FetchSource \/ Validate \/ GetKeys \/ BuildOutputs
    \/ ProcessSegment \/ SegmentLost \/ Finish
    \/ NewJob \/ Republish \/ ExpireKeys \/ Over

Spec == Init /\ [][Next]_vars

-----------------------------------------------------------------------------
(* Properties                                                               *)

\* Every variable has its type.
TypeOK ==
    /\ phase \in Phases /\ failure \in Failures
    /\ next \in 0..Len(source.segments) /\ elapsed \in Nat
    /\ phase \in {"processing", "done"} => elapsed = next
    /\ jobs \in 1..MaxJobs
    /\ DOMAIN outputs \in {{}, Targets}
    /\ keyCache.present \in BOOLEAN /\ stale \in BOOLEAN

\* A rewrite keeps the last fragment of a segment (find_moof_mdat), the others are
\* lost although a segment "may contain multiple moof+mdat pairs" (chunk.rs:4);
\* what passes through keeps them all.
KeptFragments(s, i) ==
    IF IsEncrypted(FromScheme) \/ IsEncrypted(s) \/ request.container = "ts"
    THEN << Last(original[i]) >> ELSE original[i]

\* Decrypted by what its own init segment and playlist say, and cut by its trun
\* from the start of the mdat payload on, which is where this program looks (a
\* player goes by data_offset: DataOffsetsLead), a segment of an output gives the
\* samples of the source: over several jobs, for every pair of schemes, with and
\* without subsample maps, constant IVs and TS.
SamplesRecoverable ==
    \A s \in DOMAIN outputs : \A i \in 1..Len(outputs[s].segments) :
        Read(outputs[s], i) = KeptFragments(s, i)

SampleUnits(output, i) ==
    FlattenSeq(LET mdats == BoxesOf(output.segments[i], "mdat")
               IN  [m \in 1..Len(mdats) |-> mdats[m].data])

Layers(unit) == Len(unit) - 1

\* No sample is encrypted twice, nothing in a clear output is encrypted, and in
\* an encrypted output every segment has something encrypted: a segment never
\* stays as it came because the source was already encrypted.
ProtectedOnce ==
    \A s \in DOMAIN outputs : ~outputs[s].ts =>
        \A i \in 1..Len(outputs[s].segments) :
            LET units == Range(SampleUnits(outputs[s], i))
            IN  /\ \A u \in units : Layers(u) <= (IF IsEncrypted(s) THEN 1 ELSE 0)
                /\ IsEncrypted(s) => \E u \in units : Layers(u) = 1

\* Under one key no counter of an output is used for two units: the IVs of its
\* samples (generate_sample_iv) keep their key streams apart.
CountersDistinct ==
    \A s \in DOMAIN outputs : s = "cenc" /\ ~outputs[s].ts =>
        LET all == FlattenSeq([i \in 1..Len(outputs[s].segments) |-> SampleUnits(outputs[s], i)])
            at(n) == all[n][Len(all[n])]
        IN  \A m, n \in 1..Len(all) :
                m # n /\ Layers(all[m]) = 1 /\ Layers(all[n]) = 1 => at(m) # at(n)

\* What a manifest says of the protection agrees with the init segment: the key
\* id is the one in the tenc of the first track, each PSSH names the key ids
\* and holds the data that the PSSH of that system in the init segment does, and
\* every protected track is in every PSSH of a job with several keys.
ManifestMatchesInit ==
    \A s \in DOMAIN outputs : ~outputs[s].ts =>
        LET o == outputs[s]
            boxes(name) == {b.box : b \in {p \in o.init.pssh : p.system = name}}
        IN  /\ o.drm.present = ParseProtectionInfo(o.init).present
            /\ o.drm.present =>
                /\ o.drm.defaultKid = ParseProtectionInfo(o.init).tenc.kid
                /\ o.drm.scheme = ParseProtectionInfo(o.init).schm
                /\ o.drm.widevine.present => boxes("widevine") = {o.drm.widevine}
                /\ o.drm.playready.present => boxes("playready") = {o.drm.playready}
                /\ o.drm.clearkey.present =>
                     {Sinfs(o.init)[t].tenc.kid : t \in 1..Len(Sinfs(o.init))} \subseteq o.drm.clearkey.kids

\* What is put in a PSSH box came in a PSSH element, for a key id that has a key.
PsshFromServer ==
    \A d \in 1..Len(keySet.systems) :
        keySet.systems[d].pssh = "pssh" /\ HasKey(keySet, keySet.systems[d].kid)

\* The parts of a segment are all of it, in order, and an I-frame entry is one
\* of its chunks.
PartsTileSegment ==
    \A s \in DOMAIN outputs :
        LET o == outputs[s]
            ofSegment(i) == Chosen(o.parts, {p \in 1..Len(o.parts) : o.parts[p].segment = i - 1})
            media(segment) == Chosen(segment, {b \in 1..Len(segment) :
                                                  segment[b].type \in {"moof", "mdat"}})
        IN  /\ \A i \in 1..Len(o.segments) : ofSegment(i) # << >> =>
                 /\ FlattenSeq([p \in 1..Len(ofSegment(i)) |-> ofSegment(i)[p].data])
                        = media(o.segments[i])
                 /\ \A p \in 1..Len(ofSegment(i)) : ofSegment(i)[p].part = p - 1
            /\ \A f \in 1..Len(o.iframes) :
                 LET i == o.iframes[f].segment + 1
                 IN  /\ i \in 1..Len(o.segments)
                     /\ o.segments[i][o.iframes[f].from].type = "moof"
                     /\ o.segments[i][o.iframes[f].to].type = "mdat"

\* All outputs of a job announce the same ad breaks, each splice message of the
\* source once and with the segment that carried it.
AdBreaksOnce ==
    \A s \in DOMAIN outputs :
        LET breaks == outputs[s].adBreaks
            announced(i) == {b \in 1..Len(breaks) : breaks[b].segment = i - 1}
            sent(i) == {b \in 1..Len(SegmentData(i)) :
                            LET box == SegmentData(i)[b]
                            IN  box.type = "emsg" /\ IsScte35Emsg(box) /\ box.message.valid}
        IN  \A i \in 1..next : Cardinality(announced(i)) = Cardinality(sent(i))

\* A job fails to find its key only with raw keys for other key ids, with a
\* server that does not know the key, or with keys that a failed job left in
\* the cache: never after a job that ended well.
NoKeyForCause ==
    failure = "nokey" =>
        \/ request.raw # << >> /\ PrimaryKid(Mapping) \notin Range(request.raw)
        \/ stale

\* The muxer sets the data_offset of each trun (the placeholder of
\* build_video_trun is "set by muxer"): in the fragments of an output it leads
\* from the moof to the samples.
DataOffsetsLead ==
    \A s \in DOMAIN outputs : ~outputs[s].ts => \A i \in 1..Len(outputs[s].segments) :
        LET moofs == BoxesOf(outputs[s].segments[i], "moof")
        IN  \A f \in 1..Len(moofs) : moofs[f].trafs[1].dataOffset = PayloadAt(moofs[f])

=============================================================================
