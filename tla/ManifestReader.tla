--------------------------- MODULE ManifestReader ---------------------------
(***************************************************************************)
(* A further job that takes a manifest as its source (fetch_source_manifest *)
(* of pipeline.rs): either one that this program publishes, in HLS or DASH, *)
(* while it goes on sliding and ending (ProgressiveOutput), or one of       *)
(* another origin.  The manifest is fetched once; what is read from it is   *)
(* all the job knows of its source.  The sandbox looks at a manifest before *)
(* that, for its tracks (SourceTracks): at those of other origins, and here *)
(* also at the one it puts together of its own tracks.                     *)
(***************************************************************************)
EXTENDS ProgressiveOutput, SourceTracks

CONSTANTS
    OutputUrl,      \* URL the output's manifests are served at
    OutputVariants, \* variants of the output: [type, bandwidth, prefixed, init, media]
    OutputDrm,      \* [scheme, systems]: its scheme and how many systems have data
    Playlists,      \* HLS media playlists of other origins
    Masters,        \* HLS master playlists of other origins
    Mpds,           \* DASH manifests of other origins
    Ready           \* variants of the sandbox's output that are ready: [index, bandwidth]

\* The names of the output's files are references without a query.
IsReference(reference) == DOMAIN reference = {"kind", "host", "path", "query"}
IsFileName(reference)  == IsReference(reference) /\ reference.query = <<>>

ASSUME OutputAssumption ==
    /\ IsList(OutputVariants)
    /\ \A v \in 1..Len(OutputVariants) :
          /\ OutputVariants[v].type \in {"video", "audio", "text"}
          /\ OutputVariants[v].prefixed \in BOOLEAN
          /\ IsFileName(OutputVariants[v].init) /\ IsFileName(OutputVariants[v].media)
    /\ OutputDrm.scheme \in {"none", "cenc", "cbcs"} /\ OutputDrm.systems \in Nat

VARIABLE read       \* the last manifest read: its origin and its SourceManifest

readerVars == <<vars, read>>

Unread == [origin |-> "none"]

-----------------------------------------------------------------------------
(* The output's own manifests *)

Directory == Plain("content")
RootUri(element) == Reference("root", "none", <<Directory, element>>, <<>>)

OutputUris ==
    [init    |-> RootUri(Plain("init")),
     media   |-> RootUri(Numbered("segment", Number)),
     segment |-> [n \in 0..SourceLength - 1 |-> RootUri(Numbered("segment", n))],
     part    |-> [p \in 1..PartCount |-> RootUri(Numbered("part", p))]]

HlsDocument(m)  == RenderHls(m, OutputDrm, OutputUris)
DashDocument(m) == RenderDash(m, TicksPerMs, OutputVariants, OutputDrm, OutputUris)

\* What a DASH manifest of the output needs to be read as its window: no segment
\* shorter than a millisecond (parse_dash_manifest leaves an S out whose "d" is
\* 0), and a set whose template is locked in, or one set only (without video the
\* S elements of a second set are read as more of the first).
MsDurations == \A d \in Durations : d >= TicksPerMs
OneTemplate ==
    /\ OutputVariants # <<>>
    /\ \/ \E v \in 1..Len(OutputVariants) : OutputVariants[v].type = "video"
       \/ \A v, w \in 1..Len(OutputVariants) : OutputVariants[v].type = OutputVariants[w].type

-----------------------------------------------------------------------------
(* Manifests of other origins *)

\* A playlist [url, per, lines] is its lines already.  An MPD is its tree,
\* [url, base, live, total, sets, sidx]; the events of the tree are what a
\* reader of XML makes of it.
BaseUrl(reference) ==
    IF reference.present THEN Element("BaseURL", NoAttributes, << Text(reference.url) >>) ELSE <<>>

TemplateOf(set) ==
    IF set.template = NoAttributes THEN <<>>
    ELSE Element("SegmentTemplate", set.template,
            IF set.timeline = <<>> THEN <<>>
            ELSE Element("SegmentTimeline", NoAttributes,
                    [i \in 1..Len(set.timeline) |-> Empty("S", set.timeline[i])]))

IndexOf(rep) ==
    BaseUrl(rep.file)
    \o (IF ~rep.indexed THEN <<>>
        ELSE Element("SegmentBase", [indexRange |-> rep.index, timescale |-> rep.scale],
                << Empty("Initialization", [range |-> rep.init]) >>))

WithMime(attributes, x) ==
    IF x.mime = "none" THEN attributes
    ELSE [a \in DOMAIN attributes \union {"mimeType"} |->
             IF a = "mimeType" THEN x.mime ELSE attributes[a]]

SetEvents(set) ==
    Element("AdaptationSet", WithMime([contentType |-> set.type], set),
        TemplateOf(set)
        \o FlattenSeq([r \in 1..Len(set.reps) |->
              Element("Representation", WithMime([bandwidth |-> set.reps[r].bandwidth], set.reps[r]),
                      IndexOf(set.reps[r]))]))

MpdEvents(mpd) ==
    Element("MPD",
        [type |-> IF mpd.live THEN "dynamic" ELSE "static",
         mediaPresentationDuration |-> mpd.total],
        BaseUrl(mpd.base)
        \o Element("Period", NoAttributes,
              FlattenSeq([s \in 1..Len(mpd.sets) |-> SetEvents(mpd.sets[s])])))

\* The template set of an MPD, and what it needs to be read as what it says: all
\* its attributes (one that it lacks stays what an earlier set said), S elements
\* that last and are repeated forwards, names that hold no URL in their query, and
\* a set that is locked in, or no other with a template.
Videos(mpd) == Chosen(mpd.sets, {s \in 1..Len(mpd.sets) : mpd.sets[s].type = "video"})
Main(mpd)   == IF Videos(mpd) # <<>> THEN Videos(mpd)[1] ELSE mpd.sets[1]
CanResolve(reference) ==
    IsReference(reference) /\ (reference.kind = "absolute" \/ ~HoldsUrl(reference))
Complete(set) ==
    /\ {"initialization", "media", "timescale", "startNumber"} \subseteq DOMAIN set.template
    /\ set.template.timescale \in Nat \ {0} /\ set.template.startNumber \in Nat
    /\ CanResolve(set.template.initialization) /\ CanResolve(set.template.media)
    /\ IF set.timeline = <<>>
       THEN "duration" \in DOMAIN set.template /\ set.template.duration \in Nat \ {0}
       ELSE \A i \in 1..Len(set.timeline) :
                LET s == set.timeline[i]
                IN  "d" \in DOMAIN s /\ s.d \in Nat \ {0} /\ ("r" \in DOMAIN s => s.r \in Nat)
HasMainTemplate(mpd) ==
    /\ Complete(Main(mpd))
    /\ Videos(mpd) = <<>> => \A s \in 2..Len(mpd.sets) : mpd.sets[s].template = NoAttributes

\* An MPD without templates: its video is a file, and the sidx is that file's and
\* leads to no other.
IsIndexed(mpd) ==
    /\ \A s \in 1..Len(mpd.sets) : mpd.sets[s].template = NoAttributes
    /\ Videos(mpd) # <<>>
    /\ LET file  == Videos(mpd)[1].reps[1]
           refs  == mpd.sidx.references
           sizes == [i \in 1..Len(refs) |-> refs[i].size]
       IN  /\ file.indexed /\ CanResolve(file.file.url) /\ file.index.last \in Nat
           /\ IsList(refs) /\ refs # <<>> /\ mpd.sidx.firstOffset \in Nat
           /\ \A i \in 1..Len(refs) : ~refs[i].nested /\ refs[i].size \in Nat
           /\ mpd.sidx.fileSize = file.index.last + 1 + mpd.sidx.firstOffset + SumUpTo(sizes, Len(refs))

\* An MPD that is in order, and one that can be read as what it says.
IsFormed(mpd) ==
    /\ IsList(mpd.sets) /\ mpd.sets # <<>> /\ mpd.live \in BOOLEAN /\ mpd.total \in Nat
    /\ mpd.base.present => mpd.base.url.kind = "absolute"
    /\ \A s \in 1..Len(mpd.sets) :
          LET set == mpd.sets[s]
          IN  /\ IsList(set.timeline) /\ IsList(set.reps) /\ set.reps # <<>>
              /\ set.type # "video" => \A x \in {set} \union Range(set.reps) : x.mime \notin VideoMimeTypes
              /\ \A r \in 1..Len(set.reps) : set.reps[r].indexed => set.reps[r].file.present
IsReadable(mpd) == IsFormed(mpd) /\ (HasMainTemplate(mpd) \/ IsIndexed(mpd))
ReadableMpds == \A mpd \in Mpds : IsReadable(mpd)

\* What RFC 3986 makes of a reference.
Dots == {Plain("."), Plain("..")}
Taken(path, i) ==
    \E j \in i + 1..Len(path) :
        Cardinality({k \in i + 1..j : path[k] = Plain("..")})
            > Cardinality({k \in i + 1..j : path[k] \notin Dots})
Remaining(path) == Chosen(path, {i \in 1..Len(path) : path[i] \notin Dots /\ ~Taken(path, i)})
Rfc(base, reference) ==
    Url(IF reference.kind \in {"absolute", "protocol"} THEN reference.host ELSE base.host,
        Remaining(IF reference.kind = "path" THEN DirectoryOf(base) \o reference.path
                  ELSE reference.path),
        reference.query)

\* The URIs of a playlist's segments: between each and an EXTINF before it that
\* can be read is no other EXTINF and no other URI.
IsTimed(lines, i) ==
    \E e \in 1..i - 1 : /\ lines[e].tag = "EXTINF" /\ lines[e].valid
                        /\ \A k \in e + 1..i - 1 : lines[k].tag \notin {"EXTINF", "URI"}
SegmentUris(lines) ==
    Chosen(lines, {i \in 1..Len(lines) : lines[i].tag = "URI" /\ IsTimed(lines, i)})

\* A reference that is read by RFC 3986.  One that is not relative is taken as it
\* is, with its dots.  A relative one names a file behind no empty directories; a
\* "." does not come right after ".."; slashes in its query do not make it look
\* like a path with dots.
IsBare(segment) == segment = [name |-> segment.name, number |-> segment.number, query |-> <<>>]
IsPlain(base, reference) ==
    LET path  == DirectoryOf(base) \o reference.path
        query == reference.query
    IN  /\ IsList(reference.path) /\ IsList(query) /\ CanResolve(reference)
        /\ reference.kind \in {"absolute", "protocol", "root", "path"}
        /\ reference.kind # "path" =>
              \A i \in 1..Len(reference.path) : reference.path[i] \notin Dots
        /\ reference.kind = "path" =>
              /\ reference.path # <<>> /\ IsList(base.path)
              /\ \A i \in 1..Len(path) : IsBare(path[i]) /\ path[i] # Plain("empty")
              /\ path[Len(path)] \notin Dots
              /\ \A i \in 2..Len(path) : path[i] = Plain(".") => path[i - 1] # Plain("..")
              /\ \A i \in 2..Len(query) : query[i] \notin {"empty", ".", ".."}

\* A playlist of segments that can be read.
IsPlayable(playlist) ==
    LET lines == playlist.lines
    IN  /\ IsList(lines)
        /\ \A i \in 1..Len(lines) :
              /\ lines[i].tag # "STREAM-INF"
              /\ lines[i].tag = "MAP" => CanResolve(lines[i].uri)
              /\ lines[i].tag = "KEY" /\ lines[i].method = "AES-128" /\ lines[i].uri.present =>
                    CanResolve(lines[i].uri.url)
              /\ lines[i].tag = "URI" /\ IsTimed(lines, i) => IsPlain(playlist.url, lines[i].uri)
        /\ \E i \in 1..Len(lines) :
              lines[i].tag = "MAP" \/ (lines[i].tag = "URI" /\ IsTimed(lines, i) /\ lines[i].ts)
ReadablePlaylists == \A p \in Playlists : IsPlayable(p)

\* The variants of a master playlist: a URI with no other URI and no other
\* STREAM-INF between it and the STREAM-INF before it.
Introduces(lines, e, i) ==
    /\ lines[e].tag = "STREAM-INF"
    /\ \A k \in e + 1..i - 1 : lines[k].tag \notin {"STREAM-INF", "URI"}
IsVariant(lines, i) == lines[i].tag = "URI" /\ \E e \in 1..i - 1 : Introduces(lines, e, i)
VariantAt(lines, i) ==
    [bandwidth |-> lines[CHOOSE e \in 1..i - 1 : Introduces(lines, e, i)].bandwidth,
     uri |-> lines[i].uri]
MasterVariants(lines) ==
    FlattenSeq([i \in 1..Len(lines) |-> IF IsVariant(lines, i) THEN << VariantAt(lines, i) >> ELSE <<>>])
Renditions(lines, types) ==
    Chosen(lines, {i \in 1..Len(lines) :
        lines[i].tag = "MEDIA" /\ lines[i].type \in types /\ lines[i].uri.present})

\* A master playlist that can be read.
IsSelectable(master) ==
    LET lines == master.lines
    IN  /\ IsList(lines)
        /\ \A i \in 1..Len(lines) :
              /\ lines[i].tag = "STREAM-INF" => lines[i].bandwidth \in Nat
              /\ lines[i].tag = "MEDIA" /\ lines[i].uri.present => IsPlain(master.url, lines[i].uri.url)
              /\ IsVariant(lines, i) => IsPlain(master.url, lines[i].uri)
        /\ \E i \in 1..Len(lines) : IsVariant(lines, i)
ReadableMasters == \A p \in Masters : IsSelectable(p)

\* An MPD whose tracks can be told apart and served from elsewhere: each set says
\* of which kind it is and is whole, a template or files with an index (text may
\* be one file), and its files are behind no dots.  The MPD's own directory is
\* that of its path.
IsWhole(set, rep) ==
    IF rep.indexed THEN set.template = NoAttributes ELSE Complete(set)
IsRaw(set) == "text/vtt" \in {set.mime} \union {x.mime : x \in Range(set.reps)}
IsMovable(url, reference) ==
    /\ reference.kind \in {"absolute", "path"} /\ IsPlain(url, reference)
    /\ reference.kind = "path" =>
          LET path == DirectoryOf(url) \o reference.path
          IN  \A i \in 1..Len(path) : path[i] \notin Dots
IsToldApart(url, set) ==
    LET parts == {set.template} \union Range(set.timeline)
        mimes == {set.mime} \union {x.mime : x \in Range(set.reps)}
    IN  /\ \A x \in parts : DOMAIN x \cap {"contentType", "mimeType"} = {}
        /\ "audio/mp4" \in mimes \/ set.mime = "audio/webm" => set.type = "audio"
        /\ mimes \cap {"text/vtt", "application/ttml+xml"} # {} => set.type = "text"
        /\ \A x \in Range(set.reps) : /\ x.mime # "audio/webm" /\ x.bandwidth \in Nat
                                      /\ x.file.present => IsMovable(url, x.file.url)
        /\ set.type = "video" => \A x \in Range(set.reps) : IsWhole(set, x)
        /\ set.type # "video" =>
              IF IsRaw(set) THEN set.reps[1].file.present
              ELSE set.mime = "audio/webm" \/ IsWhole(set, set.reps[1])
IsSeparable(mpd) ==
    /\ IsFormed(mpd) /\ IsList(mpd.url.path) /\ mpd.url.path # <<>>
    /\ IsList(mpd.url.query) /\ Len(mpd.url.query) <= 1
    /\ \A s \in 1..Len(mpd.sets) : IsToldApart(mpd.url, mpd.sets[s])
SeparableMpds == \A mpd \in Mpds : ~mpd.base.present => IsSeparable(mpd)

-----------------------------------------------------------------------------
(* Reading *)

\* Format: ".m3u8" in the URL or #EXTM3U at the start, else DASH; an indexed
\* source is resolved by its sidx before anything else is done.
ReadMpd(mpd) ==
    LET source == ParseDashManifest(MpdEvents(mpd), mpd.url)
    IN  IF source.ok /\ source.segmentBase.present THEN ResolveSegmentBase(source, mpd.sidx)
        ELSE source

\* A failed output publishes nothing more: what it left is read before it fails.
FetchOutput ==
    /\ published # <<>> /\ loop # "failed"
    /\ LET m == Last(published)
       IN  \/ read' = [origin |-> "hls", of |-> Len(published),
                       source |-> ParseHlsManifest(HlsDocument(m), OutputUrl, TicksPerMs)]
           \/ read' = [origin |-> "dash", of |-> Len(published),
                       source |-> ParseDashManifest(DashDocument(m), OutputUrl)]
    /\ UNCHANGED vars

\* Other origins do not change with the output: they are read before it begins.
FetchOther ==
    /\ published = <<>> /\ loop = "running"
    /\ \/ \E p \in Playlists :
            read' = [origin |-> "playlist", document |-> p,
                     source |-> ParseHlsManifest(p.lines, p.url, p.per)]
       \/ \E d \in Mpds : read' = [origin |-> "mpd", document |-> d, source |-> ReadMpd(d)]
    /\ UNCHANGED vars

\* The sandbox, asked to package a manifest of another origin.
ResolveTracks ==
    /\ published = <<>> /\ loop = "running"
    /\ \/ \E d \in Mpds :
            read' = [origin |-> "tracks", document |-> d,
                     tracks |-> ResolveDashTracks(MpdEvents(d), d.url)]
       \/ \E p \in Masters :
            read' = [origin |-> "master", document |-> p,
                     tracks |-> ResolveMasterPlaylist(p.lines, p.url)]
    /\ UNCHANGED vars

\* The sandbox's DASH output.  It asks for no trick play and no window, so only
\* manifests that have not slid are its own.  While the job runs it joins what is
\* on disk of the first ready variant and of audio, rewritten by each; in the end
\* it renders the state of the first variant anew for all of them.
Untricked(m) == [m EXCEPT !.iframes = {}]
VariantInfo(v) ==
    [type |-> "video", bandwidth |-> v.bandwidth, prefixed |-> TRUE,
     init |-> VariantName(v.index, Plain("init")),
     media |-> VariantName(v.index, Numbered("segment", Number))]
BuildDashVariantInfos(variants) == [v \in 1..Len(variants) |-> VariantInfo(variants[v])]
TrackInfo(type) == << [type |-> type, bandwidth |-> 1, prefixed |-> FALSE] >>
TrackMpd(m, type) == RenderDash(Untricked(m), TicksPerMs, TrackInfo(type), OutputDrm, OutputUris)
Subtitles == Reference("path", "none", << Plain("text") >>, <<>>)

ProgressiveDash(m, audio) ==
    FixupProgressive(CombineDash(
        RewriteManifest(TrackMpd(m, "video"), VariantPrefix(Ready[1].index)), Ready,
        RewriteManifest(TrackMpd(audio, "audio"), Plain("audio")), << Subtitles >>))
FinalDash(m, audio) ==
    FixupForSandbox(CombineDash(
        RenderDash(Untricked(m), TicksPerMs, BuildDashVariantInfos(Ready), OutputDrm, OutputUris), Ready,
        TrackMpd(audio, "audio"), << Subtitles >>))

\* Audio is ahead of video, or (bound) has one segment only.  The final manifest
\* is written when video has ended.
CombineTracks ==
    /\ published # <<>> /\ Last(published).startNumber = 0 /\ loop # "failed"
    /\ \E of, a \in {1, Len(published)} :
          LET final == loop = "ended" /\ of = Len(published)
              document == IF final THEN FinalDash(published[of], published[a])
                          ELSE ProgressiveDash(published[of], published[a])
          IN  read' = [origin |-> "combined", of |-> of, audio |-> a, final |-> final,
                       source |-> ParseDashManifest(document, OutputUrl),
                       tracks |-> ResolveDashTracks(document, OutputUrl)]
    /\ UNCHANGED vars

ReaderInit == Init /\ read = Unread

\* The output goes on.  Bound: a job is done with what it read by then, and
\* reads once.
OutputStep == Next /\ read = Unread /\ read' = Unread

Read == read = Unread /\ (FetchOutput \/ FetchOther \/ ResolveTracks \/ CombineTracks)

DoneReading == read # Unread /\ read' = Unread /\ UNCHANGED vars

ReaderNext ==
    \/ OutputStep
    \/ Read
    \/ DoneReading

ReaderSpec == ReaderInit /\ [][ReaderNext]_readerVars

-----------------------------------------------------------------------------
(* Properties *)

OfOutput == read.origin \in {"hls", "dash"}
ReadFrom == published[read.of]

SegmentUrl(n) ==
    LET videos == Variants(OutputVariants, "video")
    IN  IF read.origin = "dash" /\ \E v \in 1..Len(videos) : videos[v].prefixed
        THEN Join(OutputUrl, ReplaceNumber(videos[1].media, n)).url
        ELSE Join(OutputUrl, OutputUris.segment[n]).url

\* A job that takes a published manifest as its source gets the segments that
\* manifest listed, in order, with their durations (in DASH to the millisecond)
\* and whether more will come: in both formats, whatever of the trick-play,
\* audio and text sets is there, before and after the window slid or the output
\* ended.
ReadIsWindow ==
    OfOutput =>
        LET listed == ReadFrom.listed
            lasts(i) == IF read.origin = "hls" THEN Time(listed[i].duration, TicksPerMs)
                        ELSE Time(ToMs(listed[i].duration), 1)
        IN  /\ read.source.ok
            /\ read.source.live = ~ReadFrom.complete
            /\ Len(read.source.urls) = Len(listed) /\ Len(read.source.durations) = Len(listed)
            /\ \A i \in 1..Len(listed) :
                  /\ read.source.urls[i] = SegmentUrl(listed[i].number)
                  /\ SameTime(read.source.durations[i], lasts(i))

\* What belongs to a segment is read as belonging to it: each ad break and each
\* part of an HLS playlist is placed at the segment it was written for, counted
\* from the start of the window, ad breaks at its start and parts numbered from
\* 0; a DASH manifest keeps the time of each ad break.
MarksPlaced ==
    /\ read.origin = "hls" =>
        LET m == ReadFrom
            position(n) == CHOOSE i \in 1..Len(m.listed) : m.listed[i].number = n
            starts(i)   == Time(TotalDuration(SubSeq(m.listed, 1, i - 1)), TicksPerMs)
            breaks == Range(read.source.adBreaks)
            parts  == Range(read.source.parts)
            shown(items) == {x \in items : x.segment \in Numbers(m.listed)}
        IN  /\ breaks = {[segment |-> position(b.segment) - 1, id |-> b.segment,
                          time |-> starts(position(b.segment))] : b \in shown(m.adBreaks)}
            /\ parts = {[segment |-> position(p.segment) - 1, index |-> p.index - 1,
                         url |-> Join(OutputUrl, OutputUris.part[p.index]).url] : p \in shown(m.parts)}
            /\ Len(read.source.adBreaks) = Cardinality(breaks)
            /\ Len(read.source.parts) = Cardinality(parts)
    /\ read.origin = "dash" =>
        {[id |-> b.id, time |-> b.time] : b \in Range(read.source.adBreaks)}
            = {[id |-> b.segment, time |-> Time(b.time, TicksPerMs)] : b \in ReadFrom.adBreaks}

\* The segments of an MPD with templates are those of its first video set, or
\* of its only set: as many as its timeline or the length of the presentation
\* calls for, numbered from startNumber (0 if it has none), together as long as the presentation.
Repeats(s)  == IF "r" \in DOMAIN s THEN s.r ELSE 0
CountUpTo(timeline, e) ==
    SumUpTo([k \in 1..Len(timeline) |-> Repeats(timeline[k]) + 1], e)
EntryOf(timeline, n) == CHOOSE e \in 1..Len(timeline) :
    CountUpTo(timeline, e - 1) < n /\ n <= CountUpTo(timeline, e)
FirstNumberOf(set) == IF "startNumber" \in DOMAIN set.template THEN set.template.startNumber ELSE 0

\* The segments read are those of the set's template.
ReadsTemplate(source, base, mpd, set) ==
    LET scale == set.template.timescale
        media(n) == Join(base, ReplaceNumber(set.template.media, n)).url
        count == Len(source.urls)
    IN  /\ source.ok /\ source.live = mpd.live /\ Len(source.durations) = count
        /\ source.init.url = Join(base, set.template.initialization).url
        /\ \A i \in 1..count : source.urls[i] = media(FirstNumberOf(set) + i - 1)
        /\ IF set.timeline # <<>>
           THEN /\ count = CountUpTo(set.timeline, Len(set.timeline))
                /\ \A i \in 1..count : SameTime(source.durations[i],
                        Time(set.timeline[EntryOf(set.timeline, i)].d, scale))
           ELSE /\ count * set.template.duration >= mpd.total * scale
                /\ (count - 1) * set.template.duration < mpd.total * scale
                /\ \A i \in 1..count : source.durations[i].per = scale
                /\ SumUpTo([i \in 1..count |-> source.durations[i].n], count) = mpd.total * scale

BaseOf(mpd) == IF mpd.base.present THEN Join(mpd.url, mpd.base.url).url ELSE mpd.url
VideoSetRead ==
    read.origin = "mpd" /\ Main(read.document).template # NoAttributes =>
        ReadsTemplate(read.source, BaseOf(read.document), read.document, Main(read.document))

\* The byte ranges read are those of the file of the MPD's first video set.
TilesFile(source, mpd) ==
    LET ranges == source.ranges
        file   == Videos(mpd)[1].reps[1]
    IN  /\ Len(ranges) = Len(mpd.sidx.references) /\ Len(source.urls) = Len(ranges)
        /\ source.segmentBase.index = file.index
        /\ ranges[1].first = file.index.last + 1 + mpd.sidx.firstOffset
        /\ \A i \in 1..Len(ranges) - 1 : ranges[i + 1].first = ranges[i].last + 1
        /\ ranges[Len(ranges)].last + 1 = mpd.sidx.fileSize
        /\ \A i \in 1..Len(ranges) : source.urls[i] = Join(BaseOf(mpd), file.file.url).url

\* The byte ranges of an indexed file are its segments: they begin behind the
\* index, none overlaps or skips a byte, and the last one ends with the file.
RangesTile ==
    read.origin = "mpd" /\ read.source.ok /\ read.source.segmentBase.present =>
        TilesFile(read.source, read.document)

\* References resolve as RFC 3986 has it: of the path of the base and that of
\* the reference each segment stays that no later ".." takes away, and the query
\* is the reference's own.  A playlist gives the URIs of its segments so.
ReferencesResolve ==
    read.origin = "playlist" =>
        LET uris == SegmentUris(read.document.lines)
        IN  /\ read.source.ok
            /\ read.source.urls = [i \in 1..Len(uris) |-> Rfc(read.document.url, uris[i].uri)]

\* The manifest made for a track leads to that track's own segments: the file of
\* its Representation with its index, or what the template of its set lists.
LocalUrl == Url("local", << Plain("mpd") >>, <<>>)
LeadsTo(document, mpd, set, rep) ==
    LET source == ParseDashManifest(document, LocalUrl)
    IN  IF rep.indexed
        THEN /\ source.ok /\ source.segmentBase.index = rep.index
             /\ source.init.url = Join(mpd.url, rep.file.url).url
        ELSE ReadsTemplate(source, mpd.url, mpd, set)

\* The Representations of the video sets that are fragmented MP4.
InMp4(set, rep) ==
    (IF rep.mime # "none" THEN rep.mime ELSE IF set.mime # "none" THEN set.mime ELSE "video/mp4")
        \in {"video/mp4", "video/iso.segment"}
RepsOf(set) ==
    Chosen([r \in 1..Len(set.reps) |-> [set |-> set, rep |-> set.reps[r], first |-> r = 1]],
           {r \in 1..Len(set.reps) : InMp4(set, set.reps[r])})
VideoReps(mpd) == FlattenSeq([s \in 1..Len(Videos(mpd)) |-> RepsOf(Videos(mpd)[s])])
SetsOf(mpd, type) ==
    Chosen(mpd.sets, {s \in 1..Len(mpd.sets) :
        mpd.sets[s].type = type /\ mpd.sets[s].mime # "audio/webm"})
Largest(track, tracks) == \A i \in 1..Len(tracks) : tracks[i].bandwidth <= track.bandwidth

\* A source taken apart gives each of its tracks its own segments, none twice and
\* none left out: every MP4 Representation of every video set in order, the first
\* audio set in MP4, every text set; the track of largest bandwidth is the
\* primary one.  Of an MPD this needs a BaseURL in each Representation, or that
\* it is the first of its set (see EveryVariantResolves), and no BaseURL of its own.
IsTextTrack(track, mpd, set) ==
    IF track.raw THEN Join(mpd.url, track.url).url = Join(mpd.url, set.reps[1].file.url).url
    ELSE LeadsTo(track.document, mpd, set, set.reps[1])
HasMpdTracks(tracks, mpd) ==
    LET reps  == VideoReps(mpd)
        audio == SetsOf(mpd, "audio")
        texts == SetsOf(mpd, "text")
    IN  /\ Len(tracks.variants) = Len(reps)
        /\ \A v \in 1..Len(reps) :
              /\ tracks.variants[v].bandwidth = reps[v].rep.bandwidth
              /\ reps[v].first \/ reps[v].rep.indexed =>
                    LeadsTo(tracks.variants[v].document, mpd, reps[v].set, reps[v].rep)
        /\ IF reps = <<>> THEN tracks.primary = 0
           ELSE Largest(tracks.variants[tracks.primary], tracks.variants)
        /\ IF audio = <<>> THEN tracks.audio = <<>>
           ELSE LeadsTo(tracks.audio[1], mpd, audio[1], audio[1].reps[1])
        /\ Len(tracks.texts) = Len(texts)
        /\ \A t \in 1..Len(texts) : IsTextTrack(tracks.texts[t], mpd, texts[t])
HasMasterTracks(tracks, master) ==
    LET to(reference) == Rfc(master.url, reference)
        variants == MasterVariants(master.lines)
        audio == Renditions(master.lines, {"AUDIO"})
        texts == Renditions(master.lines, {"SUBTITLES", "CLOSED-CAPTIONS"})
    IN  /\ tracks.ok
        /\ tracks.variants = [v \in 1..Len(variants) |->
                                 [bandwidth |-> variants[v].bandwidth, url |-> to(variants[v].uri)]]
        /\ Largest(tracks.variants[tracks.primary], tracks.variants)
        /\ tracks.audio = IF audio = <<>> THEN <<>> ELSE << to(audio[1].uri.url) >>
        /\ tracks.texts = [t \in 1..Len(texts) |-> to(texts[t].uri.url)]
TracksResolve ==
    /\ read.origin = "tracks" /\ ~read.document.base.present => HasMpdTracks(read.tracks, read.document)
    /\ read.origin = "master" => HasMasterTracks(read.tracks, read.document)

\* sandbox.rs: "check for any shared content outside Representations that should
\* be included (e.g., SegmentTemplate at AdaptationSet level)": the manifest of
\* every variant leads to its segments.
EveryVariantResolves ==
    read.origin = "tracks" /\ ~read.document.base.present =>
        LET reps == VideoReps(read.document)
        IN  \A v \in 1..Len(reps) :
                LeadsTo(read.tracks.variants[v].document, read.document, reps[v].set, reps[v].rep)

\* The one DASH manifest of the sandbox's output, taken apart again, has all the
\* tracks that went into it: each ready variant with the files of its own index
\* and the segments of the base manifest, audio with the segments of its own
\* manifest, subtitles.  A player that takes the whole gets the first variant.
\* More will come of it while the job runs, and none when it is final.
ListsTrack(source, m, prefix) ==
    LET name(file) == Url(OutputUrl.host, Front(OutputUrl.path) \o <<prefix, file>>, <<>>)
    IN  /\ source.ok /\ source.init.url = name(Plain("init"))
        /\ source.urls = [i \in 1..Len(m.listed) |-> name(Numbered("segment", m.listed[i].number))]
        /\ \A i \in 1..Len(m.listed) :
              SameTime(source.durations[i], Time(ToMs(m.listed[i].duration), 1))
CombinedListsTracks ==
    read.origin = "combined" =>
        LET tracks == read.tracks
            parsed(document) == ParseDashManifest(document, LocalUrl)
        IN  /\ Len(tracks.variants) = Len(Ready)
            /\ \A v \in 1..Len(Ready) :
                  ListsTrack(parsed(tracks.variants[v].document), published[read.of],
                             VariantPrefix(Ready[v].index))
            /\ ListsTrack(parsed(tracks.audio[1]), published[read.audio], Plain("audio"))
            /\ ListsTrack(read.source, published[read.of], VariantPrefix(Ready[1].index))
            /\ read.source.live = ~read.final
            /\ Len(tracks.texts) = 1 /\ tracks.texts[1].raw

=============================================================================
