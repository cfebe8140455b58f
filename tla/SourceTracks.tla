---------------------------- MODULE SourceTracks ----------------------------
(***************************************************************************)
(* The tracks of a source and of the output, as the sandbox takes them     *)
(* apart and puts them together: the HLS master playlist                   *)
(* (parse_hls_master_playlist, resolve_master_playlist), the DASH manifest *)
(* that becomes one manifest per track (resolve_dash_tracks), and the one  *)
(* manifest made of the manifests of all tracks                            *)
(* (build_progressive_combined_manifest).                                  *)
(*                                                                         *)
(* sandbox.rs works on the text of an MPD.  Its searches are stated on the *)
(* XML events: one for "<X" finds the next start of an X, one for "</X>"   *)
(* the next end of one, wherever it belongs.                               *)
(***************************************************************************)
EXTENDS DashManifest

IsStart(e, name) == e.event = "start" /\ e.name = name
IsEnd(e, name)   == e.event = "end" /\ e.name = name

\* The end of the block that starts at i; i itself if there is none.
BlockEnd(events, i, name) ==
    LET ends == {j \in i..Len(events) : IsEnd(events[j], name)}
    IN  IF ends = {} THEN i ELSE CHOOSE j \in ends : \A k \in ends : j <= k

\* The blocks of a name, each searched for behind the one before.
NextBlock(events, name, found, i) ==
    IF ~IsStart(events[i], name) \/ (found # <<>> /\ i <= Last(found).last) THEN found
    ELSE Append(found, [first |-> i, last |-> BlockEnd(events, i, name)])
Blocks(events, name) ==
    Reading(LAMBDA found, i : NextBlock(events, name, found, i), <<>>, [i \in 1..Len(events) |-> i])

Content(events, block) == SubSeq(events, block.first, block.last)

\* AdaptationSets without an end are passed over.
AdaptationSets(events) ==
    LET blocks == Blocks(events, "AdaptationSet")
        closed == Chosen(blocks, {i \in 1..Len(blocks) : blocks[i].first # blocks[i].last})
    IN  [i \in 1..Len(closed) |-> Content(events, closed[i])]

\* contains(a="v"): on the set or anything in it.
Says(set, a, values) ==
    \E i \in 1..Len(set) :
        set[i].event = "start" /\ HasAttr(set[i], a) /\ set[i].attributes[a] \in values

IsVideoSet(set) ==
    Says(set, "contentType", {"video"}) \/ Says(set, "mimeType", {"video/mp4", "video/webm"})
IsAudioSet(set) ==
    /\ Says(set, "contentType", {"audio"}) \/ Says(set, "mimeType", {"audio/mp4"})
    /\ ~IsVideoSet(set)
    /\ ~Says(set, "mimeType", {"audio/webm"})
IsRawText(set)  == Says(set, "mimeType", {"text/vtt"})
\* Or mimeType application/mp4 with codecs of stpp or wvtt: sets have no codecs here.
IsTextSet(set)  ==
    \/ IsRawText(set)
    \/ Says(set, "contentType", {"text"}) \/ Says(set, "mimeType", {"application/ttml+xml"})

-----------------------------------------------------------------------------
(* Taking a DASH manifest apart *)

\* The URL up to its last slash, which may be one of its query.
TextBase(url) ==
    IF Len(url.query) > 1
    THEN Reference("absolute", url.host, url.path, Append(Front(url.query), "empty"))
    ELSE Reference("absolute", url.host, Append(Front(url.path), Plain("empty")), <<>>)

\* A reference's text between its slashes.
TextPieces(reference) ==
    CASE reference.kind = "path" -> reference.path
      [] reference.kind = "root" -> <<Plain("empty")>> \o reference.path
      [] OTHER -> <<Plain("empty"), Plain("empty"), Plain(reference.host)>> \o reference.path

\* format!("{base}{relative_url}"): whatever is not absolute is put behind the
\* base, a path from the root too.
Absolute(base, reference) ==
    CASE reference.kind = "absolute" -> reference
      [] reference.kind # "absolute" /\ base.query = <<>> ->
           [base EXCEPT !.path = Front(@) \o TextPieces(reference), !.query = reference.query]
      [] OTHER ->
           [base EXCEPT !.query = Front(@) \o
               [i \in 1..Len(TextPieces(reference)) |-> TextPieces(reference)[i].name]]

\* Every BaseURL of a block, made absolute.
ResolveBaseUrls(block, base) ==
    [i \in 1..Len(block) |->
        IF block[i].event = "text" THEN [block[i] EXCEPT !.url = Absolute(base, @)] ELSE block[i]]

\* The manifest of one track, served from a file of its own.
SyntheticMpd(mpd, base, set) ==
    Element("MPD",
        [type |-> Attr(mpd, "type", "static"),
         mediaPresentationDuration |-> Attr(mpd, "mediaPresentationDuration", 0)],
        Element("BaseURL", NoAttributes, << Text(base) >>)
        \o Element("Period", NoAttributes, set))

\* Only fragmented MP4 is taken; the type of the Representation goes before that
\* of its set, and none at all is taken for MP4.
IsIsobmff(set, rep) ==
    Attr(rep[1], "mimeType", Attr(set[1], "mimeType", "video/mp4"))
        \in {"video/mp4", "video/iso.segment"}

\* Mutant: what the set says once for all is left out.
SharedContentNone(set, reps, r) == <<>>

\* What comes before the first Representation goes with it.  For a later one the
\* code compares its distance from the one before with the length of the set's
\* tag, which it does not reach.
SharedContent(set, reps, r) ==
    IF r = 1 THEN SubSeq(set, 2, reps[1].first - 1) ELSE <<>>

\* The manifests of a video set's Representations, their numbers still to be given.
VideoVariants(mpd, base, set) ==
    LET reps   == Blocks(set, "Representation")
        rep(r) == Content(set, reps[r])
        variant(r) ==
            [bandwidth |-> Attr(rep(r)[1], "bandwidth", 0),
             document |-> SyntheticMpd(mpd, base,
                 << set[1] >> \o SharedContent(set, reps, r)
                 \o ResolveBaseUrls(rep(r), base) \o << End("AdaptationSet") >>)]
    IN  Chosen([r \in 1..Len(reps) |-> variant(r)],
               {r \in 1..Len(reps) : IsIsobmff(set, rep(r))})

\* A text set: its file if it is plain WebVTT, which needs a BaseURL.
TextTracks(mpd, base, set) ==
    LET urls == Chosen(set, {i \in 1..Len(set) : set[i].event = "text"})
    IN  CASE ~IsRawText(set) ->
               << [raw |-> FALSE,
                   document |-> SyntheticMpd(mpd, base, ResolveBaseUrls(set, base))] >>
          [] IsRawText(set) /\ urls # <<>> ->
               << [raw |-> TRUE, url |-> Absolute(base, urls[1].url)] >>
          [] OTHER -> <<>>

\* max_by_key: the last of the largest; 0 if there is no variant, and the source
\* itself is then the video.
Primary(variants) ==
    LET best == {i \in 1..Len(variants) :
                    \A j \in 1..Len(variants) : variants[j].bandwidth <= variants[i].bandwidth}
    IN  IF variants = <<>> THEN 0 ELSE CHOOSE i \in best : \A j \in best : j <= i

\* resolve_dash_tracks: the variants of all video sets, the first audio set, and
\* the text sets.
ResolveDashTracks(events, url) ==
    LET sets     == AdaptationSets(events)
        base     == TextBase(url)
        video    == Chosen(sets, {s \in 1..Len(sets) : IsVideoSet(sets[s])})
        audio    == Chosen(sets, {s \in 1..Len(sets) : IsAudioSet(sets[s])})
        text     == Chosen(sets, {s \in 1..Len(sets) : IsTextSet(sets[s])})
        variants == FlattenSeq([s \in 1..Len(video) |-> VideoVariants(events[1], base, video[s])])
    IN  [variants |-> variants, primary |-> Primary(variants),
         audio |-> IF audio = <<>> THEN <<>>
                   ELSE << SyntheticMpd(events[1], base, ResolveBaseUrls(audio[1], base)) >>,
         texts |-> FlattenSeq([s \in 1..Len(text) |-> TextTracks(events[1], base, text[s])])]

-----------------------------------------------------------------------------
(* The HLS master playlist *)

StreamLine(bandwidth)  == [tag |-> "STREAM-INF", bandwidth |-> bandwidth]
MediaLine(type, uri)   == [tag |-> "MEDIA", type |-> type, uri |-> uri]

MasterStart == [ok |-> TRUE, pending |-> <<>>, variants |-> <<>>, audio |-> <<>>, texts |-> <<>>]

ReadRendition(p, line, url) ==
    LET joined    == Join(url, line.uri.url)
        rendition == IF line.uri.present THEN SomeUrl(joined.url) ELSE Missing
    IN  CASE line.uri.present /\ ~joined.ok -> [p EXCEPT !.ok = FALSE]
          [] line.type = "AUDIO" -> [p EXCEPT !.audio = Append(@, rendition)]
          [] line.type \in {"SUBTITLES", "CLOSED-CAPTIONS"} -> [p EXCEPT !.texts = Append(@, rendition)]
          [] OTHER -> p

ReadVariantUri(p, line, url) ==
    LET joined == Join(url, line.uri)
    IN  CASE p.pending = <<>> -> p
          [] p.pending # <<>> /\ ~joined.ok -> [p EXCEPT !.ok = FALSE]
          [] OTHER -> [p EXCEPT !.pending = <<>>,
                                !.variants = Append(@, [bandwidth |-> p.pending[1], url |-> joined.url])]

\* parse_hls_master_playlist: a URI that follows no STREAM-INF is passed over.
ReadMasterLine(p, line, url) ==
    CASE ~p.ok -> p
      [] p.ok /\ line.tag = "STREAM-INF" -> [p EXCEPT !.pending = << line.bandwidth >>]
      [] p.ok /\ line.tag = "MEDIA" -> ReadRendition(p, line, url)
      [] p.ok /\ line.tag = "URI" -> ReadVariantUri(p, line, url)
      [] OTHER -> p
ParseHlsMasterPlaylist(lines, url) ==
    Reading(LAMBDA p, line : ReadMasterLine(p, line, url), MasterStart, lines)

\* resolve_master_playlist: audio of a rendition without a URI is in the video;
\* subtitles are taken for plain WebVTT.
ResolveMasterPlaylist(lines, url) ==
    LET p       == ParseHlsMasterPlaylist(lines, url)
        present(renditions) ==
            Chosen(renditions, {r \in 1..Len(renditions) : renditions[r].present})
    IN  [ok |-> p.ok /\ p.variants # <<>>,
         variants |-> p.variants, primary |-> Primary(p.variants),
         audio |-> IF present(p.audio) = <<>> THEN <<>> ELSE << present(p.audio)[1].url >>,
         texts |-> [t \in 1..Len(present(p.texts)) |-> present(p.texts)[t].url]]

-----------------------------------------------------------------------------
(* Putting the tracks' manifests together *)

\* A file name is prefixed with the track's name: a piece before it.
Prefixed(prefix, reference) ==
    Reference("path", "none",
        <<prefix>> \o (IF reference.kind = "root" THEN << Last(reference.path) >> ELSE reference.path),
        reference.query)

MapTemplates(events, Rename(_)) ==
    [i \in 1..Len(events) |->
        IF ~IsStart(events[i], "SegmentTemplate") THEN events[i]
        ELSE [events[i] EXCEPT !.attributes.initialization = Rename(@),
                               !.attributes.media = Rename(@)]]

\* rewrite_variant_manifest, rewrite_audio_manifest: of a track's own pipeline,
\* whose names are from the root.
RewriteManifest(events, prefix) ==
    MapTemplates(events, LAMBDA reference : Prefixed(prefix, reference))

\* Content put at the end of the Period.
InPeriod(events, content) ==
    LET end == CHOOSE i \in 1..Len(events) : IsEnd(events[i], "Period")
    IN  SubSeq(events, 1, end - 1) \o content \o SubSeq(events, end, Len(events))

\* Mutant: the prefix is added to names that have it.
AudioNamesAlways(set) == RewriteManifest(set, Plain("audio"))

\* merge_dash_audio: the audio manifest is as its pipeline rendered it in the
\* final manifest, and rewritten already while the job runs.
AudioNames(set) ==
    MapTemplates(set, LAMBDA reference :
        IF reference.kind = "root" THEN Prefixed(Plain("audio"), reference) ELSE reference)

AsAudio(set) ==
    [i \in 1..Len(set) |->
        IF set[i].event # "start" THEN set[i]
        ELSE [set[i] EXCEPT !.attributes =
                 [a \in DOMAIN @ |->
                     CASE a = "contentType" /\ @[a] = "video" -> "audio"
                       [] a = "mimeType" /\ @[a] = "video/mp4" -> "audio/mp4"
                       [] OTHER -> @[a]]]]

MergeDashAudio(video, audio) ==
    LET sets == AdaptationSets(audio)
    IN  InPeriod(video, FlattenSeq([s \in 1..Len(sets) |-> AsAudio(AudioNames(sets[s]))]))

MergeDashTextTrack(events, reference) ==
    InPeriod(events,
        Element("AdaptationSet", [contentType |-> "text", mimeType |-> "text/vtt"],
            Element("Representation", [bandwidth |-> 1],
                Element("BaseURL", NoAttributes, << Text(reference) >>))))

VariantPrefix(index) == Numbered("v", index)
VariantName(index, name) == Reference("path", "none", <<VariantPrefix(index), name>>, <<>>)

\* One Representation: [index, bandwidth] with the timeline of the base.
VariantRepresentation(variant, scale, timeline) ==
    Element("Representation", [bandwidth |-> variant.bandwidth],
        Element("SegmentTemplate",
            [timescale |-> scale, startNumber |-> 0,
             initialization |-> VariantName(variant.index, Plain("init")),
             media |-> VariantName(variant.index, Numbered("segment", Number))],
            timeline))

\* build_dash_multi_variant_mpd: everything between the tags of a video set gives
\* way to the variants, its ContentProtection too; all share the first timeline
\* and scale of the base.
BuildDashMultiVariantMpd(events, variants) ==
    LET timelines == Blocks(events, "SegmentTimeline")
        template  == CHOOSE i \in 1..Len(events) : IsStart(events[i], "SegmentTemplate")
                        /\ \A j \in 1..i - 1 : ~IsStart(events[j], "SegmentTemplate")
        reps == FlattenSeq([v \in 1..Len(variants) |->
                    VariantRepresentation(variants[v], events[template].attributes.timescale,
                                          Content(events, timelines[1]))])
        blocks == Blocks(events, "AdaptationSet")
        sets == Chosen(blocks, {b \in 1..Len(blocks) :
                    Attr(events[blocks[b].first], "contentType", "none") = "video"})
        inside(i) == \E b \in Range(sets) : b.first < i /\ i < b.last
        opens(i)  == \E b \in Range(sets) : b.first = i
    IN  IF timelines = <<>> \/ sets = <<>> THEN events
        ELSE FlattenSeq([i \in 1..Len(events) |->
                 CASE inside(i) -> <<>>
                   [] opens(i)  -> << events[i] >> \o reps
                   [] OTHER     -> << events[i] >>])

\* compute_dash_duration_from_timeline: all timelines of the manifest together.
TimelineLength(events) ==
    Reading(LAMBDA sum, e : IF IsStart(e, "S") THEN sum + e.attributes.d ELSE sum, 0, events)

WithAttributes(events, attributes) ==
    << [events[1] EXCEPT !.attributes = attributes @@ @] >> \o Tail(events)

\* fixup_dash_progressive: to be fetched again, whatever the base says.
FixupProgressive(events) == WithAttributes(events, [type |-> "dynamic"])

\* fixup_dash_for_sandbox: a manifest that never became static is made so.
FixupForSandbox(events) ==
    IF events[1].attributes.type # "dynamic" THEN events
    ELSE WithAttributes(events, [type |-> "static",
                                 mediaPresentationDuration |-> TimelineLength(events)])

\* build_progressive_combined_manifest for DASH.  audio and texts are sequences,
\* <<>> for none.
CombineDash(video, variants, audio, texts) ==
    LET multi  == IF Len(variants) > 1 THEN BuildDashMultiVariantMpd(video, variants) ELSE video
        heard  == IF audio = <<>> THEN multi ELSE MergeDashAudio(multi, audio)
    IN  Reading(MergeDashTextTrack, heard, texts)

=============================================================================
