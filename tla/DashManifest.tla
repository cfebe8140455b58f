---------------------------- MODULE DashManifest ----------------------------
(***************************************************************************)
(* DASH manifests as the sequence of their XML events: what manifest/dash.rs *)
(* writes for a manifest and what parse_dash_manifest of dash_input.rs     *)
(* reads, and the resolution of an indexed file by its sidx                *)
(* (resolve_segment_base of pipeline.rs).                                  *)
(*                                                                         *)
(* The attributes of an element are a function on the names it has.        *)
(***************************************************************************)
EXTENDS HlsManifest

NoAttributes == [a \in {} |-> "none"]

Start(name, attributes) ==
    [event |-> "start", name |-> name, empty |-> FALSE, attributes |-> attributes]
Empty(name, attributes) ==
    [event |-> "start", name |-> name, empty |-> TRUE, attributes |-> attributes]
Text(reference) == [event |-> "text", name |-> "none", url |-> reference]
End(name) == [event |-> "end", name |-> name]
Element(name, attributes, content) ==
    << Start(name, attributes) >> \o content \o << End(name) >>

\* The types of what this program renders.
MimeType(type) ==
    CASE type = "video" -> "video/mp4" [] type = "audio" -> "audio/mp4" [] OTHER -> "application/mp4"
VideoMimeTypes == {"video/mp4", "video/webm"}

HasAttr(e, a)       == a \in DOMAIN e.attributes
Attr(e, a, default) == IF HasAttr(e, a) THEN e.attributes[a] ELSE default

-----------------------------------------------------------------------------
(* Rendering *)

\* Mutant: the template numbers the window from zero.
SegmentTemplateFromZero(m, per, init, media) ==
    Element("SegmentTemplate",
        [timescale |-> 1, initialization |-> init, media |-> media, startNumber |-> 0],
        [i \in 1..Len(m.listed) |-> Empty("S", [d |-> m.listed[i].duration \div per])])

\* build_segment_template and build_segment_template_with_prefix, in
\* milliseconds; only the first S of a window that has slid has a start time.
SegmentTemplate(m, per, init, media) ==
    Element("SegmentTemplate",
        [timescale |-> 1, initialization |-> init, media |-> media,
         startNumber |-> m.startNumber],
        Element("SegmentTimeline", NoAttributes,
            [i \in 1..Len(m.listed) |->
                Empty("S", IF i = 1 /\ m.startNumber > 0
                           THEN [t |-> m.startTime, d |-> m.listed[i].duration \div per]
                           ELSE [d |-> m.listed[i].duration \div per])]))

\* build_content_protection_xml: the scheme, then the systems.
ContentProtection(drm) ==
    IF drm.scheme = "none" THEN <<>>
    ELSE << Empty("ContentProtection", [schemeIdUri |-> "mp4protection", value |-> drm.scheme]) >>
         \o FlattenSeq([i \in 1..drm.systems |->
                Element("ContentProtection", [schemeIdUri |-> "system"], <<>>)])

Representations(variants, content) ==
    FlattenSeq([v \in 1..Len(variants) |->
        Element("Representation", [bandwidth |-> variants[v].bandwidth], content[v])])

\* An AdaptationSet: with a prefix on one of its variants each has a template of
\* its own, else they share one.
AdaptationSet(m, per, type, variants, protection, uris) ==
    LET own       == type = "video" /\ \E v \in 1..Len(variants) : variants[v].prefixed
        shared    == SegmentTemplate(m, per, uris.init, uris.media)
        template(v) == SegmentTemplate(m, per, variants[v].init, variants[v].media)
    IN  Element("AdaptationSet", [contentType |-> type, mimeType |-> MimeType(type)],
            protection
            \o (IF own THEN <<>> ELSE shared)
            \o Representations(variants,
                   [v \in 1..Len(variants) |-> IF own THEN template(v) ELSE <<>>]))

EventStream(m, per) ==
    LET breaks == InOrder(m.adBreaks, "segment")
    IN  IF breaks = <<>> THEN <<>>
        ELSE Element("EventStream", [schemeIdUri |-> "scte35", timescale |-> per],
                FlattenSeq([b \in 1..Len(breaks) |->
                    Element("Event", [id |-> breaks[b].segment, presentationTime |-> breaks[b].time],
                            <<>>)]))

Variants(variants, type) ==
    Chosen(variants, {v \in 1..Len(variants) : variants[v].type = type})

\* render: the video set, the trick-play set that lists the same segments, then
\* audio and text.
RenderDash(m, per, variants, drm, uris) ==
    LET set(type, protection) ==
            AdaptationSet(m, per, type, Variants(variants, type), protection, uris)
        any(type) == Variants(variants, type) # <<>>
    IN  Element("MPD",
            [type |-> IF m.complete THEN "static" ELSE "dynamic"],
            Element("Period", NoAttributes,
                EventStream(m, per)
                \o (IF any("video") THEN set("video", ContentProtection(drm)) ELSE <<>>)
                \o (IF any("video") /\ m.iframes # {} THEN set("video", <<>>) ELSE <<>>)
                \o (IF any("audio") THEN set("audio", ContentProtection(drm)) ELSE <<>>)
                \o (IF any("text") THEN set("text", <<>>) ELSE <<>>)))

-----------------------------------------------------------------------------
(* Parsing: elements *)

NoRep == [url |-> Missing, init |-> Missing, index |-> Missing, scale |-> 0]

DashStart ==
    [live |-> FALSE, total |-> 0, scheme |-> "none", init |-> Missing, media |-> Missing,
     scale |-> 1, startNumber |-> 0, timeline |-> <<>>, uniform |-> 0, base |-> Missing,
     variants |-> <<>>, locked |-> FALSE, capturing |-> FALSE, adBreaks |-> <<>>,
     inEvents |-> FALSE, eventScale |-> 1, inSet |-> FALSE, isVideo |-> FALSE,
     inRep |-> FALSE, awaitingUrl |-> FALSE, rep |-> NoRep, inSegmentBase |-> FALSE,
     indexed |-> NoRep, indexedVideo |-> FALSE]

StartMpd(p, e) ==
    [p EXCEPT !.live = Attr(e, "type", "static") = "dynamic",
              !.total = Attr(e, "mediaPresentationDuration", @)]

StartAdaptationSet(p, e) ==
    [p EXCEPT !.inSet = TRUE,
              !.isVideo = \/ Attr(e, "contentType", "none") = "video"
                          \/ Attr(e, "mimeType", "none") \in VideoMimeTypes]

StartRepresentation(p, e) ==
    LET video == p.isVideo \/ Attr(e, "mimeType", "none") \in VideoMimeTypes
    IN  IF ~p.inSet THEN p
        ELSE [p EXCEPT !.inRep = TRUE, !.rep = NoRep, !.isVideo = video,
                       !.variants = IF video /\ Attr(e, "bandwidth", 0) > 0
                                    THEN Append(@, e.attributes.bandwidth) ELSE @]

StartSegmentBase(p, e) ==
    [p EXCEPT !.inSegmentBase = ~e.empty,
              !.rep.index = IF HasAttr(e, "indexRange")
                            THEN [present |-> TRUE, range |-> e.attributes.indexRange] ELSE @,
              !.rep.scale = Attr(e, "timescale", @)]

StartInitialization(p, e) ==
    IF p.inSegmentBase /\ HasAttr(e, "range")
    THEN [p EXCEPT !.rep.init = [present |-> TRUE, range |-> e.attributes.range]] ELSE p

\* Mutant: every later template replaces an earlier one.
StartSegmentTemplateAny(p, e) ==
    [p EXCEPT
        !.capturing = TRUE, !.locked = FALSE, !.timeline = <<>>,
        !.uniform = Attr(e, "duration", 0),
        !.init = IF HasAttr(e, "initialization") THEN SomeUrl(e.attributes.initialization) ELSE @,
        !.media = IF HasAttr(e, "media") THEN SomeUrl(e.attributes.media) ELSE @,
        !.scale = Attr(e, "timescale", @),
        !.startNumber = Attr(e, "startNumber", @)]

\* The template of the first video set is locked in; until it comes, others do.
\* What a video template does not say of number, scale and names stays what an
\* earlier one said.
StartSegmentTemplate(p, e) ==
    IF p.locked THEN [p EXCEPT !.capturing = FALSE]
    ELSE [p EXCEPT
            !.capturing = TRUE, !.locked = p.isVideo,
            !.timeline = IF p.isVideo THEN <<>> ELSE @,
            !.uniform = Attr(e, "duration", IF p.isVideo THEN 0 ELSE @),
            !.init = IF HasAttr(e, "initialization") THEN SomeUrl(e.attributes.initialization) ELSE @,
            !.media = IF HasAttr(e, "media") THEN SomeUrl(e.attributes.media) ELSE @,
            !.scale = Attr(e, "timescale", @),
            !.startNumber = Attr(e, "startNumber", @)]

\* S: "t" is not looked at, and "-1" is no repeat count.
StartS(p, e) ==
    IF p.capturing /\ Attr(e, "d", 0) > 0
    THEN [p EXCEPT !.timeline = Append(@, [d |-> e.attributes.d,
                                           r |-> IF Attr(e, "r", 0) < 0 THEN 0 ELSE Attr(e, "r", 0)])]
    ELSE p

StartContentProtection(p, e) ==
    IF Attr(e, "schemeIdUri", "none") = "mp4protection" /\ Attr(e, "value", "none") \in {"cenc", "cbcs"}
    THEN [p EXCEPT !.scheme = e.attributes.value] ELSE p

StartEventStream(p, e) ==
    IF Attr(e, "schemeIdUri", "none") = "scte35"
    THEN [p EXCEPT !.inEvents = TRUE, !.eventScale = Attr(e, "timescale", 90000)] ELSE p

\* Event, kept until its end for the message in it; its segment is given as 0.
StartEvent(p, e) ==
    IF ~p.inEvents THEN p
    ELSE [p EXCEPT !.adBreaks = Append(@, [segment |-> 0, id |-> Attr(e, "id", 0),
                       time |-> Time(Attr(e, "presentationTime", 0), p.eventScale)])]

StartElement(p, e) ==
    CASE e.name = "MPD"               -> StartMpd(p, e)
      [] e.name = "AdaptationSet"     -> StartAdaptationSet(p, e)
      [] e.name = "Representation"    -> StartRepresentation(p, e)
      [] e.name = "BaseURL"           -> [p EXCEPT !.awaitingUrl = TRUE]
      [] e.name = "SegmentBase"       -> StartSegmentBase(p, e)
      [] e.name = "Initialization"    -> StartInitialization(p, e)
      [] e.name = "SegmentTemplate"   -> StartSegmentTemplate(p, e)
      [] e.name = "S"                 -> StartS(p, e)
      [] e.name = "ContentProtection" -> StartContentProtection(p, e)
      [] e.name = "EventStream"       -> StartEventStream(p, e)
      [] e.name = "Event"             -> StartEvent(p, e)
      [] OTHER -> p

\* The text of a BaseURL: that of the Representation, or, outside of one, the
\* first absolute one.
ReadText(p, e) ==
    IF ~p.awaitingUrl THEN p
    ELSE LET read == [p EXCEPT !.awaitingUrl = FALSE]
         IN  IF p.inRep THEN [read EXCEPT !.rep.url = SomeUrl(e.url)]
             ELSE IF ~p.base.present /\ e.url.kind = "absolute"
             THEN [read EXCEPT !.base = SomeUrl(e.url)] ELSE read

\* The first Representation with an index is taken, and given up for the first
\* of a video set.
EndRepresentation(p) ==
    LET complete == p.rep.url.present /\ p.rep.init.present /\ p.rep.index.present
        better   == ~p.indexed.url.present \/ (p.isVideo /\ ~p.indexedVideo)
        take     == p.inRep /\ complete /\ better
    IN  [p EXCEPT !.indexed = IF take THEN p.rep ELSE @,
                  !.indexedVideo = IF take THEN p.isVideo ELSE @,
                  !.inRep = FALSE, !.rep = NoRep]

EndElement(p, e) ==
    CASE e.name = "AdaptationSet"  -> [p EXCEPT !.inSet = FALSE, !.isVideo = FALSE,
                                                !.capturing = FALSE]
      [] e.name = "Representation" -> EndRepresentation(p)
      [] e.name = "SegmentBase"    -> [p EXCEPT !.inSegmentBase = FALSE]
      [] e.name = "BaseURL"        -> [p EXCEPT !.awaitingUrl = FALSE]
      [] e.name = "EventStream"    -> [p EXCEPT !.inEvents = FALSE]
      [] OTHER -> p

ReadEvent(p, e) ==
    CASE e.event = "start" -> StartElement(p, e)
      [] e.event = "text"  -> ReadText(p, e)
      [] e.event = "end"   -> EndElement(p, e)

-----------------------------------------------------------------------------
(* Parsing: the segments *)

\* Each entry of the timeline stands for one segment more than it repeats.
TimelineDurations(p) ==
    FlattenSeq([i \in 1..Len(p.timeline) |->
        [k \in 1..p.timeline[i].r + 1 |-> Time(p.timeline[i].d, p.scale)]])

Ceiling(a, b) == (a + b - 1) \div b

\* @duration: segments until the presentation is covered, the last one cut off.
UniformDurations(p) ==
    LET whole == p.total * p.scale
    IN  [i \in 1..Ceiling(whole, p.uniform) |->
            Time(IF whole - (i - 1) * p.uniform < p.uniform
                 THEN whole - (i - 1) * p.uniform ELSE p.uniform, p.scale)]

TemplateDurations(p) ==
    CASE p.timeline # <<>> -> TimelineDurations(p)
      [] p.timeline = <<>> /\ p.uniform > 0 /\ p.total > 0 -> UniformDurations(p)
      [] OTHER -> <<>>

\* media_pattern.replace("$Number$").
ReplaceNumber(reference, n) ==
    [reference EXCEPT !.path = [i \in 1..Len(@) |->
        IF @[i].number = Number THEN [@[i] EXCEPT !.number = n] ELSE @[i]]]

NotIndexed == [present |-> FALSE]
DashSource(p, init, urls, durations, index) ==
    [ok |-> TRUE, init |-> SomeUrl(init), urls |-> urls, live |-> p.live,
     durations |-> durations, adBreaks |-> p.adBreaks, parts |-> <<>>, scheme |-> p.scheme,
     ts |-> FALSE, aesKey |-> Missing, ranges |-> <<>>, variants |-> p.variants,
     segmentBase |-> index]

\* Path A: the numbered segments of the template.
FromTemplate(p, base) ==
    LET durations == TemplateDurations(p)
        joined    == [i \in 1..Len(durations) |->
                         Join(base, ReplaceNumber(p.media.url, p.startNumber + i - 1))]
    IN  IF ~p.init.present \/ ~Join(base, p.init.url).ok
           \/ \E i \in 1..Len(joined) : ~joined[i].ok
        THEN ErrSource
        ELSE DashSource(p, Join(base, p.init.url).url, [i \in 1..Len(joined) |-> joined[i].url],
                        durations, NotIndexed)

\* Path B: one file, its segments still to be read from its index.
FromSegmentBase(p, base) ==
    LET file == Join(base, p.indexed.url.url)
    IN  IF ~file.ok THEN ErrSource
        ELSE DashSource(p, file.url, <<>>, <<>>,
                        [present |-> TRUE, index |-> p.indexed.index.range,
                         scale |-> p.indexed.scale])

ParseDashManifest(events, url) ==
    LET p    == Reading(ReadEvent, DashStart, events)
        base == IF p.base.present THEN Join(url, p.base.url).url ELSE url
    IN  CASE p.media.present -> FromTemplate(p, base)
          [] ~p.media.present /\ p.indexed.url.present -> FromSegmentBase(p, base)
          [] OTHER -> ErrSource

-----------------------------------------------------------------------------
(* The index of a file *)

\* parse_sidx: a reference is [nested, size, duration]; nested ones lead to a
\* further index.
Media(sidx) ==
    Chosen(sidx.references, {i \in 1..Len(sidx.references) : ~sidx.references[i].nested})

SizeBefore(references, i) ==
    SumUpTo([k \in 1..Len(references) |-> references[k].size], i - 1)

IndexScale(sidx, scale) ==
    IF sidx.timescale > 0 THEN sidx.timescale ELSE IF scale > 0 THEN scale ELSE 1

\* Mutant: the first offset of the index is left out.
ResolveSegmentBaseAtIndex(source, sidx) ==
    LET from == source.segmentBase.index.last + 1
        refs == Media(sidx)
        start(i) == from + SizeBefore(refs, i)
    IN  [source EXCEPT
            !.urls = [i \in 1..Len(refs) |-> source.init.url],
            !.ranges = [i \in 1..Len(refs) |->
                           [first |-> start(i), last |-> start(i) + refs[i].size - 1]],
            !.durations = [i \in 1..Len(refs) |->
                              Time(refs[i].duration, IndexScale(sidx, source.segmentBase.scale))]]

\* resolve_segment_base: the media lies one after the other behind the index; a
\* reference to a further index is passed over as if it took no room.
ResolveSegmentBase(source, sidx) ==
    LET from == source.segmentBase.index.last + 1 + sidx.firstOffset
        refs == Media(sidx)
        start(i) == from + SizeBefore(refs, i)
    IN  [source EXCEPT
            !.urls = [i \in 1..Len(refs) |-> source.init.url],
            !.ranges = [i \in 1..Len(refs) |->
                           [first |-> start(i), last |-> start(i) + refs[i].size - 1]],
            !.durations = [i \in 1..Len(refs) |->
                              Time(refs[i].duration, IndexScale(sidx, source.segmentBase.scale))]]

=============================================================================
