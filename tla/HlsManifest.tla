---------------------------- MODULE HlsManifest ----------------------------
(***************************************************************************)
(* HLS media playlists as the sequence of their lines: what manifest/hls.rs *)
(* writes for a manifest and what parse_hls_manifest of hls_input.rs reads. *)
(*                                                                         *)
(* A line is a record of its tag and attributes.  A time is a number of    *)
(* units, "per" of them to the millisecond.                                *)
(***************************************************************************)
EXTENDS SourceUrls, FiniteSets

Time(n, per) == [n |-> n, per |-> per]
SameTime(a, b) == a.n * b.per = b.n * a.per

Missing   == [present |-> FALSE]
SomeUrl(url) == [present |-> TRUE, url |-> url]

\* SourceManifest, the result of either parser.
ErrSource == [ok |-> FALSE]

-----------------------------------------------------------------------------
(* Rendering *)

Line(tag)          == [tag |-> tag]
KeyLine(method)    == [tag |-> "KEY", method |-> method, uri |-> Missing]
MapLine(reference) == [tag |-> "MAP", uri |-> reference]
InfLine(duration)  == [tag |-> "EXTINF", valid |-> TRUE, duration |-> duration]
UriLine(reference, ts) == [tag |-> "URI", uri |-> reference, ts |-> ts]
PartLine(reference) == [tag |-> "PART", valid |-> TRUE, uri |-> reference]
RangeLine(id, splice) == [tag |-> "DATERANGE", id |-> id, splice |-> splice]

HlsMethod(scheme) == IF scheme = "cenc" THEN "SAMPLE-AES-CTR" ELSE "SAMPLE-AES"

\* emit_hls_drm_keys: a KEY line for each system the manifest has data for.
EmitHlsDrmKeys(drm) == [i \in 1..drm.systems |-> KeyLine(HlsMethod(drm.scheme))]

\* The items by a field, in which they all differ.
InOrder(items, field) ==
    [i \in 1..Cardinality(items) |->
        CHOOSE x \in items : Cardinality({y \in items : y[field] < x[field]}) = i - 1]

\* The lines of one segment: its ad breaks, its parts, then itself.
SegmentLines(m, segment, uris) ==
    LET breaks == InOrder({b \in m.adBreaks : b.segment = segment.number}, "time")
        parts  == InOrder({p \in m.parts : p.segment = segment.number}, "index")
    IN  [b \in 1..Len(breaks) |-> RangeLine(segment.number, TRUE)]
        \o [p \in 1..Len(parts) |-> PartLine(uris.part[parts[p].index])]
        \o << InfLine(segment.duration), UriLine(uris.segment[segment.number], FALSE) >>

RenderHls(m, drm, uris) ==
    << Line("MEDIA-SEQUENCE"), Line("PLAYLIST-TYPE") >>
    \o EmitHlsDrmKeys(drm)
    \o << MapLine(uris.init) >>
    \o FlattenSeq([i \in 1..Len(m.listed) |-> SegmentLines(m, m.listed[i], uris)])
    \o (IF m.complete THEN << Line("ENDLIST") >> ELSE <<>>)

-----------------------------------------------------------------------------
(* Parsing *)

HlsStart ==
    [failed |-> FALSE, init |-> Missing, urls |-> <<>>, durations |-> <<>>, live |-> TRUE,
     pending |-> Missing, scheme |-> "none", adBreaks |-> <<>>, number |-> 0, elapsed |-> 0,
     ts |-> FALSE, aesKey |-> Missing, parts |-> <<>>, partIndex |-> 0]

\* Any URL that does not resolve ends the parse, but for that of a part.
WithUrl(p, base, reference, Then(_)) ==
    LET joined == Join(base, reference)
    IN  IF joined.ok THEN Then(joined.url) ELSE [p EXCEPT !.failed = TRUE]

\* EXT-X-KEY: the scheme of the source, or the key of AES-128 segments.
ReadKey(p, base, line) ==
    CASE line.method = "SAMPLE-AES-CTR" -> [p EXCEPT !.scheme = "cenc"]
      [] line.method = "SAMPLE-AES"     -> [p EXCEPT !.scheme = "cbcs"]
      [] line.method = "AES-128" /\ line.uri.present ->
           WithUrl(p, base, line.uri.url, LAMBDA u : [p EXCEPT !.aesKey = SomeUrl(u)])
      [] OTHER -> p

\* parse_daterange_ad_break: only ranges with SCTE35-CMD or SCTE35-OUT, placed
\* at the segment and the time the parser has come to.
ReadDaterange(p, line) ==
    IF ~line.splice THEN p
    ELSE [p EXCEPT !.adBreaks = Append(@, [id |-> line.id, segment |-> p.number,
                                           elapsed |-> p.elapsed])]

\* parse_ext_x_part: a part that cannot be read is left out, and takes no index.
ReadPart(p, base, line) ==
    IF ~line.valid \/ ~Join(base, line.uri).ok THEN p
    ELSE [p EXCEPT !.parts = Append(@, [segment |-> p.number, index |-> p.partIndex,
                                        url |-> Join(base, line.uri).url]),
                   !.partIndex = @ + 1]

\* Mutant: the part index goes on over the segments.
ReadUriKeepIndex(p, base, line) ==
    IF ~p.pending.present THEN p
    ELSE WithUrl(p, base, line.uri, LAMBDA u :
           [p EXCEPT !.urls = Append(@, u), !.durations = Append(@, p.pending.duration),
                     !.elapsed = @ + p.pending.duration, !.number = @ + 1,
                     !.pending = Missing, !.ts = @ \/ line.ts])

\* A URI counts only after an EXTINF whose duration could be read.
ReadUri(p, base, line) ==
    IF ~p.pending.present THEN p
    ELSE WithUrl(p, base, line.uri, LAMBDA u :
           [p EXCEPT !.urls = Append(@, u), !.durations = Append(@, p.pending.duration),
                     !.elapsed = @ + p.pending.duration, !.number = @ + 1, !.partIndex = 0,
                     !.pending = Missing, !.ts = @ \/ line.ts])

ReadLine(p, base, line) ==
    CASE p.failed -> p
      [] ~p.failed /\ line.tag = "MAP" ->
           WithUrl(p, base, line.uri, LAMBDA u : [p EXCEPT !.init = SomeUrl(u)])
      [] ~p.failed /\ line.tag = "KEY"       -> ReadKey(p, base, line)
      [] ~p.failed /\ line.tag = "DATERANGE" -> ReadDaterange(p, line)
      [] ~p.failed /\ line.tag = "PART"      -> ReadPart(p, base, line)
      [] ~p.failed /\ line.tag = "EXTINF"    ->
           [p EXCEPT !.pending = IF line.valid THEN [present |-> TRUE, duration |-> line.duration]
                                 ELSE Missing]
      [] ~p.failed /\ line.tag = "ENDLIST"   -> [p EXCEPT !.live = FALSE]
      [] ~p.failed /\ line.tag = "URI"       -> ReadUri(p, base, line)
      [] OTHER -> p

IsMaster(lines) == \E i \in 1..Len(lines) : lines[i].tag = "STREAM-INF"

\* parse_hls_manifest: without EXT-X-MAP only TS segments will do.  Its elapsed
\* time and durations are in the units of the EXTINF lines.
ParseHlsManifest(lines, base, per) ==
    LET p == Reading(LAMBDA acc, line : ReadLine(acc, base, line), HlsStart, lines)
    IN  IF IsMaster(lines) \/ p.failed \/ (~p.ts /\ ~p.init.present) THEN ErrSource
        ELSE [ok |-> TRUE, init |-> p.init, urls |-> p.urls, live |-> p.live,
              durations |-> [i \in 1..Len(p.durations) |-> Time(p.durations[i], per)],
              adBreaks |-> [b \in 1..Len(p.adBreaks) |->
                              [segment |-> p.adBreaks[b].segment, id |-> p.adBreaks[b].id,
                               time |-> Time(p.adBreaks[b].elapsed, per)]],
              parts |-> p.parts, scheme |-> p.scheme, ts |-> p.ts,
              aesKey |-> p.aesKey, ranges |-> <<>>, variants |-> <<>>]

=============================================================================
