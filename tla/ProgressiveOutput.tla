-------------------------- MODULE ProgressiveOutput --------------------------
(***************************************************************************)
(* The progressive output of one (format, scheme) pair: the per-segment    *)
(* loop of RepackagePipeline::execute_progressive, the ManifestState it    *)
(* fills through ProgressiveOutput (src/repackager/progressive.rs), the    *)
(* DVR window and cache headers of src/manifest/types.rs, and what the HLS *)
(* and DASH renderers take from that state.  A manifest is published after *)
(* every segment; published keeps them all, because a player or a CDN may  *)
(* still hold any of them.                                                 *)
(*                                                                         *)
(* Durations are natural numbers of ticks; a segment time in a DASH        *)
(* timeline is a number of milliseconds, TicksPerMs of them each.          *)
(***************************************************************************)
EXTENDS Naturals, Sequences, FiniteSets, SequencesExt, FiniteSetsExt

CONSTANTS
    SourceLength,   \* segments the source manifest lists
    Durations,      \* segment durations, in ticks
    Window,         \* dvr_window_duration in ticks, 0 if there is none
    PartCount,      \* LL-HLS parts of a segment (none if it is below 2)
    TrickPlay,      \* enable_iframe_playlist
    DefaultTarget,  \* target_duration before any segment, in ticks
    TicksPerMs,     \* ticks in a millisecond
    MaxFailures     \* bound: segments that cannot be fetched or rewritten

ASSUME SourceAssumption ==
    /\ SourceLength \in Nat \ {0}
    /\ TrickPlay \in BOOLEAN
    /\ Durations \subseteq Nat
    /\ {Window, PartCount, DefaultTarget, MaxFailures} \subseteq Nat
    /\ TicksPerMs \in Nat \ {0}

VARIABLES
    sourceIsLive,   \* whether the source manifest is still live
    state,      \* the ManifestState
    next,       \* number of the segment the loop works on next
    elapsed,    \* elapsed_time: duration of the segments before it
    loop,       \* "running", "ended" or "failed"
    published   \* every manifest rendered for a SegmentProcessed event

vars == <<sourceIsLive, state, next, elapsed, loop, published>>

Init ==
    /\ sourceIsLive \in BOOLEAN
    /\ state = [phase |-> "AwaitingFirstSegment", segments |-> <<>>, parts |-> {},
                iframes |-> {}, adBreaks |-> {}, target |-> DefaultTarget,
                mediaSequence |-> 0]
    /\ next = 0
    /\ elapsed = 0
    /\ loop = "running"
    /\ published = <<>>

---------------------------------------------------------------------------
(* The DVR window                                                          *)

TotalDuration(segs) ==
    LET total[i \in 0 .. Len(segs)] == IF i = 0 THEN 0 ELSE total[i - 1] + segs[i].duration
    IN  total[Len(segs)]
From(segs, i) == SubSeq(segs, i, Len(segs))

IsDvrActive(s) == Window > 0 /\ s.phase = "Live"

\* Mutant: the segment that makes the window overflow is kept.
WindowedSegmentsOneMore(s) ==
    LET over == {i \in 1 .. Len(s.segments) :
                    TotalDuration(From(s.segments, i)) > Window}
    IN  IF IsDvrActive(s) /\ over # {} THEN From(s.segments, Max(over))
        ELSE s.segments

\* windowed_segments goes back from the newest segment and stops at the first
\* with which the total exceeds the window.
WindowedSegments(s) ==
    LET over == {i \in 1 .. Len(s.segments) :
                    TotalDuration(From(s.segments, i)) > Window}
    IN  IF IsDvrActive(s) /\ over # {} THEN From(s.segments, Max(over) + 1)
        ELSE s.segments

FirstNumber(segs) == IF segs = <<>> THEN 0 ELSE segs[1].number
LastNumber(segs)  == IF segs = <<>> THEN 0 ELSE segs[Len(segs)].number

WindowedMediaSequence(s) ==
    IF IsDvrActive(s) /\ WindowedSegments(s) # <<>>
    THEN WindowedSegments(s)[1].number ELSE s.mediaSequence

\* Mutant: parts and markers of segments that have left the window are kept.
WindowedFromStart(s, items) ==
    {x \in items : x.segment <= LastNumber(WindowedSegments(s))}

\* windowed_parts, windowed_iframe_segments and windowed_ad_breaks: everything
\* if the window holds every segment, else what lies between the numbers of its
\* first and its last segment, both 0 when it holds none.
Windowed(s, items) ==
    LET segs == WindowedSegments(s)
    IN  IF Len(segs) = Len(s.segments) THEN items
        ELSE {x \in items : x.segment \in FirstNumber(segs) .. LastNumber(segs)}

---------------------------------------------------------------------------
(* Rendering                                                               *)

ToMs(ticks) == ticks \div TicksPerMs

\* A sum of durations, each truncated to milliseconds.
TotalMs(segs) ==
    LET total[i \in 0 .. Len(segs)] == IF i = 0 THEN 0 ELSE total[i - 1] + ToMs(segs[i].duration)
    IN  total[Len(segs)]

\* The segments at the start that are all numbered below n.
Before(segs, n) ==
    SubSeq(segs, 1, Cardinality({i \in 1 .. Len(segs) : \A j \in 1 .. i : segs[j].number < n}))

\* Mutant: the start of the window is rounded once, not segment by segment.
WindowTimeRoundedOnce(s) ==
    ToMs(TotalDuration(Before(s.segments, FirstNumber(WindowedSegments(s)))))

\* The t attribute of the first S of the DASH timeline: the durations of the
\* segments before the window, each truncated to milliseconds.
WindowTime(s) == TotalMs(Before(s.segments, FirstNumber(WindowedSegments(s))))

\* What a manifest tells a player: HLS media sequence and end marker, DASH start
\* number, start time and type, the segments, and the items attached to them.
Render(s) ==
    [complete |-> s.phase = "Complete",
     sequence |-> WindowedMediaSequence(s),
     startNumber |-> FirstNumber(WindowedSegments(s)),
     startTime |-> WindowTime(s),
     listed |-> WindowedSegments(s),
     parts |-> Windowed(s, s.parts),
     iframes |-> Windowed(s, s.iframes),
     adBreaks |-> Windowed(s, s.adBreaks),
     target |-> s.target,
     immutable |-> s.phase = "Complete"]

---------------------------------------------------------------------------
(* The loop of execute_progressive                                         *)

AddParts(s, n) ==
    IF PartCount > 1
    THEN [s EXCEPT !.parts = @ \cup {[segment |-> n, index |-> p] : p \in 1 .. PartCount}]
    ELSE s

AddIframeInfo(s, n) ==
    IF TrickPlay THEN [s EXCEPT !.iframes = @ \cup {[segment |-> n]}] ELSE s

AddSegment(s, n, duration) ==
    [s EXCEPT !.segments = Append(@, [number |-> n, duration |-> duration]),
              !.target = IF duration > @ THEN duration ELSE @,
              !.phase = IF @ = "AwaitingFirstSegment" THEN "Live" ELSE @]

AddAdBreak(s, n, time) ==
    [s EXCEPT !.adBreaks = @ \cup {[segment |-> n, time |-> time]}]

Finalize(s) == [s EXCEPT !.phase = "Complete"]

IsLast(n) == n + 1 = SourceLength /\ ~sourceIsLive

\* One turn of the loop: the segment is fetched and rewritten, its parts and its
\* first independent chunk (if it has one) are recorded, it is added with its ad
\* break (if an emsg box starts one), and the manifest is finalised if it is the
\* last of a source that is not live.  The event then publishes the manifest.
ProcessSegment(duration, hasIdr, hasAdBreak) ==
    LET parted  == AddParts(state, next)
        tricked == IF hasIdr THEN AddIframeInfo(parted, next) ELSE parted
        added   == AddSegment(tricked, next, duration)
        broken  == IF hasAdBreak THEN AddAdBreak(added, next, elapsed) ELSE added
        final   == IF IsLast(next) THEN Finalize(broken) ELSE broken
    IN  /\ loop = "running"
        /\ state' = final
        /\ elapsed' = elapsed + duration
        /\ published' = Append(published, Render(final))
        /\ next' = next + 1
        /\ UNCHANGED sourceIsLive
        /\ loop' = IF next + 1 = SourceLength THEN "ended" ELSE "running"

\* A segment cannot be fetched, decrypted or rewritten: the pipeline returns the
\* error and the output stays as it is.
SegmentFails ==
    /\ loop = "running" /\ MaxFailures > 0
    /\ loop' = "failed"
    /\ UNCHANGED <<sourceIsLive, state, next, elapsed, published>>

Terminated == loop # "running" /\ UNCHANGED vars

Next ==
    \/ \E d \in Durations : \E idr, ad \in BOOLEAN : ProcessSegment(d, idr, ad)
    \/ SegmentFails
    \/ Terminated

Spec == Init /\ [][Next]_vars

---------------------------------------------------------------------------
(* Properties                                                              *)

SegmentRecords == [number : 0 .. SourceLength - 1, duration : Durations]
Manifests == [complete : BOOLEAN, sequence : Nat, startNumber : Nat, startTime : Nat,
              listed : Seq(SegmentRecords), parts : SUBSET state.parts,
              iframes : SUBSET state.iframes, adBreaks : SUBSET state.adBreaks,
              target : Nat, immutable : BOOLEAN]

TypeOK ==
    /\ sourceIsLive \in BOOLEAN
    /\ state.phase \in {"AwaitingFirstSegment", "Live", "Complete"}
    /\ state.segments \in Seq(SegmentRecords)
    /\ state.parts \subseteq [segment : 0 .. SourceLength - 1, index : 1 .. PartCount]
    /\ state.iframes \subseteq [segment : 0 .. SourceLength - 1]
    /\ state.adBreaks \subseteq [segment : 0 .. SourceLength - 1, time : 0 .. elapsed]
    /\ state.target \in Nat /\ state.mediaSequence = 0
    /\ next \in 0 .. SourceLength /\ elapsed \in Nat
    /\ loop \in {"running", "ended", "failed"}
    /\ \A i \in 1 .. Len(published) : published[i] \in Manifests

Numbers(segs) == {segs[i].number : i \in 1 .. Len(segs)}

\* The segments of a live manifest are the longest run up to the live edge whose
\* total duration fits the DVR window; without a window, or once complete, all.
Fits(k) == TotalDuration(From(state.segments, Len(state.segments) - k + 1)) <= Window
WindowIsLongestRun ==
    LET count == Len(WindowedSegments(state))
    IN  /\ WindowedSegments(state) =
             From(state.segments, Len(state.segments) - count + 1)
        /\ IF IsDvrActive(state)
           THEN /\ Fits(count)
                /\ \A k \in count + 1 .. Len(state.segments) : ~Fits(k)
           ELSE count = Len(state.segments)

\* A segment that two manifests list has the same DASH presentation time in both:
\* sliding the window never moves it on the timeline.
TimeIn(m, i) == m.startTime + TotalMs(SubSeq(m.listed, 1, i - 1))
TimesAgree ==
    \A a, b \in 1 .. Len(published) :
        \A i \in 1 .. Len(published[a].listed), j \in 1 .. Len(published[b].listed) :
            published[a].listed[i].number = published[b].listed[j].number =>
                TimeIn(published[a], i) = TimeIn(published[b], j)

\* A segment's place in an HLS playlist gives its own number, in every manifest
\* and across the move from live to complete.  TS segments are encrypted with
\* their number as IV and the playlist states none, so a player derives the IV
\* from the media sequence.
PlaceIsNumber ==
    \A a \in 1 .. Len(published) : \A i \in 1 .. Len(published[a].listed) :
        published[a].sequence + i - 1 = published[a].listed[i].number

\* A manifest with an immutable header is the last one ever published, and it
\* lists every segment of the source: a CDN may keep it for a year.
ImmutableIsFinal ==
    \A a \in 1 .. Len(published) : published[a].immutable =>
        /\ a = Len(published) /\ loop # "running"
        /\ Numbers(published[a].listed) = 0 .. SourceLength - 1

\* All manifests ever published, sliding, ending and ended, agree with each other:
\* on the time and the number of every segment, and nothing comes after one that
\* may be kept for good.
ManifestsAgree == TimesAgree /\ PlaceIsNumber /\ ImmutableIsFinal

\* When the window holds a segment, the manifest carries exactly the parts,
\* I-frame entries and ad breaks of the segments it lists.
ItemsOf(items, segs) == {x \in items : x.segment \in Numbers(segs)}
ItemsFollowWindow ==
    WindowedSegments(state) # <<>> =>
        LET segs == WindowedSegments(state)
        IN  \A items \in {state.parts, state.iframes, state.adBreaks} :
                Windowed(state, items) = ItemsOf(items, segs)
=============================================================================
