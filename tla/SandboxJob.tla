----------------------------- MODULE SandboxJob -----------------------------
(***************************************************************************)
(* One repackaging job of the sandbox (src/bin/sandbox.rs,                 *)
(* handle_repackage) with HLS output: a thread per track runs the          *)
(* progressive pipeline and writes the files of its segments; all of them  *)
(* share a ProgressiveManifestContext behind a mutex, from which the       *)
(* combined manifest of every output directory is rebuilt; a flusher       *)
(* thread copies the progress to the job status in the cache; the main     *)
(* thread joins the tracks and writes the final manifests and the status.  *)
(*                                                                         *)
(* An output is one (format, scheme) pair; its directory holds the files   *)
(* of every track.  A track's thread truncates its media playlist and then *)
(* writes it, without the mutex, so a rebuild in another thread may read   *)
(* the file in between.  Every other write is one step: no thread reads an *)
(* init segment or a segment, and the main thread writes its playlists     *)
(* when all the other threads have ended.                                  *)
(* Rebuilding the combined manifests is one step per output, at the moment *)
(* it reads the playlists, with the mutex held throughout.                 *)
(***************************************************************************)
EXTENDS Naturals, FiniteSets

CONSTANTS
    Videos,         \* indices of the source's video variants
    HasAudio,       \* whether the source has a separate audio playlist
    Texts,          \* indices of its text tracks
    RawTexts,       \* the text tracks that are raw WebVTT
    OutputCount,    \* number of output directories, in the order of the request
    SegmentCount,   \* media segments of a video or text track
    AudioSegmentCount, \* and of the audio track
    MaxFailures     \* bound: tracks whose processing fails

ASSUME TracksAssumption ==
    /\ IsFiniteSet(Videos) /\ Videos \subseteq Nat /\ Videos # {}
    /\ IsFiniteSet(Texts) /\ Texts \subseteq Nat
    /\ RawTexts \subseteq Texts
    /\ HasAudio \in BOOLEAN
ASSUME CountsAssumption ==
    /\ OutputCount \in Nat \ {0}
    /\ SegmentCount \in Nat \ {0} /\ AudioSegmentCount \in Nat \ {0}
    /\ MaxFailures \in Nat

Outputs == 1 .. OutputCount

VideoTracks == {<<"video", i>> : i \in Videos}
AudioTrack  == <<"audio", 0>>
TextTrack(i) == <<"text", i>>
TextTracks  == {TextTrack(i) : i \in Texts}
RawTracks   == {TextTrack(i) : i \in RawTexts}
Tracks == VideoTracks \cup TextTracks \cup (IF HasAudio THEN {AudioTrack} ELSE {})

IsMultiVariant == Cardinality(Videos) > 1

\* video.m3u8: the playlist of the only variant, or of the one that
\* finalisation picks among several.
Primary == <<"primary", 0>>

\* The playlist file a track writes: v{n}_video.m3u8 if there are several
\* variants, video.m3u8 if there is one, audio.m3u8, text_{n}.m3u8.
PlaylistOf(t) == IF t \in VideoTracks /\ ~IsMultiVariant THEN Primary ELSE t
PlaylistNames == {PlaylistOf(t) : t \in Tracks} \cup {Primary}

\* A raw WebVTT track is a single file.
SegmentsOf(t) ==
    IF t \in RawTracks THEN 1
    ELSE IF t = AudioTrack THEN AudioSegmentCount ELSE SegmentCount
MostSegments ==
    IF SegmentCount > AudioSegmentCount THEN SegmentCount ELSE AudioSegmentCount

\* A media playlist: the track whose segments it lists, how many, whether it
\* has the end marker, and whether its URIs name files of the sandbox (they do
\* once a rewrite_*_manifest has replaced those the pipeline gave them).
\* EmptyFile is a file that std::fs::write has truncated and not yet written.
NoFile == [missing |-> TRUE]
EmptyFile == [empty |-> TRUE]
Playlist(t, listed, local) ==
    [of |-> t, listed |-> listed, ended |-> listed = SegmentsOf(t), local |-> local]
Playlists == [of : Tracks, listed : Nat, ended : BOOLEAN, local : BOOLEAN]
Files == Playlists \cup {NoFile, EmptyFile}

\* A combined manifest: the playlists it refers to.
Master(streams, audio, texts, complete) ==
    [streams |-> streams, audio |-> audio, texts |-> texts, complete |-> complete]
Masters == [streams : SUBSET PlaylistNames, audio : BOOLEAN,
            texts : SUBSET TextTracks, complete : BOOLEAN]

NoThread == <<"none", 0>>

VARIABLES
    at,         \* where each track's thread stands
    seg,        \* segment it works on
    out,        \* output it works on
    result,     \* "running", "ok" or "err": the value its join returns
    inits,      \* tracks whose init segment is on disk, in every output
    segments,   \* segments[t][o]: segment files of track t in output o
    playlists,  \* playlists[o]: the media playlist files of output o
    combined,   \* combined[o]: manifest.m3u8 of output o
    ctx,        \* the ProgressiveManifestContext
    lock,       \* thread that holds its mutex
    rebuildAt,  \* output the rebuild in progress writes next
    playbackReady, \* the progress_playback_ready flag
    main,       \* where the main thread stands
    joined,     \* tracks whose result it has categorised
    finalAt,    \* output whose final manifests it writes next
    status,     \* the job status in the cache
    stop,       \* the progress_stop flag
    flusher,    \* where the flusher thread stands
    flushReady, \* playback_ready as the flusher last read it
    failures    \* tracks that have failed so far

threadVars == <<at, seg, out, result>>
trackFiles == <<inits, segments, playlists>>
diskVars   == <<trackFiles, combined>>
ctxVars    == <<ctx, lock, rebuildAt, playbackReady>>
mainVars   == <<main, joined, finalAt>>
statusVars == <<status, stop, flusher, flushReady>>
vars == <<threadVars, diskVars, ctxVars, mainVars, statusVars, failures>>

\* segments are numbered from 0; seg counts those already written.
Init ==
    /\ at = [t \in Tracks |-> "start"]
    /\ seg = [t \in Tracks |-> 0]
    /\ out = [t \in Tracks |-> 1]
    /\ result = [t \in Tracks |-> "running"]
    /\ inits = {}
    /\ segments = [t \in Tracks |-> [o \in Outputs |-> 0]]
    /\ playlists = [o \in Outputs |-> [p \in PlaylistNames |-> NoFile]]
    /\ combined = [o \in Outputs |-> NoFile]
    /\ ctx = [expected |-> Cardinality(Videos), expectsAudio |-> HasAudio,
              variants |-> VideoTracks, ready |-> {}, audio |-> FALSE,
              texts |-> {}, first |-> FALSE]
    /\ lock = NoThread
    /\ rebuildAt = 1
    /\ playbackReady = FALSE
    /\ main = "join"
    /\ joined = {}
    /\ finalAt = 1
    /\ status = [state |-> "Processing", ready |-> FALSE]
    /\ stop = FALSE
    /\ flusher = "sleep"
    /\ flushReady = FALSE
    /\ failures = 0

---------------------------------------------------------------------------
(* The shared manifest context                                             *)

\* Mutant: the first variant to be ready is enough.
AllTracksReadyAny(c) == c.ready # {}

\* all_tracks_ready.
AllTracksReady(c) ==
    /\ Cardinality(c.ready) >= c.expected
    /\ c.expectsAudio => c.audio

\* rebuild_combined_manifests writes nothing until all tracks are ready, and
\* always writes once it has written.
MustRebuild(c) == c.first \/ AllTracksReady(c)

\* build_progressive_combined_manifest: several variants are listed by their
\* own playlists, one (or none) as video.m3u8.
Streams(variants) ==
    IF Cardinality(variants) > 1 THEN variants ELSE {Primary}

\* audio.m3u8 is read again by every rebuild: a file that is missing, or is
\* just being rewritten, reads as the empty string, which stands for no audio.
AudioIsRead(o) == playlists[o][AudioTrack] \notin {NoFile, EmptyFile}

\* Mutant: only the variants whose threads are still at work are listed.
ProgressiveMasterOfRunning(c, o) ==
    Master(Streams({t \in c.variants \cap c.ready : result[t] = "running"}),
           c.audio /\ AudioIsRead(o), c.texts \cup RawTracks, FALSE)

\* What a rebuild writes to output o: the ready variants, audio.m3u8 if it has
\* content, and the text tracks signalled or raw.
ProgressiveMaster(c, o) ==
    Master(Streams(IF IsMultiVariant THEN c.variants \cap c.ready ELSE c.variants),
           c.audio /\ AudioIsRead(o), c.texts \cup RawTracks, FALSE)

SignalVideoManifest(c, t) == [c EXCEPT !.ready = @ \cup {t}]
\* Mutant: a failure never lowers the count.
SignalVideoFailedIgnored(c) == c

SignalVideoFailed(c) == [c EXCEPT !.expected = IF @ > 0 THEN @ - 1 ELSE 0]
SignalAudioFailed(c) == [c EXCEPT !.expectsAudio = FALSE]
SignalAudioManifest(c) == [c EXCEPT !.audio = TRUE]
SignalTextManifest(c, t) == [c EXCEPT !.texts = @ \cup {t}]

\* The signal a track sends when its playlist is on disk.  Audio and text ask
\* for a rebuild the first time only, video every time.
SignalManifest(c, t) ==
    IF t \in VideoTracks THEN SignalVideoManifest(c, t)
    ELSE IF t \in TextTracks THEN SignalTextManifest(c, t)
    ELSE SignalAudioManifest(c)
AsksRebuild(c, t) == t \in VideoTracks \/ SignalManifest(c, t) # c

SignalFailed(c, t) ==
    IF t \in VideoTracks THEN SignalVideoFailed(c) ELSE SignalAudioFailed(c)

---------------------------------------------------------------------------
(* Track threads                                                           *)

\* The thread is done with output out[t] of its segment.
Advance(t) ==
    LET lastOutput  == out[t] = OutputCount
        lastSegment == seg[t] + 1 = SegmentsOf(t)
    IN  /\ out' = [out EXCEPT ![t] = IF lastOutput THEN 1 ELSE @ + 1]
        /\ seg' = [seg EXCEPT ![t] = IF lastOutput THEN @ + 1 ELSE @]
        /\ at' = [at EXCEPT ![t] =
                    IF lastOutput /\ lastSegment THEN "done" ELSE "segment"]
        /\ result' = [result EXCEPT ![t] =
                    IF lastOutput /\ lastSegment THEN "ok" ELSE @]

Finish(t, outcome) ==
    /\ at' = [at EXCEPT ![t] = "done"]
    /\ result' = [result EXCEPT ![t] = outcome]
    /\ UNCHANGED <<seg, out>>

Goto(t, place) ==
    /\ at' = [at EXCEPT ![t] = place]
    /\ UNCHANGED <<seg, out, result>>

\* The InitReady event of a pipeline; a raw track has downloaded its file.
StartTrack(t) ==
    /\ at[t] = "start"
    /\ Goto(t, "segment")
    /\ inits' = IF t \in RawTracks THEN inits ELSE inits \cup {t}
    /\ UNCHANGED <<segments, playlists, combined, ctxVars, mainVars,
                   statusVars, failures>>

\* The SegmentProcessed event: for each output the segment file, then the
\* playlist, then the signal.  The playlist has the end marker already when the
\* segment is the last: finalize runs before the event.
\* Mutant: every output's segment goes to the first output's directory.
WriteSegmentToFirstOutput(t) ==
    /\ at[t] = "segment"
    /\ segments' = [segments EXCEPT ![t][1] = seg[t] + 1]
    /\ Goto(t, "playlist")
    /\ UNCHANGED <<inits, playlists, combined, ctxVars, mainVars, statusVars,
                   failures>>

WriteSegment(t) ==
    /\ at[t] = "segment"
    /\ segments' = [segments EXCEPT ![t][out[t]] = seg[t] + 1]
    /\ Goto(t, "playlist")
    /\ UNCHANGED <<inits, playlists, combined, ctxVars, mainVars, statusVars,
                   failures>>

\* std::fs::write in two steps: the file is truncated, then written.
TruncatePlaylist(t) ==
    /\ at[t] = "playlist"
    /\ playlists' = [playlists EXCEPT ![out[t]][PlaylistOf(t)] = EmptyFile]
    /\ Goto(t, "write")
    /\ UNCHANGED <<inits, segments, combined, ctxVars, mainVars, statusVars,
                   failures>>

\* A raw track signals once, after its files are in every output.
WritePlaylist(t) ==
    /\ at[t] = "write"
    /\ playlists' = [playlists EXCEPT
                       ![out[t]][PlaylistOf(t)] = Playlist(t, seg[t] + 1, TRUE)]
    /\ IF t \in RawTracks /\ out[t] < OutputCount
       THEN Advance(t)
       ELSE Goto(t, "signal")
    /\ UNCHANGED <<inits, segments, combined, ctxVars, mainVars, statusVars,
                   failures>>

LockFree == lock = NoThread

\* The mutex is taken and released with nothing rebuilt.
SignalOnly(t) ==
    LET c == SignalManifest(ctx, t) IN
    /\ at[t] = "signal" /\ LockFree
    /\ ~(AsksRebuild(ctx, t) /\ MustRebuild(c))
    /\ ctx' = c
    /\ Advance(t)
    /\ UNCHANGED <<lock, rebuildAt, playbackReady, diskVars, mainVars,
                   statusVars, failures>>

\* Mutant: the playback flag is raised before the manifests are written.
BeginRebuildRaisingFlag(t, c) ==
    /\ MustRebuild(c)
    /\ ctx' = [c EXCEPT !.first = TRUE]
    /\ lock' = t
    /\ rebuildAt' = 1
    /\ playbackReady' = TRUE
    /\ UNCHANGED <<diskVars, mainVars, statusVars, failures>>

BeginRebuild(t, c) ==
    /\ MustRebuild(c)
    /\ ctx' = [c EXCEPT !.first = TRUE]
    /\ lock' = t
    /\ rebuildAt' = 1
    /\ UNCHANGED <<playbackReady, diskVars, mainVars, statusVars, failures>>

SignalAndRebuild(t) ==
    /\ at[t] = "signal" /\ LockFree
    /\ AsksRebuild(ctx, t)
    /\ BeginRebuild(t, SignalManifest(ctx, t))
    /\ Goto(t, "rebuild")

\* The pipeline returned an error.
ReportFailure(t) ==
    LET c == SignalFailed(ctx, t) IN
    /\ at[t] = "failed" /\ LockFree
    /\ ~MustRebuild(c)
    /\ ctx' = c
    /\ Finish(t, "err")
    /\ UNCHANGED <<lock, rebuildAt, playbackReady, diskVars, mainVars,
                   statusVars, failures>>

ReportFailureAndRebuild(t) ==
    /\ at[t] = "failed" /\ LockFree
    /\ BeginRebuild(t, SignalFailed(ctx, t))
    /\ Goto(t, "rebuildFailed")

\* A video thread whose signal led to a manifest sets the flag before it
\* releases the mutex.
RaisesPlayback(t) == t \in VideoTracks /\ at[t] = "rebuild"

\* Mutant: the thread of a failed track keeps the mutex.
RebuildOutputKeepingLock(t) ==
    /\ lock = t /\ at[t] \in {"rebuild", "rebuildFailed"}
    /\ combined' = [combined EXCEPT ![rebuildAt] = ProgressiveMaster(ctx, rebuildAt)]
    /\ IF rebuildAt < OutputCount
       THEN /\ rebuildAt' = rebuildAt + 1
            /\ UNCHANGED <<lock, playbackReady, threadVars>>
       ELSE /\ lock' = IF at[t] = "rebuild" THEN NoThread ELSE t
            /\ rebuildAt' = 1
            /\ playbackReady' = (playbackReady \/ RaisesPlayback(t))
            /\ IF at[t] = "rebuild" THEN Advance(t) ELSE Finish(t, "err")
    /\ UNCHANGED <<ctx, trackFiles, mainVars, statusVars, failures>>

RebuildOutput(t) ==
    /\ lock = t /\ at[t] \in {"rebuild", "rebuildFailed"}
    /\ combined' = [combined EXCEPT ![rebuildAt] = ProgressiveMaster(ctx, rebuildAt)]
    /\ IF rebuildAt < OutputCount
       THEN /\ rebuildAt' = rebuildAt + 1
            /\ UNCHANGED <<lock, playbackReady, threadVars>>
       ELSE /\ lock' = NoThread
            /\ rebuildAt' = 1
            /\ playbackReady' = (playbackReady \/ RaisesPlayback(t))
            /\ IF at[t] = "rebuild" THEN Advance(t) ELSE Finish(t, "err")
    /\ UNCHANGED <<ctx, trackFiles, mainVars, statusVars, failures>>

\* The pipeline can fail until it starts on a segment, and between segments:
\* every scheme of a segment is rewritten before its event.
CanFail(t) ==
    /\ failures < MaxFailures
    /\ \/ at[t] = "start"
       \/ at[t] = "segment" /\ out[t] = 1 /\ t \notin RawTracks

\* Video and audio threads tell the context; text threads only return.
PipelineFails(t) ==
    /\ CanFail(t)
    /\ failures' = failures + 1
    /\ IF t \in TextTracks THEN Finish(t, "err") ELSE Goto(t, "failed")
    /\ UNCHANGED <<diskVars, ctxVars, mainVars, statusVars>>

\* A thread that panics tells nobody; its join is an error.
ThreadPanics(t) ==
    /\ CanFail(t) /\ t \notin TextTracks
    /\ failures' = failures + 1
    /\ Finish(t, "err")
    /\ UNCHANGED <<diskVars, ctxVars, mainVars, statusVars>>

TrackStep(t) ==
    \/ StartTrack(t) \/ WriteSegment(t)
    \/ TruncatePlaylist(t) \/ WritePlaylist(t)
    \/ SignalOnly(t) \/ SignalAndRebuild(t)
    \/ ReportFailure(t) \/ ReportFailureAndRebuild(t)
    \/ RebuildOutput(t)

---------------------------------------------------------------------------
(* The main thread                                                         *)

Succeeded(S) == {t \in S : result[t] = "ok"}

\* The order in which the threads were spawned, and so are joined.
SpawnedBefore(t, u) ==
    \/ t \in VideoTracks /\ u \notin VideoTracks
    \/ t = AudioTrack /\ u \in TextTracks
    \/ t[1] = u[1] /\ t[2] < u[2]

\* When every track has ended the flusher is told to stop; it is not joined.
JoinTracks ==
    /\ main = "join"
    /\ \A t \in Tracks : at[t] = "done"
    /\ stop' = TRUE
    /\ main' = "categorise"
    /\ UNCHANGED <<threadVars, diskVars, ctxVars, joined, finalAt, status, flusher,
                   flushReady, failures>>

\* A failed video or audio track is signalled here as well, whether or not its
\* thread had done so.  No other thread is left to contend for the mutex, so
\* the rebuild is part of the step.
RebuildAll(c) ==
    IF MustRebuild(c)
    THEN /\ ctx' = [c EXCEPT !.first = TRUE]
         /\ combined' = [o \in Outputs |-> ProgressiveMaster(c, o)]
    ELSE ctx' = c /\ UNCHANGED combined

CategoriseResult(t) ==
    /\ main = "categorise"
    /\ t \notin joined
    /\ \A u \in Tracks : SpawnedBefore(u, t) => u \in joined
    /\ joined' = joined \cup {t}
    /\ IF result[t] = "err" /\ t \notin TextTracks
       THEN RebuildAll(SignalFailed(ctx, t))
       ELSE UNCHANGED <<ctx, combined>>
    /\ UNCHANGED <<threadVars, trackFiles, lock, rebuildAt, playbackReady, main,
                   finalAt, statusVars, failures>>

AllCategorised == main = "categorise" /\ joined = Tracks

WriteFailed ==
    /\ AllCategorised
    /\ Succeeded(VideoTracks) = {}
    /\ status' = [state |-> "Failed", ready |-> FALSE]
    /\ main' = "done"
    /\ UNCHANGED <<threadVars, diskVars, ctxVars, joined, finalAt, stop, flusher,
                   flushReady, failures>>

\* finalize_with_successful_variants: only the variants that succeeded are left,
\* and all that are left count as ready.
FinalContext(c) ==
    LET kept == Succeeded(VideoTracks)
    IN  [c EXCEPT !.variants = kept, !.expected = Cardinality(kept),
                  !.ready = kept, !.first = TRUE]

\* Several variants: their playlists are written once more and the combined
\* manifests rebuilt without those that failed.
FinalizeVariants ==
    /\ AllCategorised
    /\ Succeeded(VideoTracks) # {}
    /\ main' = "final"
    /\ IF IsMultiVariant
       THEN /\ playlists' = [o \in Outputs |-> [p \in PlaylistNames |->
                  IF p \in Succeeded(VideoTracks)
                  THEN Playlist(p, SegmentsOf(p), TRUE) ELSE playlists[o][p]]]
            /\ RebuildAll(FinalContext(ctx))
       ELSE UNCHANGED <<playlists, ctx, combined>>
    /\ UNCHANGED <<threadVars, inits, segments, lock, rebuildAt, playbackReady,
                   joined, finalAt, statusVars, failures>>

\* The output that stands for the video in the final manifests: that of the
\* first variant that succeeded.
PrimaryTrack ==
    CHOOSE t \in Succeeded(VideoTracks) :
        \A u \in Succeeded(VideoTracks) : t[2] <= u[2]

\* video.m3u8 is written as rendered, so that of a variant still has the URIs
\* of the variant's own content id; those of audio and text are rewritten.
FinalPlaylist(p, old) ==
    IF p = Primary THEN Playlist(PrimaryTrack, SegmentsOf(PrimaryTrack), ~IsMultiVariant)
    ELSE IF p \in Succeeded(Tracks \ (VideoTracks \cup RawTracks))
    THEN Playlist(p, SegmentsOf(p), TRUE) ELSE old

WriteFinalPlaylists ==
    /\ main = "final"
    /\ playlists' = [playlists EXCEPT ![finalAt] =
                       [p \in PlaylistNames |-> FinalPlaylist(p, @[p])]]
    /\ main' = "finalMaster"
    /\ UNCHANGED <<threadVars, inits, segments, combined, ctxVars, joined, finalAt,
                   statusVars, failures>>

\* Mutants of FinalManifest: failed variants are kept; so is failed audio.
FinalManifestOfAllVariants(o) ==
    Master(Streams(VideoTracks), HasAudio /\ result[AudioTrack] = "ok",
           Succeeded(TextTracks) \cup RawTracks, TRUE)
FinalManifestWithAudio(o) ==
    Master(Streams(Succeeded(VideoTracks)), HasAudio,
           Succeeded(TextTracks) \cup RawTracks, TRUE)

\* A master playlist if the job has more than one video; else, if neither audio
\* nor text came out, the video playlist itself.
FinalManifest(o) ==
    LET audio == HasAudio /\ result[AudioTrack] = "ok"
        texts == Succeeded(TextTracks) \cup RawTracks
    IN  IF audio \/ texts # {} \/ IsMultiVariant
        THEN Master(Streams(Succeeded(VideoTracks)), audio, texts, TRUE)
        ELSE playlists[o][Primary]

WriteFinalManifest ==
    /\ main = "finalMaster"
    /\ combined' = [combined EXCEPT ![finalAt] = FinalManifest(finalAt)]
    /\ finalAt' = finalAt + 1
    /\ main' = IF finalAt = OutputCount THEN "complete" ELSE "final"
    /\ UNCHANGED <<threadVars, trackFiles, ctxVars, joined, statusVars, failures>>

\* The Complete status has no playback_ready field, which reads as false.
WriteComplete ==
    /\ main = "complete"
    /\ status' = [state |-> "Complete", ready |-> FALSE]
    /\ main' = "done"
    /\ UNCHANGED <<threadVars, diskVars, ctxVars, joined, finalAt, stop, flusher,
                   flushReady, failures>>

MainStep ==
    \/ JoinTracks
    \/ \E t \in Tracks : CategoriseResult(t)
    \/ WriteFailed \/ FinalizeVariants
    \/ WriteFinalPlaylists \/ WriteFinalManifest \/ WriteComplete

---------------------------------------------------------------------------
(* The flusher                                                             *)

PollStop ==
    /\ flusher = "sleep"
    /\ IF stop
       THEN flusher' = "stopped" /\ UNCHANGED flushReady
       ELSE flusher' = "write" /\ flushReady' = playbackReady
    /\ UNCHANGED <<threadVars, diskVars, ctxVars, mainVars, status, stop, failures>>

FlushProgress ==
    /\ flusher = "write"
    /\ status' = [state |-> "Processing", ready |-> flushReady]
    /\ flusher' = "sleep"
    /\ UNCHANGED <<threadVars, diskVars, ctxVars, mainVars, stop, flushReady, failures>>

FlusherStep == PollStop \/ FlushProgress

Terminated ==
    /\ main = "done" /\ flusher = "stopped"
    /\ UNCHANGED vars

Next ==
    \/ \E t \in Tracks : TrackStep(t) \/ PipelineFails(t) \/ ThreadPanics(t)
    \/ MainStep
    \/ FlusherStep
    \/ Terminated

Spec == Init /\ [][Next]_vars

\* The operating system schedules every thread.  No fairness of the mutex is
\* needed: every thread asks for it finitely often.  Failures are not fair.
Fairness ==
    /\ \A t \in Tracks : WF_vars(TrackStep(t))
    /\ WF_vars(MainStep)
    /\ WF_vars(FlusherStep)

FairSpec == Spec /\ Fairness

---------------------------------------------------------------------------
(* Properties                                                              *)

IsMaster(m) == "streams" \in DOMAIN m

\* The playlists a combined manifest makes a player load.
Refs(m) ==
    IF m = NoFile \/ ~IsMaster(m) THEN {}
    ELSE m.streams \cup m.texts \cup (IF m.audio THEN {AudioTrack} ELSE {})

\* Every segment a playlist lists is on disk, with its init segment, under the
\* name the playlist has for it.
Backed(pl, o) ==
    /\ pl.local
    /\ pl.listed \in 1 .. segments[pl.of][o]
    /\ pl.of \in inits \cup RawTracks

HasContent(o, p) == playlists[o][p] \notin {NoFile, EmptyFile}
Loadable(p, o) == HasContent(o, p) /\ Backed(playlists[o][p], o)

\* The thread of track t has truncated its playlist in output o.
Rewriting(t, o) == at[t] = "write" /\ out[t] = o

TypeOK ==
    /\ at \in [Tracks -> {"start", "segment", "playlist", "write", "signal",
                          "rebuild", "failed", "rebuildFailed", "done"}]
    /\ seg \in [Tracks -> 0 .. MostSegments]
    /\ out \in [Tracks -> Outputs]
    /\ result \in [Tracks -> {"running", "ok", "err"}]
    /\ inits \subseteq Tracks
    /\ segments \in [Tracks -> [Outputs -> 0 .. MostSegments]]
    /\ playlists \in [Outputs -> [PlaylistNames -> Files]]
    /\ combined \in [Outputs -> Masters \cup Files]
    /\ ctx \in [expected : 0 .. Cardinality(Videos), expectsAudio : BOOLEAN,
                variants : SUBSET VideoTracks, ready : SUBSET VideoTracks,
                audio : BOOLEAN, texts : SUBSET TextTracks, first : BOOLEAN]
    /\ lock \in Tracks \cup {NoThread}
    /\ rebuildAt \in Outputs
    /\ playbackReady \in BOOLEAN
    /\ main \in {"join", "categorise", "final", "finalMaster", "complete", "done"}
    /\ joined \subseteq Tracks
    /\ finalAt \in 1 .. OutputCount + 1
    /\ status \in [state : {"Processing", "Complete", "Failed"}, ready : BOOLEAN]
    /\ stop \in BOOLEAN
    /\ flusher \in {"sleep", "write", "stopped"}
    /\ flushReady \in BOOLEAN
    /\ failures \in 0 .. MaxFailures

\* A player that loads a media playlist of the job's own directory while the
\* threads are writing finds every segment it lists, and the init segment.
PlaylistsBacked ==
    \A o \in Outputs, p \in PlaylistNames :
        HasContent(o, p) /\ playlists[o][p].local => Backed(playlists[o][p], o)

\* The status tells the user that playback may begin only when there is a
\* combined manifest in every output, although the flag is raised by a video
\* thread and copied by the flusher while others rebuild.
ReadyMeansManifests ==
    status.ready => \A o \in Outputs : combined[o] # NoFile

\* As long as no track has failed, every playlist that the first output's
\* combined manifest names can be loaded, raw text tracks apart, unless its own
\* thread is rewriting it at this moment: the first manifest is deferred until
\* each video and audio track has a playlist.
FirstOutputPlayable ==
    failures = 0 =>
        \A p \in Refs(combined[1]) \ RawTracks :
            \/ Loadable(p, 1)
            \/ \E t \in Tracks : PlaylistOf(t) = p /\ Rewriting(t, 1)

\* While the tracks run and none has failed, rebuilds by different threads never
\* overwrite each other with older views: a step takes nothing away from a
\* combined manifest but the audio, and the audio only if the rebuild reads
\* audio.m3u8 of that output while the audio thread is rewriting it.
OnlyRewrittenAudioDrops ==
    [][main = "join" /\ failures = 0 =>
         \A o \in Outputs : \A p \in Refs(combined[o]) \ Refs(combined'[o]) :
             p = AudioTrack /\ Rewriting(AudioTrack, o)]_vars

\* A job that ends with several variants, or with its only one, leaves in every
\* output a combined manifest that names exactly the tracks that succeeded (and
\* the raw text tracks), and each of those has a complete playlist.  A track
\* that failed after it had been listed is gone.
Expected ==
    (IF IsMultiVariant THEN Succeeded(VideoTracks) ELSE {Primary})
        \cup Succeeded(Tracks \ VideoTracks) \cup RawTracks
FinalManifestsPlayable ==
    /\ main = "done"
    /\ Cardinality(Succeeded(VideoTracks)) > (IF IsMultiVariant THEN 1 ELSE 0)
    => \A o \in Outputs :
        /\ IsMaster(combined[o]) =>
             Refs(combined[o]) = Expected /\ combined[o].complete
        /\ ~IsMaster(combined[o]) =>
             combined[o].ended /\ Backed(combined[o], o)
        /\ \A p \in Refs(combined[o]) :
             \/ p \in RawTracks /\ result[p] = "err"
             \/ Loadable(p, o) /\ playlists[o][p].ended

\* The deferral always ends: when the last result is in and a video succeeded,
\* a player has had a combined manifest in every output, whichever of the other
\* tracks failed, or panicked without telling the context, and in any order.
DeferralEnds ==
    AllCategorised /\ Succeeded(VideoTracks) # {} =>
        \A o \in Outputs : combined[o] # NoFile

\* Every job ends, whichever tracks fail or panic and however their threads
\* contend for the mutex.
JobEnds == <>(main = "done" /\ flusher = "stopped")

\* sandbox.rs: "We wait until every video variant + audio (if expected) has
\* produced at least one media manifest before writing the combined manifest".
AllVariantsAwaited ==
    combined[1] # NoFile /\ main = "join" =>
        \A t \in VideoTracks : at[t] \in {"start", "segment"} =>
            playlists[1][PlaylistOf(t)] # NoFile

\* sandbox.rs: "Stop the progress flusher": once the job has reported how it
\* ended, the status stays.
StatusIsFinal ==
    [][status.state # "Processing" => UNCHANGED status]_vars
=============================================================================
