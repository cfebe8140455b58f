-------------------------- MODULE SandboxJobProofs --------------------------
(***************************************************************************)
(* Theorems about SandboxJob for every number of variants, text tracks,    *)
(* outputs, segments and failures.                                         *)
(*                                                                         *)
(* The inductive invariant says where each thread's files stand (FileInv), *)
(* what the shared context has been told and by whom (SignalInv), that no  *)
(* thread leaves the mutex before it has written what the context calls    *)
(* for (RebuildInv), what the final phase relies on (FinalInv), and what   *)
(* the combined manifests name while no track has failed (SteadyInv).      *)
(***************************************************************************)
EXTENDS SandboxJob, DataLemmas, FiniteSetTheorems, TLAPS

Working == {"segment", "playlist", "write", "signal", "rebuild"}

\* Thread t has passed the given places for output o of its segment.
Past(t, o, places) == o < out[t] \/ (o = out[t] /\ at[t] \in places)

\* Segments of track t that output o has on disk, and those its playlist lists.
OnDisk(t, o) == seg[t] + (IF Past(t, o, {"playlist", "write", "signal", "rebuild"}) THEN 1 ELSE 0)
Listed(t, o) == seg[t] + (IF Past(t, o, {"signal", "rebuild"}) THEN 1 ELSE 0)

Places == {"start", "segment", "playlist", "write", "signal", "rebuild",
           "failed", "rebuildFailed", "done"}

ThreadTypeOK ==
    /\ at \in [Tracks -> Places]
    /\ seg \in [Tracks -> 0 .. MostSegments]
    /\ out \in [Tracks -> Outputs]
    /\ result \in [Tracks -> {"running", "ok", "err"}]

ThreadOK(t) ==
    /\ at[t] = "done" <=> result[t] # "running"
    /\ result[t] = "ok" => seg[t] = SegmentsOf(t)
    /\ at[t] = "start" => seg[t] = 0
    /\ at[t] \in Working => seg[t] < SegmentsOf(t)
    /\ at[t] \notin Working => out[t] = 1
    /\ at[t] \in Working \/ seg[t] > 0 => t \in inits \cup RawTracks

ThreadInv == \A t \in Tracks : ThreadOK(t)

\* The playlist file of track t in output o.
FileOf(t, o) ==
    IF Rewriting(t, o) THEN EmptyFile
    ELSE IF Listed(t, o) = 0 THEN NoFile ELSE Playlist(t, Listed(t, o), TRUE)

FileInv ==
    \A t \in Tracks, o \in Outputs :
        /\ segments[t][o] = OnDisk(t, o)
        /\ playlists[o][PlaylistOf(t)] = FileOf(t, o)

\* video.m3u8 of a job with several variants is not a thread's file.
PrimaryInv ==
    IsMultiVariant =>
        \A o \in Outputs :
            playlists[o][Primary] = NoFile \/ ~playlists[o][Primary].local

LockInv ==
    /\ \A t \in Tracks : at[t] \in {"rebuild", "rebuildFailed"} <=> lock = t
    /\ lock = NoThread => rebuildAt = 1
    /\ main # "join" => \A t \in Tracks : at[t] = "done"
    /\ joined # {} => main # "join"

Running == main \in {"join", "categorise"}
FailedJoined == {t \in joined : result[t] = "err"}

SignalInv ==
    /\ \A t \in ctx.ready \cup ctx.texts : Listed(t, 1) > 0
    /\ ctx.audio => HasAudio /\ Listed(AudioTrack, 1) > 0
    /\ ctx.expectsAudio => HasAudio /\ AudioTrack \notin FailedJoined
    /\ \A t \in Tracks : seg[t] > 0 \/ at[t] = "rebuild" =>
        /\ t \in TextTracks => t \in ctx.texts
        /\ t = AudioTrack => ctx.audio
        /\ t \in VideoTracks /\ Running => t \in ctx.ready
    /\ Running => /\ ctx.variants = VideoTracks
                  /\ ctx.expected <= Cardinality(VideoTracks \ FailedJoined)

RebuildInv ==
    /\ AllTracksReady(ctx) => ctx.first
    /\ lock # NoThread => ctx.first
    /\ \A o \in Outputs :
        /\ combined[o] # NoFile => ctx.first
        /\ ctx.first /\ combined[o] = NoFile => lock # NoThread /\ o >= rebuildAt
    /\ playbackReady \/ flushReady \/ status.ready =>
        \A o \in Outputs : combined[o] # NoFile

FinalInv ==
    /\ Running => finalAt = 1
    /\ main \in {"final", "finalMaster"} => finalAt \in Outputs
    /\ main \in {"final", "finalMaster", "complete"} =>
        joined = Tracks /\ Succeeded(VideoTracks) # {} /\ ctx.first
    /\ main = "complete" \/ (main = "done" /\ Succeeded(VideoTracks) # {}) =>
        finalAt = OutputCount + 1
    /\ \A o \in Outputs : o < finalAt => combined[o] = FinalManifest(o)

\* What a combined manifest names when no track has failed.
Steady(o) ==
    IsMaster(combined[o]) =>
        /\ combined[o].streams = Streams(VideoTracks)
        /\ combined[o].audio => ctx.audio /\ playlists[o][AudioTrack] # NoFile
        /\ combined[o].texts \subseteq ctx.texts \cup RawTracks

SteadyInv ==
    failures = 0 =>
        /\ \A t \in Tracks : at[t] \notin {"failed", "rebuildFailed"} /\ result[t] # "err"
        /\ ctx.variants = VideoTracks
        /\ ctx.expected = Cardinality(VideoTracks)
        /\ ctx.expectsAudio = HasAudio
        /\ ctx.first => ctx.ready = VideoTracks
        /\ \A o \in Outputs : Steady(o)

IInv ==
    /\ TypeOK /\ ThreadInv /\ FileInv /\ PrimaryInv /\ LockInv
    /\ SignalInv /\ RebuildInv /\ FinalInv /\ SteadyInv

-----------------------------------------------------------------------------
(* Tracks, playlist files and manifests.                                    *)

\* The kinds of tracks are distinct, and no track is NoThread or Primary.
LEMMA TrackKinds ==
    /\ VideoTracks \subseteq Tracks /\ TextTracks \subseteq Tracks
    /\ RawTracks \subseteq TextTracks
    /\ AudioTrack \in Tracks <=> HasAudio
    /\ \A t \in Tracks : t \in VideoTracks \/ t \in TextTracks \/ t = AudioTrack
    /\ VideoTracks \cap TextTracks = {}
    /\ AudioTrack \notin VideoTracks \cup TextTracks
    /\ NoThread \notin Tracks /\ Primary \notin Tracks
BY TracksAssumption DEF Tracks, VideoTracks, TextTracks, RawTracks, TextTrack,
   AudioTrack, NoThread, Primary

\* There are as many video tracks as variants, and at least one.
LEMMA VideoCount ==
    /\ IsFiniteSet(VideoTracks)
    /\ Cardinality(VideoTracks) = Cardinality(Videos)
    /\ Cardinality(VideoTracks) \in Nat \ {0} /\ VideoTracks # {}
    /\ ~IsMultiVariant => \E v : VideoTracks = {v}
<1> DEFINE f == [i \in Videos |-> <<"video", i>>]
<1>1. f \in Bijection(Videos, VideoTracks)
    BY DEF Bijection, Injection, IsInjective, Surjection, VideoTracks
<1>2. IsFiniteSet(VideoTracks) /\ Cardinality(VideoTracks) = Cardinality(Videos)
    BY <1>1, TracksAssumption, FS_Bijection DEF ExistsBijection
<1>3. VideoTracks # {}
    BY TracksAssumption DEF VideoTracks
<1>4. Cardinality(VideoTracks) \in Nat \ {0}
    BY <1>2, <1>3, FS_CardinalityType, FS_EmptySet
<1>5. ASSUME ~IsMultiVariant PROVE \E v : VideoTracks = {v}
  <2>1. Cardinality(VideoTracks) = 1
      BY <1>2, <1>4, <1>5 DEF IsMultiVariant
  <2> QED BY <1>2, <2>1, FS_Singleton
<1> QED BY <1>2, <1>3, <1>4, <1>5

LEMMA SegmentsCounted ==
    /\ \A t : SegmentsOf(t) \in Nat \ {0} /\ SegmentsOf(t) <= MostSegments
    /\ MostSegments \in Nat
BY CountsAssumption DEF SegmentsOf, MostSegments

\* No two tracks write the same playlist file.
LEMMA PlaylistFiles ==
    /\ \A t \in Tracks : PlaylistOf(t) \in PlaylistNames
    /\ \A t, u \in Tracks : PlaylistOf(t) = PlaylistOf(u) => t = u
    /\ \A t \in Tracks : PlaylistOf(t) # t => ~IsMultiVariant /\ t \in VideoTracks
    /\ \A t \in Tracks : PlaylistOf(t) \in {t, Primary}
    /\ IsMultiVariant => \A t \in Tracks : PlaylistOf(t) # Primary
    /\ Primary \in PlaylistNames
    /\ \A p \in PlaylistNames :
          p = Primary \/ (p \in Tracks /\ PlaylistOf(p) = p)
<1>1. \A t, u \in VideoTracks : ~IsMultiVariant => t = u
    BY VideoCount
<1> QED BY <1>1, TrackKinds DEF PlaylistOf, PlaylistNames

\* A playlist, a master manifest and a missing file are told apart.
LEMMA FileKinds ==
    /\ \A t, n, local : /\ Playlist(t, n, local) \notin {NoFile, EmptyFile}
                        /\ ~IsMaster(Playlist(t, n, local))
    /\ \A s, a, x, c : /\ Master(s, a, x, c) # NoFile
                       /\ IsMaster(Master(s, a, x, c))
    /\ ~IsMaster(NoFile) /\ ~IsMaster(EmptyFile) /\ EmptyFile # NoFile
BY DEF Playlist, Master, NoFile, EmptyFile, IsMaster

LEMMA WholePlaylistEnds ==
    ASSUME NEW t, NEW local
    PROVE  Playlist(t, SegmentsOf(t), local).ended
<1> DEFINE whole == SegmentsOf(t) = SegmentsOf(t)
<1>1. Playlist(t, SegmentsOf(t), local).ended = whole
    BY DEF Playlist
<1>2. whole
    OBVIOUS
<1> HIDE DEF whole
<1> QED BY <1>1, <1>2, Zenon

LEMMA PlaylistType ==
    ASSUME NEW t \in Tracks, NEW n \in Nat, NEW local \in BOOLEAN
    PROVE  Playlist(t, n, local) \in Playlists
BY DEF Playlist, Playlists

-----------------------------------------------------------------------------
(* Type correctness and the threads.                                        *)

LEMMA TypeInit == Init => TypeOK
<1> SUFFICES ASSUME Init PROVE TypeOK
    OBVIOUS
<1>1. ctx \in [expected : 0 .. Cardinality(Videos), expectsAudio : BOOLEAN,
               variants : SUBSET VideoTracks, ready : SUBSET VideoTracks,
               audio : BOOLEAN, texts : SUBSET TextTracks, first : BOOLEAN]
    BY VideoCount, TracksAssumption DEF Init
<1>2. /\ segments \in [Tracks -> [Outputs -> 0 .. MostSegments]]
      /\ playlists \in [Outputs -> [PlaylistNames -> Files]]
      /\ combined \in [Outputs -> Masters \cup Files]
    BY CountsAssumption, SegmentsCounted DEF Init, Files
<1>3. /\ seg \in [Tracks -> 0 .. MostSegments]
      /\ out \in [Tracks -> Outputs]
      /\ rebuildAt \in Outputs
      /\ finalAt \in 1 .. OutputCount + 1
      /\ failures \in 0 .. MaxFailures
    BY CountsAssumption, SegmentsCounted DEF Init, Outputs
<1> QED BY <1>1, <1>2, <1>3 DEF Init, TypeOK

\* Where a thread that has finished an output goes.
LEMMA Advances ==
    ASSUME TypeOK, ThreadInv, NEW t \in Tracks, at[t] \in Working, Advance(t)
    PROVE  /\ ThreadTypeOK'
           /\ \A u \in Tracks \ {t} : /\ at'[u] = at[u] /\ seg'[u] = seg[u]
                                      /\ out'[u] = out[u] /\ result'[u] = result[u]
           /\ \/ /\ out[t] < OutputCount /\ out'[t] = out[t] + 1 /\ seg'[t] = seg[t]
                 /\ at'[t] = "segment" /\ result'[t] = "running"
              \/ /\ out[t] = OutputCount /\ out'[t] = 1 /\ seg'[t] = seg[t] + 1
                 /\ seg'[t] < SegmentsOf(t)
                 /\ at'[t] = "segment" /\ result'[t] = "running"
              \/ /\ out[t] = OutputCount /\ out'[t] = 1 /\ seg'[t] = seg[t] + 1
                 /\ seg'[t] = SegmentsOf(t)
                 /\ at'[t] = "done" /\ result'[t] = "ok"
<1>1. seg[t] \in 0 .. MostSegments /\ out[t] \in Outputs /\ result[t] = "running"
    BY DEF TypeOK, ThreadInv, ThreadOK, Working
<1>2. seg[t] < SegmentsOf(t) /\ SegmentsOf(t) \in Nat /\ SegmentsOf(t) <= MostSegments
      /\ MostSegments \in Nat
    BY SegmentsCounted DEF ThreadInv, ThreadOK
<1>3. CASE out[t] # OutputCount
  <2>1. /\ out' = [out EXCEPT ![t] = out[t] + 1] /\ seg' = [seg EXCEPT ![t] = seg[t]]
        /\ at' = [at EXCEPT ![t] = "segment"] /\ result' = [result EXCEPT ![t] = result[t]]
      BY <1>3 DEF Advance
  <2>2. out[t] < OutputCount /\ out[t] + 1 \in Outputs
      BY <1>1, <1>3, CountsAssumption DEF Outputs
  <2> QED BY <1>1, <2>1, <2>2 DEF TypeOK, ThreadTypeOK, Places
<1>4. CASE out[t] = OutputCount /\ seg[t] + 1 # SegmentsOf(t)
  <2>1. /\ out' = [out EXCEPT ![t] = 1] /\ seg' = [seg EXCEPT ![t] = seg[t] + 1]
        /\ at' = [at EXCEPT ![t] = "segment"] /\ result' = [result EXCEPT ![t] = result[t]]
      BY <1>4 DEF Advance
  <2>2. /\ 1 \in Outputs
        /\ seg[t] + 1 \in 0 .. MostSegments /\ seg[t] + 1 < SegmentsOf(t)
      BY <1>1, <1>2, <1>4, CountsAssumption DEF Outputs
  <2> QED BY <1>1, <1>4, <2>1, <2>2 DEF TypeOK, ThreadTypeOK, Places
<1>5. CASE out[t] = OutputCount /\ seg[t] + 1 = SegmentsOf(t)
  <2>1. /\ out' = [out EXCEPT ![t] = 1] /\ seg' = [seg EXCEPT ![t] = seg[t] + 1]
        /\ at' = [at EXCEPT ![t] = "done"] /\ result' = [result EXCEPT ![t] = "ok"]
      BY <1>5 DEF Advance
  <2>2. 1 \in Outputs /\ seg[t] + 1 \in 0 .. MostSegments
      BY <1>1, <1>2, <1>5, CountsAssumption DEF Outputs
  <2> QED BY <1>1, <1>5, <2>1, <2>2 DEF TypeOK, ThreadTypeOK, Places
<1> QED BY <1>3, <1>4, <1>5

\* What thread t does to its own place.
LEMMA Moves ==
    ASSUME TypeOK, ThreadInv, NEW t \in Tracks,
           TrackStep(t) \/ PipelineFails(t) \/ ThreadPanics(t)
    PROVE  /\ at[t] # "done"
           /\ \/ \E place \in Places : Goto(t, place)
              \/ Finish(t, "err") /\ at[t] # "done"
              \/ at[t] \in Working /\ Advance(t)
              \/ UNCHANGED threadVars
<1>1. CASE \/ StartTrack(t) \/ WriteSegment(t) \/ TruncatePlaylist(t)
           \/ SignalAndRebuild(t) \/ ReportFailureAndRebuild(t)
    BY <1>1 DEF StartTrack, WriteSegment, TruncatePlaylist, SignalAndRebuild,
       ReportFailureAndRebuild, Places
<1>2. CASE WritePlaylist(t) \/ SignalOnly(t)
    BY <1>2 DEF WritePlaylist, SignalOnly, Places, Working
<1>3. CASE ReportFailure(t) \/ RebuildOutput(t)
    BY <1>3 DEF ReportFailure, RebuildOutput, Places, Working
<1>4. CASE PipelineFails(t) \/ ThreadPanics(t)
    BY <1>4 DEF PipelineFails, ThreadPanics, CanFail, Places
<1> QED BY <1>1, <1>2, <1>3, <1>4 DEF TrackStep

LEMMA MovesType ==
    ASSUME TypeOK, ThreadInv, NEW t \in Tracks,
           TrackStep(t) \/ PipelineFails(t) \/ ThreadPanics(t)
    PROVE  /\ ThreadTypeOK'
           /\ \A u \in Tracks \ {t} : /\ at'[u] = at[u] /\ seg'[u] = seg[u]
                                      /\ out'[u] = out[u] /\ result'[u] = result[u]
<1>1. ASSUME NEW place \in Places, Goto(t, place)
      PROVE  /\ ThreadTypeOK'
             /\ \A u \in Tracks \ {t} : /\ at'[u] = at[u] /\ seg'[u] = seg[u]
                                        /\ out'[u] = out[u] /\ result'[u] = result[u]
    BY <1>1 DEF Goto, TypeOK, ThreadTypeOK, Places
<1>2. CASE Finish(t, "err") \/ UNCHANGED threadVars
    BY <1>2 DEF Finish, TypeOK, ThreadTypeOK, Places, threadVars
<1>3. CASE at[t] \in Working /\ Advance(t)
    BY <1>3, Advances
<1> QED BY <1>1, <1>2, <1>3, Moves

\* A thread's own place stays as the invariant says.
LEMMA MovesOK ==
    ASSUME TypeOK, ThreadInv, NEW t \in Tracks,
           TrackStep(t) \/ PipelineFails(t) \/ ThreadPanics(t)
    PROVE  ThreadOK(t)' /\ inits \subseteq inits'
<1> USE DEF ThreadOK, Working
<1>0. ThreadOK(t) /\ at \in [Tracks -> Places] /\ result \in [Tracks -> {"running", "ok", "err"}]
    BY DEF ThreadInv, TypeOK, Places
<1>1. CASE StartTrack(t)
    BY <1>0, <1>1, SegmentsCounted DEF StartTrack, Goto
<1>2. CASE WriteSegment(t) \/ TruncatePlaylist(t) \/ SignalAndRebuild(t)
    BY <1>0, <1>2 DEF WriteSegment, TruncatePlaylist, SignalAndRebuild, BeginRebuild, Goto,
       diskVars, trackFiles
<1>3. CASE WritePlaylist(t) /\ ~Advance(t)
    BY <1>0, <1>3 DEF WritePlaylist, Goto
<1>4. CASE ReportFailure(t) \/ ReportFailureAndRebuild(t)
    BY <1>0, <1>4 DEF ReportFailure, ReportFailureAndRebuild, BeginRebuild, Goto, Finish,
       diskVars, trackFiles
<1>5. CASE RebuildOutput(t) /\ (at[t] = "rebuildFailed" \/ UNCHANGED threadVars)
    BY <1>0, <1>5 DEF RebuildOutput, Finish, trackFiles, threadVars
<1>6. CASE PipelineFails(t) \/ ThreadPanics(t)
    BY <1>0, <1>6 DEF PipelineFails, ThreadPanics, CanFail, Goto, Finish, diskVars, trackFiles
<1>7. CASE Advance(t) /\ (WritePlaylist(t) \/ SignalOnly(t) \/ (RebuildOutput(t) /\ at[t] = "rebuild"))
  <2>1. at[t] \in Working
      BY <1>7 DEF WritePlaylist, SignalOnly
  <2>2. inits' = inits
      BY <1>7 DEF WritePlaylist, SignalOnly, RebuildOutput, diskVars, trackFiles
  <2>3. t \in inits \cup RawTracks
      BY <2>1, <1>0
  <2>4. SegmentsOf(t) \in Nat \ {0} /\ seg[t] \in 0 .. MostSegments
      BY SegmentsCounted DEF TypeOK
  <2>5. /\ at'[t] = "segment" \/ at'[t] = "done"
        /\ at'[t] = "done" <=> result'[t] # "running"
        /\ at'[t] = "done" => seg'[t] = SegmentsOf(t) /\ out'[t] = 1
        /\ at'[t] = "segment" => seg'[t] < SegmentsOf(t)
      <3>1. Advance(t)
          BY <1>7
      <3> QED BY <1>0, <2>1, <2>4, <3>1, Advances
  <2> QED BY <2>2, <2>3, <2>5
<1>8. SignalOnly(t) => Advance(t)
    BY DEF SignalOnly
<1>9. ASSUME RebuildOutput(t), at[t] # "rebuildFailed", ~UNCHANGED threadVars
      PROVE  at[t] = "rebuild" /\ Advance(t)
    BY <1>9 DEF RebuildOutput
<1> QED BY <1>1, <1>2, <1>3, <1>4, <1>5, <1>6, <1>7, <1>8, <1>9 DEF TrackStep

\* What the main thread, the flusher and stuttering leave alone.
LEMMA OtherSteps ==
    ASSUME MainStep \/ FlusherStep \/ Terminated \/ UNCHANGED vars
    PROVE  UNCHANGED <<threadVars, inits, segments, lock, rebuildAt, playbackReady, failures>>
<1> USE DEF diskVars, trackFiles, ctxVars
<1>1. CASE MainStep
    BY <1>1 DEF MainStep, JoinTracks, CategoriseResult, WriteFailed, FinalizeVariants,
       WriteFinalPlaylists, WriteFinalManifest, WriteComplete
<1>2. CASE FlusherStep \/ Terminated \/ UNCHANGED vars
    BY <1>2 DEF FlusherStep, PollStop, FlushProgress, Terminated, vars
<1> QED BY <1>1, <1>2

LEMMA ThreadStep ==
    ASSUME TypeOK, ThreadInv, [Next]_vars
    PROVE  ThreadTypeOK' /\ ThreadInv'
<1>1. ASSUME NEW t \in Tracks, TrackStep(t) \/ PipelineFails(t) \/ ThreadPanics(t)
      PROVE  ThreadTypeOK' /\ ThreadInv'
  <2>1. ASSUME NEW u \in Tracks, u # t PROVE ThreadOK(u)'
      BY <1>1, <2>1, MovesType, MovesOK DEF ThreadInv, ThreadOK
  <2> QED BY <1>1, <2>1, MovesType, MovesOK DEF ThreadInv
<1>2. CASE MainStep \/ FlusherStep \/ Terminated \/ UNCHANGED vars
    BY <1>2, OtherSteps DEF threadVars, TypeOK, ThreadTypeOK, Places, ThreadInv, ThreadOK
<1> QED BY <1>1, <1>2 DEF Next

ContextType ==
    [expected : 0 .. Cardinality(Videos), expectsAudio : BOOLEAN,
     variants : SUBSET VideoTracks, ready : SUBSET VideoTracks,
     audio : BOOLEAN, texts : SUBSET TextTracks, first : BOOLEAN]

\* A signal changes its own fields of the context, within their types.
LEMMA SignalTypes ==
    ASSUME NEW c \in ContextType, NEW t \in Tracks
    PROVE  /\ SignalManifest(c, t) \in ContextType
           /\ SignalFailed(c, t) \in ContextType
           /\ [c EXCEPT !.first = TRUE] \in ContextType
<1>1. Cardinality(Videos) \in Nat
    BY VideoCount
<1>2. c.expected \in 0 .. Cardinality(Videos)
    BY DEF ContextType
<1>3. (IF c.expected > 0 THEN c.expected - 1 ELSE 0) \in 0 .. Cardinality(Videos)
    BY <1>1, <1>2
<1>4. SignalFailed(c, t) \in ContextType
    BY <1>3 DEF SignalFailed, SignalVideoFailed, SignalAudioFailed, ContextType
<1>5. SignalManifest(c, t) \in ContextType
    BY DEF SignalManifest, SignalVideoManifest, SignalTextManifest, SignalAudioManifest,
       ContextType
<1> QED BY <1>4, <1>5 DEF ContextType

LEMMA StreamNames ==
    ASSUME NEW S \in SUBSET VideoTracks
    PROVE  /\ IsFiniteSet(S) /\ Cardinality(S) \in Nat
           /\ Cardinality(S) <= Cardinality(VideoTracks)
           /\ Streams(S) \subseteq PlaylistNames
           /\ ~IsMultiVariant => Streams(S) = {Primary}
<1>1. IsFiniteSet(S) /\ Cardinality(S) <= Cardinality(VideoTracks)
    BY VideoCount, FS_Subset
<1>2. Cardinality(S) \in Nat
    BY <1>1, FS_CardinalityType
<1>3. Cardinality(S) > 1 => IsMultiVariant
    BY <1>1, <1>2, VideoCount DEF IsMultiVariant
<1>4. IsMultiVariant => VideoTracks \subseteq PlaylistNames
    BY TrackKinds, PlaylistFiles
<1> QED BY <1>1, <1>2, <1>3, <1>4, PlaylistFiles DEF Streams

LEMMA FinalContextType ==
    ASSUME TypeOK
    PROVE  FinalContext(ctx) \in ContextType
<1>1. ctx \in ContextType
    BY DEF TypeOK, ContextType
<1>2. Succeeded(VideoTracks) \in SUBSET VideoTracks
    BY DEF Succeeded
<1>3. Cardinality(Succeeded(VideoTracks)) \in 0 .. Cardinality(Videos)
    BY <1>2, StreamNames, VideoCount
<1> QED BY <1>1, <1>2, <1>3 DEF FinalContext, ContextType

LEMMA ManifestTypes ==
    ASSUME TypeOK, NEW o \in Outputs
    PROVE  /\ \A c \in ContextType : ProgressiveMaster(c, o) \in Masters
           /\ FinalManifest(o) \in Masters \cup Files
<1>1. ASSUME NEW S \in SUBSET VideoTracks, NEW a \in BOOLEAN,
             NEW T \in SUBSET TextTracks, NEW done \in BOOLEAN
      PROVE  Master(Streams(S), a, T, done) \in Masters
    BY StreamNames DEF Master, Masters
<1>2. ASSUME NEW c \in ContextType PROVE ProgressiveMaster(c, o) \in Masters
  <2>1. /\ (IF IsMultiVariant THEN c.variants \cap c.ready ELSE c.variants) \in SUBSET VideoTracks
        /\ (c.audio /\ AudioIsRead(o)) \in BOOLEAN
        /\ (c.texts \cup RawTracks) \in SUBSET TextTracks
      BY TrackKinds DEF ContextType, AudioIsRead
  <2> QED BY <1>1, <2>1 DEF ProgressiveMaster
<1>3. FinalManifest(o) \in Masters \cup Files
  <2>1. /\ Succeeded(VideoTracks) \in SUBSET VideoTracks
        /\ (HasAudio /\ result[AudioTrack] = "ok") \in BOOLEAN
        /\ (Succeeded(TextTracks) \cup RawTracks) \in SUBSET TextTracks
      BY TrackKinds DEF Succeeded
  <2>2. playlists[o][Primary] \in Files
      BY PlaylistFiles DEF TypeOK
  <2> QED BY <1>1, <2>1, <2>2 DEF FinalManifest
<1> QED BY <1>2, <1>3

\* What each action of a thread leaves alone, and the ways it can end.
LEMMA ThreadFrame ==
    ASSUME NEW t \in Tracks, TrackStep(t) \/ PipelineFails(t) \/ ThreadPanics(t)
    PROVE  /\ UNCHANGED <<mainVars, statusVars>>
           /\ StartTrack(t) \/ inits' = inits
           /\ WriteSegment(t) \/ segments' = segments
           /\ TruncatePlaylist(t) \/ WritePlaylist(t) \/ playlists' = playlists
           /\ RebuildOutput(t) \/ (combined' = combined /\ playbackReady' = playbackReady)
           /\ \/ RebuildOutput(t)
              \/ UNCHANGED <<lock, rebuildAt>>
              \/ lock = NoThread /\ lock' = t /\ rebuildAt' = 1
           /\ \/ ctx' = ctx
              \/ SignalOnly(t) \/ SignalAndRebuild(t)
              \/ ReportFailure(t) \/ ReportFailureAndRebuild(t)
           /\ \/ failures' = failures
              \/ failures < MaxFailures /\ failures' = failures + 1
<1> USE DEF diskVars, trackFiles, ctxVars
<1>1. CASE StartTrack(t) \/ WriteSegment(t) \/ TruncatePlaylist(t) \/ WritePlaylist(t)
    BY <1>1 DEF StartTrack, WriteSegment, TruncatePlaylist, WritePlaylist
<1>2. CASE SignalOnly(t) \/ ReportFailure(t)
    BY <1>2 DEF SignalOnly, ReportFailure
<1>3. CASE SignalAndRebuild(t) \/ ReportFailureAndRebuild(t)
    BY <1>3 DEF SignalAndRebuild, ReportFailureAndRebuild, BeginRebuild, LockFree
<1>4. CASE RebuildOutput(t)
    BY <1>4 DEF RebuildOutput
<1>5. CASE PipelineFails(t) \/ ThreadPanics(t)
    BY <1>5 DEF PipelineFails, ThreadPanics, CanFail
<1> QED BY <1>1, <1>2, <1>3, <1>4, <1>5 DEF TrackStep

LEMMA ThreadTypes ==
    ASSUME TypeOK, ThreadInv, NEW t \in Tracks,
           TrackStep(t) \/ PipelineFails(t) \/ ThreadPanics(t)
    PROVE  TypeOK'
<1>1. ThreadTypeOK'
    BY MovesType
<1>2. inits' \subseteq Tracks
    BY ThreadFrame DEF TypeOK, StartTrack
<1>3. segments' \in [Tracks -> [Outputs -> 0 .. MostSegments]]
  <2>1. CASE WriteSegment(t)
    <3>1. seg[t] + 1 \in 0 .. MostSegments
        BY <2>1, SegmentsCounted, CountsAssumption
        DEF WriteSegment, TypeOK, ThreadInv, ThreadOK, Working
    <3> QED BY <2>1, <3>1 DEF WriteSegment, TypeOK
  <2> QED BY <2>1, ThreadFrame DEF TypeOK
<1>4. playlists' \in [Outputs -> [PlaylistNames -> Files]]
  <2>1. CASE WritePlaylist(t)
    <3>1. seg[t] + 1 \in Nat
        BY DEF TypeOK
    <3>2. Playlist(t, seg[t] + 1, TRUE) \in Playlists
        BY <3>1, PlaylistType
    <3> QED BY <2>1, <3>2, PlaylistFiles DEF WritePlaylist, TypeOK, Files
  <2>2. CASE TruncatePlaylist(t)
      BY <2>2, PlaylistFiles DEF TruncatePlaylist, TypeOK, Files
  <2> QED BY <2>1, <2>2, ThreadFrame DEF TypeOK
<1>5. combined' \in [Outputs -> Masters \cup Files]
  <2>1. CASE RebuildOutput(t)
    <3>1. ProgressiveMaster(ctx, rebuildAt) \in Masters
        BY ManifestTypes DEF TypeOK, ContextType
    <3> QED BY <2>1, <3>1 DEF RebuildOutput, TypeOK
  <2> QED BY <2>1, ThreadFrame DEF TypeOK
<1>6. ctx' \in ContextType
  <2>1. ctx \in ContextType
      BY DEF TypeOK, ContextType
  <2>2. /\ SignalManifest(ctx, t) \in ContextType /\ SignalFailed(ctx, t) \in ContextType
        /\ [SignalManifest(ctx, t) EXCEPT !.first = TRUE] \in ContextType
        /\ [SignalFailed(ctx, t) EXCEPT !.first = TRUE] \in ContextType
      BY <2>1, SignalTypes
  <2> QED BY <2>1, <2>2, ThreadFrame
      DEF SignalOnly, SignalAndRebuild, ReportFailure, ReportFailureAndRebuild, BeginRebuild
<1>7. lock' \in Tracks \cup {NoThread} /\ rebuildAt' \in Outputs /\ playbackReady' \in BOOLEAN
  <2>1. CASE RebuildOutput(t)
    <3>1. rebuildAt < OutputCount => rebuildAt + 1 \in Outputs
        BY CountsAssumption DEF TypeOK, Outputs
    <3>2. 1 \in Outputs
        BY CountsAssumption DEF Outputs
    <3>3. lock' \in Tracks \cup {NoThread}
        BY <2>1 DEF RebuildOutput, TypeOK
    <3>4. rebuildAt' \in Outputs
        BY <2>1, <3>1, <3>2 DEF RebuildOutput
    <3>5. playbackReady' \in BOOLEAN
        BY <2>1 DEF RebuildOutput, TypeOK
    <3> QED BY <3>3, <3>4, <3>5
  <2>2. CASE ~RebuildOutput(t)
    <3>1. /\ lock' = lock \/ lock' = t
          /\ rebuildAt' = rebuildAt \/ rebuildAt' = 1
          /\ playbackReady' = playbackReady
        BY <2>2, ThreadFrame
    <3>2. 1 \in Outputs
        BY CountsAssumption DEF Outputs
    <3> QED BY <3>1, <3>2 DEF TypeOK
  <2> QED BY <2>1, <2>2
<1>8. failures' \in 0 .. MaxFailures
  <2>1. failures \in 0 .. MaxFailures
      BY DEF TypeOK
  <2> QED BY <2>1, ThreadFrame, CountsAssumption
<1>9. UNCHANGED <<mainVars, statusVars>>
    BY ThreadFrame
<1> QED BY <1>1, <1>2, <1>3, <1>4, <1>5, <1>6, <1>7, <1>8, <1>9
    DEF TypeOK, ThreadTypeOK, Places, ContextType, mainVars, statusVars

\* The primary track is the first variant that succeeded.
LEMMA PrimaryIsVideo ==
    ASSUME Succeeded(VideoTracks) # {}
    PROVE  PrimaryTrack \in Succeeded(VideoTracks)
<1> DEFINE S == {i \in Videos : result[<<"video", i>>] = "ok"}
<1>1. S # {} /\ S \subseteq Nat
    BY TracksAssumption DEF Succeeded, VideoTracks
<1>2. PICK i \in S : \A j \in S : i <= j
    BY <1>1, LeastNatural
<1>3. /\ <<"video", i>> \in Succeeded(VideoTracks)
      /\ \A u \in Succeeded(VideoTracks) : <<"video", i>>[2] <= u[2]
    BY <1>2 DEF Succeeded, VideoTracks
<1> QED BY <1>3 DEF PrimaryTrack

LEMMA MainTypes ==
    ASSUME TypeOK, ThreadInv, LockInv, FinalInv, MainStep
    PROVE  TypeOK'
<1>1. UNCHANGED <<threadVars, inits, segments, lock, rebuildAt, playbackReady, failures>>
    BY OtherSteps
<1>2. ctx \in ContextType
    BY DEF TypeOK, ContextType
<1>3. ASSUME NEW c \in ContextType, RebuildAll(c)
      PROVE  /\ ctx' \in ContextType
             /\ combined' \in [Outputs -> Masters \cup Files]
  <2>1. combined \in [Outputs -> Masters \cup Files]
      BY DEF TypeOK
  <2>2. CASE MustRebuild(c)
    <3>1. /\ ctx' = [c EXCEPT !.first = TRUE]
          /\ combined' = [o \in Outputs |-> ProgressiveMaster(c, o)]
        BY <1>3, <2>2 DEF RebuildAll
    <3>2. ctx' \in ContextType
        BY <3>1 DEF ContextType
    <3> QED BY <3>1, <3>2, ManifestTypes
  <2>3. CASE ~MustRebuild(c)
      BY <1>3, <2>1, <2>3 DEF RebuildAll
  <2> QED BY <2>2, <2>3
<1>4. ctx' \in ContextType /\ combined' \in [Outputs -> Masters \cup Files]
  <2>1. ASSUME NEW t \in Tracks, CategoriseResult(t)
        PROVE  /\ ctx' \in ContextType
               /\ combined' \in [Outputs -> Masters \cup Files]
      BY <2>1, <1>2, <1>3, SignalTypes DEF CategoriseResult, TypeOK
  <2>2. CASE FinalizeVariants
    <3>1. FinalContext(ctx) \in ContextType
        BY FinalContextType
    <3> QED BY <2>2, <3>1, <1>2, <1>3 DEF FinalizeVariants, TypeOK
  <2>3. CASE WriteFinalManifest
    <3>1. finalAt \in Outputs
        BY <2>3 DEF WriteFinalManifest, FinalInv
    <3> QED BY <2>3, <3>1, <1>2, ManifestTypes DEF WriteFinalManifest, TypeOK, ctxVars
  <2>4. CASE JoinTracks \/ WriteFailed \/ WriteFinalPlaylists \/ WriteComplete
      BY <2>4, <1>2 DEF JoinTracks, WriteFailed, WriteFinalPlaylists, WriteComplete,
         diskVars, ctxVars, TypeOK
  <2> QED BY <2>1, <2>2, <2>3, <2>4 DEF MainStep
<1>5. playlists' \in [Outputs -> [PlaylistNames -> Files]]
  <2>1. ASSUME NEW t \in Succeeded(Tracks)
        PROVE  \A local \in BOOLEAN : Playlist(t, SegmentsOf(t), local) \in Playlists
      BY PlaylistType, SegmentsCounted DEF Succeeded
  <2>2. CASE FinalizeVariants
    <3>1. Succeeded(VideoTracks) \subseteq Succeeded(Tracks)
        BY TrackKinds DEF Succeeded
    <3>2. playlists \in [Outputs -> [PlaylistNames -> Files]]
        BY DEF TypeOK
    <3>3. CASE playlists' = playlists
        BY <3>2, <3>3
    <3>4. CASE playlists' = [o \in Outputs |-> [p \in PlaylistNames |->
                  IF p \in Succeeded(VideoTracks)
                  THEN Playlist(p, SegmentsOf(p), TRUE) ELSE playlists[o][p]]]
        BY <2>1, <3>1, <3>2, <3>4 DEF Files
    <3> QED BY <2>2, <3>3, <3>4 DEF FinalizeVariants
  <2>3. CASE WriteFinalPlaylists
    <3>1. PrimaryTrack \in Succeeded(VideoTracks)
        BY <2>3, PrimaryIsVideo DEF WriteFinalPlaylists, FinalInv
    <3>2. finalAt \in Outputs
        BY <2>3 DEF WriteFinalPlaylists, FinalInv
    <3>3. \A p \in PlaylistNames :
              FinalPlaylist(p, playlists[finalAt][p]) \in Files
      <4>1. playlists[finalAt] \in [PlaylistNames -> Files]
          BY <3>2 DEF TypeOK
      <4>2. PrimaryTrack \in Succeeded(Tracks)
          BY <3>1, TrackKinds DEF Succeeded
      <4>3. \A p \in Succeeded(Tracks \ (VideoTracks \cup RawTracks)) : p \in Succeeded(Tracks)
          BY DEF Succeeded
      <4>4. Playlist(PrimaryTrack, SegmentsOf(PrimaryTrack), ~IsMultiVariant) \in Playlists
        <5>1. (~IsMultiVariant) \in BOOLEAN
            BY DEF IsMultiVariant
        <5> QED BY <2>1, <4>2, <5>1, Zenon
      <4> QED BY <2>1, <4>1, <4>3, <4>4 DEF FinalPlaylist, Files
    <3> QED BY <2>3, <3>3 DEF WriteFinalPlaylists, TypeOK
  <2>4. CASE UNCHANGED playlists
      BY <2>4 DEF TypeOK
  <2> QED BY <2>2, <2>3, <2>4 DEF MainStep, JoinTracks, CategoriseResult, WriteFailed,
      WriteFinalManifest, WriteComplete, diskVars, trackFiles
<1>6. /\ main' \in {"join", "categorise", "final", "finalMaster", "complete", "done"}
      /\ joined' \subseteq Tracks
      /\ finalAt' \in 1 .. OutputCount + 1
      /\ status' \in [state : {"Processing", "Complete", "Failed"}, ready : BOOLEAN]
      /\ stop' \in BOOLEAN
      /\ flusher' \in {"sleep", "write", "stopped"}
      /\ flushReady' \in BOOLEAN
  <2>1. CASE WriteFinalManifest
    <3>1. finalAt \in Outputs
        BY <2>1 DEF WriteFinalManifest, FinalInv
    <3>2. finalAt + 1 \in 1 .. OutputCount + 1
        BY <3>1, CountsAssumption DEF Outputs
    <3> QED BY <2>1, <3>2 DEF WriteFinalManifest, statusVars, TypeOK
  <2>2. CASE JoinTracks \/ \E t \in Tracks : CategoriseResult(t)
    <3>1. /\ main' \in {main, "categorise"} /\ joined' \subseteq Tracks
          /\ stop' \in BOOLEAN /\ finalAt' = finalAt
          /\ UNCHANGED <<status, flusher, flushReady>>
        BY <2>2 DEF JoinTracks, CategoriseResult, statusVars, TypeOK
    <3> QED BY <3>1 DEF TypeOK
  <2>3. CASE WriteFailed \/ WriteComplete
    <3>1. /\ main' = "done"
          /\ UNCHANGED <<joined, finalAt, stop, flusher, flushReady>>
        BY <2>3 DEF WriteFailed, WriteComplete
    <3>2. \/ status' = [state |-> "Failed", ready |-> FALSE]
          \/ status' = [state |-> "Complete", ready |-> FALSE]
        BY <2>3 DEF WriteFailed, WriteComplete
    <3>3. [state |-> "Failed", ready |-> FALSE]
              \in [state : {"Processing", "Complete", "Failed"}, ready : BOOLEAN]
        OBVIOUS
    <3>4. [state |-> "Complete", ready |-> FALSE]
              \in [state : {"Processing", "Complete", "Failed"}, ready : BOOLEAN]
        OBVIOUS
    <3>5. status' \in [state : {"Processing", "Complete", "Failed"}, ready : BOOLEAN]
        BY <3>2, <3>3, <3>4, Zenon
    <3> QED BY <3>1, <3>5 DEF TypeOK
  <2>4. CASE FinalizeVariants \/ WriteFinalPlaylists
      BY <2>4 DEF FinalizeVariants, WriteFinalPlaylists, statusVars, TypeOK
  <2> QED BY <2>1, <2>2, <2>3, <2>4 DEF MainStep
<1> QED BY <1>1, <1>4, <1>5, <1>6 DEF TypeOK, ContextType, threadVars

LEMMA TypeStep ==
    ASSUME TypeOK, ThreadInv, LockInv, FinalInv, [Next]_vars
    PROVE  TypeOK'
<1>1. CASE FlusherStep \/ Terminated \/ UNCHANGED vars
    BY <1>1 DEF FlusherStep, PollStop, FlushProgress, Terminated, vars, threadVars, diskVars,
       trackFiles, ctxVars, mainVars, statusVars, TypeOK
<1> QED BY <1>1, ThreadTypes, MainTypes DEF Next

-----------------------------------------------------------------------------
(* The files of the tracks.                                                 *)

LEMMA CountTypes ==
    ASSUME TypeOK, NEW t \in Tracks, NEW o \in Outputs
    PROVE  /\ OnDisk(t, o) \in Nat /\ Listed(t, o) \in Nat
           /\ Listed(t, o) <= OnDisk(t, o)
           /\ seg[t] <= Listed(t, o)
           /\ Listed(t, o) > 0 => seg[t] > 0 \/ out[t] > 1 \/ at[t] \in {"signal", "rebuild"}
<1>1. seg[t] \in Nat /\ out[t] \in Nat /\ o \in Nat /\ o >= 1
    BY CountsAssumption DEF TypeOK, Outputs
<1> QED BY <1>1 DEF OnDisk, Listed, Past

\* Nothing of a segment is under way when its thread is at none of the places.
LEMMA Idle ==
    ASSUME TypeOK, ThreadInv, NEW t \in Tracks, at[t] \notin Working, NEW o \in Outputs
    PROVE  OnDisk(t, o) = seg[t] /\ Listed(t, o) = seg[t]
<1>1. seg[t] \in Nat /\ out[t] = 1 /\ o \in Nat /\ o >= 1
    BY CountsAssumption DEF TypeOK, Outputs, ThreadInv, ThreadOK
<1> QED BY <1>1 DEF OnDisk, Listed, Past, Working

\* What a thread's step adds to an output's files.
LEMMA CountSteps ==
    ASSUME TypeOK, ThreadInv, NEW t \in Tracks, NEW o \in Outputs,
           TrackStep(t) \/ PipelineFails(t) \/ ThreadPanics(t)
    PROVE  /\ OnDisk(t, o)' = IF WriteSegment(t) /\ o = out[t] THEN seg[t] + 1 ELSE OnDisk(t, o)
           /\ Listed(t, o)' = IF WritePlaylist(t) /\ o = out[t] THEN seg[t] + 1 ELSE Listed(t, o)
<1> USE DEF OnDisk, Listed, Past
<1>0. /\ seg[t] \in Nat /\ out[t] \in 1 .. OutputCount /\ o \in 1 .. OutputCount
      /\ OutputCount \in Nat
      /\ at \in [Tracks -> Places]
      /\ at[t] \notin Working => out[t] = 1
    BY CountsAssumption DEF TypeOK, Outputs, ThreadInv, ThreadOK, Places
<1>1. CASE StartTrack(t) \/ TruncatePlaylist(t)
    BY <1>0, <1>1 DEF StartTrack, TruncatePlaylist, WriteSegment, WritePlaylist, Goto, Working
<1>2. CASE WriteSegment(t)
    BY <1>0, <1>2 DEF WriteSegment, WritePlaylist, Goto
<1>3. CASE WritePlaylist(t) /\ ~(t \in RawTracks /\ out[t] < OutputCount)
    BY <1>0, <1>3 DEF WriteSegment, WritePlaylist, Goto
<1>4. CASE WritePlaylist(t) /\ t \in RawTracks /\ out[t] < OutputCount
  <2>1. Advance(t) /\ at[t] = "write" /\ ~WriteSegment(t)
      BY <1>4 DEF WritePlaylist, WriteSegment
  <2>2. out'[t] = out[t] + 1 /\ seg'[t] = seg[t] /\ at'[t] = "segment"
      BY <1>0, <1>4, <2>1, Advances DEF Working
  <2> QED BY <1>0, <1>4, <2>1, <2>2
<1>5. CASE at[t] \in {"signal", "rebuild"} /\ Advance(t)
  <2>1. ~WriteSegment(t) /\ ~WritePlaylist(t)
      BY <1>5 DEF WriteSegment, WritePlaylist
  <2>2. \/ out[t] < OutputCount /\ out'[t] = out[t] + 1 /\ seg'[t] = seg[t] /\ at'[t] = "segment"
        \/ /\ out[t] = OutputCount /\ out'[t] = 1 /\ seg'[t] = seg[t] + 1
           /\ at'[t] \in {"segment", "done"}
      BY <1>5, Advances DEF Working
  <2> QED BY <1>0, <1>5, <2>1, <2>2
<1>6. CASE SignalAndRebuild(t)
    BY <1>0, <1>6 DEF SignalAndRebuild, WriteSegment, WritePlaylist, Goto
<1>7. CASE ReportFailure(t) \/ ReportFailureAndRebuild(t)
    BY <1>0, <1>7 DEF ReportFailure, ReportFailureAndRebuild, WriteSegment, WritePlaylist,
       Goto, Finish, Working
<1>8. CASE RebuildOutput(t) /\ (at[t] = "rebuildFailed" \/ UNCHANGED threadVars)
    BY <1>0, <1>8 DEF RebuildOutput, WriteSegment, WritePlaylist, Finish, threadVars, Working
<1>9. CASE PipelineFails(t) \/ ThreadPanics(t)
  <2>1. /\ UNCHANGED <<seg, out>> /\ at[t] \in {"start", "segment"} /\ out[t] = 1
        /\ at'[t] \in {"failed", "done"} /\ UNCHANGED <<segments, playlists>>
      BY <1>0, <1>9 DEF PipelineFails, ThreadPanics, CanFail, Goto, Finish, Working, diskVars,
         trackFiles
  <2>2. ~WriteSegment(t) /\ ~WritePlaylist(t)
      BY <1>0, <2>1 DEF WriteSegment, WritePlaylist, Goto
  <2> QED BY <1>0, <2>1, <2>2
<1>10. SignalOnly(t) => at[t] = "signal" /\ Advance(t)
    BY DEF SignalOnly
<1>11. ASSUME RebuildOutput(t), at[t] # "rebuildFailed", ~UNCHANGED threadVars
       PROVE  at[t] = "rebuild" /\ Advance(t)
    BY <1>11 DEF RebuildOutput
<1> QED BY <1>1, <1>2, <1>3, <1>4, <1>5, <1>6, <1>7, <1>8, <1>9, <1>10, <1>11 DEF TrackStep

\* A playlist is empty only between the two steps that write it.
LEMMA RewritingSteps ==
    ASSUME TypeOK, ThreadInv, NEW t \in Tracks, NEW o \in Outputs,
           TrackStep(t) \/ PipelineFails(t) \/ ThreadPanics(t)
    PROVE  /\ Rewriting(t, o)' <=> TruncatePlaylist(t) /\ o = out[t]
           /\ Rewriting(t, o) => WritePlaylist(t) /\ o = out[t] /\ ~TruncatePlaylist(t)
<1>0. at \in [Tracks -> Places]
    BY DEF TypeOK, Places
<1>1. CASE TruncatePlaylist(t)
    BY <1>0, <1>1 DEF TruncatePlaylist, Goto, Rewriting
<1>2. CASE ~TruncatePlaylist(t)
  <2>1. at'[t] # "write" /\ (at[t] = "write" => WritePlaylist(t))
    <3>1. CASE StartTrack(t) \/ WriteSegment(t)
        BY <1>0, <3>1 DEF StartTrack, WriteSegment, Goto
    <3>2. CASE WritePlaylist(t)
        BY <1>0, <3>2 DEF WritePlaylist, Advance, Goto
    <3>3. CASE SignalOnly(t) \/ SignalAndRebuild(t)
        BY <1>0, <3>3 DEF SignalOnly, SignalAndRebuild, Advance, Goto
    <3>4. CASE ReportFailure(t) \/ ReportFailureAndRebuild(t)
        BY <1>0, <3>4 DEF ReportFailure, ReportFailureAndRebuild, Finish, Goto
    <3>5. CASE RebuildOutput(t)
        BY <1>0, <3>5 DEF RebuildOutput, Advance, Finish, threadVars
    <3>6. CASE PipelineFails(t) \/ ThreadPanics(t)
        BY <1>0, <3>6 DEF PipelineFails, ThreadPanics, CanFail, Finish, Goto
    <3> QED BY <1>2, <3>1, <3>2, <3>3, <3>4, <3>5, <3>6 DEF TrackStep
  <2> QED BY <1>2, <2>1 DEF Rewriting
<1> QED BY <1>1, <1>2

LEMMA FileInit == Init => FileInv /\ PrimaryInv
<1> SUFFICES ASSUME Init PROVE FileInv /\ PrimaryInv
    OBVIOUS
<1>1. ASSUME NEW t \in Tracks, NEW o \in Outputs
      PROVE  OnDisk(t, o) = 0 /\ Listed(t, o) = 0 /\ ~Rewriting(t, o)
    BY <1>1, CountsAssumption DEF Init, OnDisk, Listed, Past, Outputs, Rewriting
<1> QED BY <1>1, PlaylistFiles DEF Init, FileInv, FileOf, PrimaryInv

\* What a thread's step writes to one file.
LEMMA FileWrites ==
    ASSUME TypeOK, NEW t \in Tracks, NEW o \in Outputs,
           TrackStep(t) \/ PipelineFails(t) \/ ThreadPanics(t)
    PROVE  /\ \A u \in Tracks : segments'[u][o] =
               IF WriteSegment(t) /\ o = out[t] /\ u = t THEN seg[t] + 1 ELSE segments[u][o]
           /\ \A p \in PlaylistNames : playlists'[o][p] =
               IF p # PlaylistOf(t) \/ o # out[t] THEN playlists[o][p]
               ELSE IF WritePlaylist(t) THEN Playlist(t, seg[t] + 1, TRUE)
               ELSE IF TruncatePlaylist(t) THEN EmptyFile ELSE playlists[o][p]
<1>1. CASE WriteSegment(t)
  <2>1. /\ segments' = [segments EXCEPT ![t][out[t]] = seg[t] + 1]
        /\ playlists' = playlists /\ ~WritePlaylist(t) /\ ~TruncatePlaylist(t)
      BY <1>1 DEF WriteSegment, WritePlaylist, TruncatePlaylist
  <2>2. segments \in [Tracks -> [Outputs -> 0 .. MostSegments]]
      BY DEF TypeOK
  <2> QED BY <1>1, <2>1, <2>2
<1>2. CASE WritePlaylist(t)
  <2>1. /\ playlists' = [playlists EXCEPT ![out[t]][PlaylistOf(t)] = Playlist(t, seg[t] + 1, TRUE)]
        /\ segments' = segments /\ ~WriteSegment(t)
      BY <1>2 DEF WriteSegment, WritePlaylist
  <2>2. /\ playlists \in [Outputs -> [PlaylistNames -> Files]]
        /\ PlaylistOf(t) \in PlaylistNames
      BY PlaylistFiles DEF TypeOK
  <2> QED BY <1>2, <2>1, <2>2
<1>3. CASE TruncatePlaylist(t)
  <2>1. /\ playlists' = [playlists EXCEPT ![out[t]][PlaylistOf(t)] = EmptyFile]
        /\ segments' = segments /\ ~WriteSegment(t) /\ ~WritePlaylist(t)
      BY <1>3 DEF WriteSegment, WritePlaylist, TruncatePlaylist
  <2>2. /\ playlists \in [Outputs -> [PlaylistNames -> Files]]
        /\ PlaylistOf(t) \in PlaylistNames
      BY PlaylistFiles DEF TypeOK
  <2> QED BY <1>3, <2>1, <2>2
<1> QED BY <1>1, <1>2, <1>3, ThreadFrame

LEMMA FileThread ==
    ASSUME TypeOK, ThreadInv, FileInv, NEW t \in Tracks,
           TrackStep(t) \/ PipelineFails(t) \/ ThreadPanics(t)
    PROVE  FileInv'
<1> SUFFICES ASSUME NEW u \in Tracks, NEW o \in Outputs
             PROVE  /\ segments'[u][o] = OnDisk(u, o)'
                    /\ playlists'[o][PlaylistOf(u)] = FileOf(u, o)'
    BY DEF FileInv
<1>1. /\ segments[u][o] = OnDisk(u, o)
      /\ playlists[o][PlaylistOf(u)] = FileOf(u, o)
    BY DEF FileInv
<1>2. CASE u # t
  <2>1. OnDisk(u, o)' = OnDisk(u, o) /\ FileOf(u, o)' = FileOf(u, o)
    <3>1. at'[u] = at[u] /\ seg'[u] = seg[u] /\ out'[u] = out[u]
        BY <1>2, MovesType
    <3>2. OnDisk(u, o)' = OnDisk(u, o) /\ Listed(u, o)' = Listed(u, o)
        BY <3>1 DEF OnDisk, Listed, Past
    <3> QED BY <3>1, <3>2 DEF FileOf, Rewriting
  <2>2. segments'[u][o] = segments[u][o]
    <3>1. segments'[u][o] = IF WriteSegment(t) /\ o = out[t] /\ u = t THEN seg[t] + 1
                            ELSE segments[u][o]
        BY FileWrites, Zenon
    <3> QED BY <1>2, <3>1
  <2>3. playlists'[o][PlaylistOf(u)] = playlists[o][PlaylistOf(u)]
    <3>1. PlaylistOf(u) \in PlaylistNames /\ PlaylistOf(u) # PlaylistOf(t)
        BY <1>2, PlaylistFiles
    <3>2. \A p \in PlaylistNames : p # PlaylistOf(t) => playlists'[o][p] = playlists[o][p]
        BY FileWrites
    <3> QED BY <3>1, <3>2
  <2> QED BY <1>1, <2>1, <2>2, <2>3
<1>3. CASE u = t
  <2>1. segments'[t][o] = IF WriteSegment(t) /\ o = out[t] THEN seg[t] + 1 ELSE segments[t][o]
    <3>1. segments'[t][o] = IF WriteSegment(t) /\ o = out[t] /\ t = t THEN seg[t] + 1
                            ELSE segments[t][o]
        BY FileWrites, Zenon
    <3> QED BY <3>1
  <2>2. playlists'[o][PlaylistOf(t)] =
            IF o # out[t] THEN playlists[o][PlaylistOf(t)]
            ELSE IF WritePlaylist(t) THEN Playlist(t, seg[t] + 1, TRUE)
            ELSE IF TruncatePlaylist(t) THEN EmptyFile ELSE playlists[o][PlaylistOf(t)]
    <3>1. PlaylistOf(t) \in PlaylistNames
        BY PlaylistFiles
    <3>2. \A p \in PlaylistNames :
              playlists'[o][p] =
                  IF p # PlaylistOf(t) \/ o # out[t] THEN playlists[o][p]
                  ELSE IF WritePlaylist(t) THEN Playlist(t, seg[t] + 1, TRUE)
                  ELSE IF TruncatePlaylist(t) THEN EmptyFile ELSE playlists[o][p]
        BY FileWrites, Zenon
    <3> QED BY <3>1, <3>2
  <2>3. seg[t] \in Nat /\ seg[t] + 1 # 0
      BY DEF TypeOK
  <2>4. /\ OnDisk(t, o)' = IF WriteSegment(t) /\ o = out[t] THEN seg[t] + 1 ELSE OnDisk(t, o)
        /\ Listed(t, o)' = IF WritePlaylist(t) /\ o = out[t] THEN seg[t] + 1 ELSE Listed(t, o)
      BY CountSteps
  <2>5. /\ Rewriting(t, o)' <=> TruncatePlaylist(t) /\ o = out[t]
        /\ Rewriting(t, o) => WritePlaylist(t) /\ o = out[t] /\ ~TruncatePlaylist(t)
        /\ TruncatePlaylist(t) => ~WritePlaylist(t)
      BY RewritingSteps DEF TruncatePlaylist, WritePlaylist
  <2>6. FileOf(t, o)' =
            IF o # out[t] THEN FileOf(t, o)
            ELSE IF WritePlaylist(t) THEN Playlist(t, seg[t] + 1, TRUE)
            ELSE IF TruncatePlaylist(t) THEN EmptyFile ELSE FileOf(t, o)
      BY <2>3, <2>4, <2>5 DEF FileOf
  <2> QED BY <1>1, <1>3, <2>1, <2>2, <2>4, <2>6
<1> QED BY <1>2, <1>3

\* A track that succeeded has its whole playlist in every output.
LEMMA SucceededFiles ==
    ASSUME TypeOK, ThreadInv, FileInv, NEW t \in Tracks, result[t] = "ok", NEW o \in Outputs
    PROVE  /\ Listed(t, o) = SegmentsOf(t)
           /\ OnDisk(t, o) = SegmentsOf(t)
           /\ playlists[o][PlaylistOf(t)] = Playlist(t, SegmentsOf(t), TRUE)
           /\ t \in inits \cup RawTracks
<1>1. at[t] = "done" /\ seg[t] = SegmentsOf(t)
    BY DEF ThreadInv, ThreadOK
<1>2. Listed(t, o) = SegmentsOf(t) /\ OnDisk(t, o) = SegmentsOf(t)
    BY <1>1, Idle DEF Working
<1>3. SegmentsOf(t) \in Nat /\ SegmentsOf(t) # 0
    BY SegmentsCounted
<1>4. playlists[o][PlaylistOf(t)] = Playlist(t, SegmentsOf(t), TRUE)
    BY <1>1, <1>2, <1>3 DEF FileInv, FileOf, Rewriting
<1>5. t \in inits \cup RawTracks
    BY <1>1, <1>3 DEF ThreadInv, ThreadOK
<1> QED BY <1>2, <1>4, <1>5

\* The last phase writes the tracks' playlists as they are.
LEMMA FinalPlaylistsKept ==
    ASSUME TypeOK, ThreadInv, FileInv, FinalInv, MainStep, NEW t \in Tracks, NEW o \in Outputs
    PROVE  playlists'[o][PlaylistOf(t)] = playlists[o][PlaylistOf(t)]
<1>0. PlaylistOf(t) \in PlaylistNames /\ playlists \in [Outputs -> [PlaylistNames -> Files]]
    BY PlaylistFiles DEF TypeOK
<1>1. CASE FinalizeVariants /\ IsMultiVariant
  <2>1. PlaylistOf(t) = t
      BY <1>1, PlaylistFiles
  <2>2. playlists'[o][t] = IF t \in Succeeded(VideoTracks)
                           THEN Playlist(t, SegmentsOf(t), TRUE) ELSE playlists[o][t]
    <3>1. playlists' = [q \in Outputs |-> [p \in PlaylistNames |->
                  IF p \in Succeeded(VideoTracks)
                  THEN Playlist(p, SegmentsOf(p), TRUE) ELSE playlists[q][p]]]
        BY <1>1 DEF FinalizeVariants
    <3>2. t \in PlaylistNames
        BY <1>0, <2>1
    <3> QED BY <3>1, <3>2
  <2>3. ASSUME t \in Succeeded(VideoTracks)
        PROVE  playlists[o][t] = Playlist(t, SegmentsOf(t), TRUE)
    <3>1. result[t] = "ok" /\ t \notin RawTracks
        BY <2>3, TrackKinds DEF Succeeded
    <3> QED BY <2>1, <3>1, SucceededFiles DEF SegmentsOf
  <2> QED BY <2>1, <2>2, <2>3
<1>2. CASE WriteFinalPlaylists
  <2>1. /\ o # finalAt => playlists'[o] = playlists[o]
        /\ o = finalAt => playlists'[o][PlaylistOf(t)]
                              = FinalPlaylist(PlaylistOf(t), playlists[o][PlaylistOf(t)])
      BY <1>0, <1>2 DEF WriteFinalPlaylists
  <2>2. CASE PlaylistOf(t) = Primary
    <3>1. VideoTracks = {t} /\ ~IsMultiVariant
        BY <2>2, PlaylistFiles, TrackKinds, VideoCount
    <3>2. PrimaryTrack \in Succeeded(VideoTracks)
        BY <1>2, PrimaryIsVideo DEF WriteFinalPlaylists, FinalInv
    <3>3. PrimaryTrack = t /\ result[t] = "ok" /\ t \notin RawTracks
        BY <3>1, <3>2, TrackKinds DEF Succeeded
    <3>4. playlists[o][Primary] = Playlist(t, SegmentsOf(t), TRUE)
        BY <2>2, <3>3, SucceededFiles DEF SegmentsOf
    <3>5. FinalPlaylist(Primary, playlists[o][Primary]) = Playlist(t, SegmentsOf(t), TRUE)
        BY <3>1, <3>3 DEF FinalPlaylist
    <3> QED BY <2>1, <2>2, <3>4, <3>5
  <2>3. CASE PlaylistOf(t) # Primary
    <3>1. PlaylistOf(t) = t
        BY <2>3, PlaylistFiles
    <3>2. ASSUME t \in Succeeded(Tracks \ (VideoTracks \cup RawTracks))
          PROVE  playlists[o][t] = Playlist(t, SegmentsOf(t), TRUE)
      <4>1. result[t] = "ok" /\ t \notin RawTracks
          BY <3>2 DEF Succeeded
      <4> QED BY <3>1, <4>1, SucceededFiles
    <3>3. FinalPlaylist(t, playlists[o][t]) = playlists[o][t]
        BY <2>3, <3>1, <3>2 DEF FinalPlaylist
    <3> QED BY <2>1, <3>1, <3>3
  <2> QED BY <2>2, <2>3
<1>3. CASE playlists' = playlists
    BY <1>0, <1>3
<1> QED BY <1>1, <1>2, <1>3 DEF MainStep, JoinTracks, CategoriseResult, WriteFailed,
    FinalizeVariants, WriteFinalManifest, WriteComplete, diskVars, trackFiles

LEMMA FileStep ==
    ASSUME TypeOK, ThreadInv, FileInv, FinalInv, [Next]_vars
    PROVE  FileInv'
<1>1. ASSUME UNCHANGED <<threadVars, segments>>,
             \A t \in Tracks, o \in Outputs :
                 playlists'[o][PlaylistOf(t)] = playlists[o][PlaylistOf(t)]
      PROVE  FileInv'
  <2>1. \A t \in Tracks, o \in Outputs :
            OnDisk(t, o)' = OnDisk(t, o) /\ FileOf(t, o)' = FileOf(t, o)
      BY <1>1 DEF OnDisk, Listed, Past, FileOf, Rewriting, threadVars
  <2>2. segments' = segments
      BY <1>1
  <2> QED BY <1>1, <2>1, <2>2 DEF FileInv
<1>2. CASE MainStep
    BY <1>1, <1>2, OtherSteps, FinalPlaylistsKept
<1>3. CASE FlusherStep \/ Terminated \/ UNCHANGED vars
    BY <1>1, <1>3 DEF FlusherStep, PollStop, FlushProgress, Terminated, vars, diskVars, trackFiles
<1> QED BY <1>2, <1>3, FileThread DEF Next

LEMMA PrimaryStep ==
    ASSUME TypeOK, PrimaryInv, FinalInv, [Next]_vars
    PROVE  PrimaryInv'
<1> SUFFICES ASSUME IsMultiVariant, NEW o \in Outputs
             PROVE  playlists'[o][Primary] = NoFile \/ ~playlists'[o][Primary].local
    BY DEF PrimaryInv
<1>1. /\ playlists[o][Primary] = NoFile \/ ~playlists[o][Primary].local
      /\ Primary \in PlaylistNames
      /\ playlists \in [Outputs -> [PlaylistNames -> Files]]
    BY PlaylistFiles DEF PrimaryInv, TypeOK
<1>2. ASSUME NEW t \in Tracks, TrackStep(t) \/ PipelineFails(t) \/ ThreadPanics(t)
      PROVE  playlists'[o][Primary] = playlists[o][Primary]
  <2>1. PlaylistOf(t) # Primary
      BY PlaylistFiles
  <2>2. \A p \in PlaylistNames : p # PlaylistOf(t) => playlists'[o][p] = playlists[o][p]
      BY <1>2, FileWrites
  <2> QED BY <1>1, <2>1, <2>2
<1>3. CASE FinalizeVariants
  <2>1. Primary \notin Succeeded(VideoTracks)
      BY TrackKinds DEF Succeeded
  <2>2. playlists' = [q \in Outputs |-> [p \in PlaylistNames |->
              IF p \in Succeeded(VideoTracks)
              THEN Playlist(p, SegmentsOf(p), TRUE) ELSE playlists[q][p]]]
      BY <1>3 DEF FinalizeVariants
  <2> QED BY <1>1, <2>1, <2>2
<1>4. CASE WriteFinalPlaylists
  <2>1. /\ o # finalAt => playlists'[o] = playlists[o]
        /\ o = finalAt => playlists'[o][Primary] = FinalPlaylist(Primary, playlists[o][Primary])
      BY <1>1, <1>4 DEF WriteFinalPlaylists
  <2>2. FinalPlaylist(Primary, playlists[o][Primary])
            = Playlist(PrimaryTrack, SegmentsOf(PrimaryTrack), ~IsMultiVariant)
      BY DEF FinalPlaylist
  <2>3. ~Playlist(PrimaryTrack, SegmentsOf(PrimaryTrack), ~IsMultiVariant).local
      BY DEF Playlist
  <2> QED BY <1>1, <2>1, <2>2, <2>3
<1>5. CASE playlists' = playlists
    BY <1>1, <1>5
<1> QED BY <1>1, <1>2, <1>3, <1>4, <1>5 DEF Next, MainStep, JoinTracks, CategoriseResult,
    WriteFailed, WriteFinalManifest, WriteComplete, FlusherStep, PollStop, FlushProgress,
    Terminated, vars, diskVars, trackFiles

-----------------------------------------------------------------------------
(* The mutex and the main thread.                                           *)

LEMMA LockInit == Init => LockInv
BY TrackKinds DEF Init, LockInv

\* A thread that moves has not ended, so the main thread is still joining.
LEMMA MovesWhileJoining ==
    ASSUME TypeOK, ThreadInv, LockInv, NEW t \in Tracks,
           TrackStep(t) \/ PipelineFails(t) \/ ThreadPanics(t)
    PROVE  main = "join" /\ main' = "join" /\ joined = {} /\ joined' = {} /\ finalAt' = finalAt
<1>1. at[t] # "done"
    BY Moves
<1> QED BY <1>1, ThreadFrame DEF LockInv, mainVars

LEMMA LockThread ==
    ASSUME TypeOK, ThreadInv, LockInv, NEW t \in Tracks,
           TrackStep(t) \/ PipelineFails(t) \/ ThreadPanics(t)
    PROVE  LockInv'
<1> DEFINE holding == {"rebuild", "rebuildFailed"}
<1>1. /\ main' = "join" /\ joined' = {}
      /\ NoThread \notin Tracks /\ at \in [Tracks -> Places]
      /\ \A u \in Tracks : at[u] \in holding <=> lock = u
      /\ lock = NoThread => rebuildAt = 1
      /\ \A u \in Tracks \ {t} : at'[u] = at[u]
    BY TrackKinds, MovesWhileJoining, MovesType DEF TypeOK, Places, LockInv
<1>2. /\ (at'[t] \in holding /\ lock = NoThread /\ lock' = t)
         \/ (at[t] \in holding /\ at'[t] \notin holding /\ lock' = NoThread /\ rebuildAt' = 1)
         \/ ((at'[t] \in holding <=> at[t] \in holding) /\ lock' = lock
              /\ (lock # NoThread \/ rebuildAt' = rebuildAt))
  <2>1. CASE \/ StartTrack(t) \/ WriteSegment(t) \/ TruncatePlaylist(t)
             \/ PipelineFails(t) \/ ThreadPanics(t)
      BY <1>1, <2>1 DEF StartTrack, WriteSegment, TruncatePlaylist, PipelineFails,
         ThreadPanics, CanFail, Goto, Finish, ctxVars
  <2>2. CASE WritePlaylist(t) \/ SignalOnly(t)
    <3>1. at[t] \in {"write", "signal"} /\ UNCHANGED <<lock, rebuildAt>>
        BY <2>2 DEF WritePlaylist, SignalOnly, ctxVars
    <3>2. Advance(t) \/ Goto(t, "signal")
        BY <2>2 DEF WritePlaylist, SignalOnly
    <3>3. at'[t] \in {"segment", "done", "signal"}
        BY <1>1, <3>1, <3>2, Advances DEF Goto, Working
    <3> QED BY <3>1, <3>3
  <2>3. CASE SignalAndRebuild(t) \/ ReportFailureAndRebuild(t)
      BY <1>1, <2>3 DEF SignalAndRebuild, ReportFailureAndRebuild, BeginRebuild, Goto, LockFree
  <2>4. CASE ReportFailure(t)
      BY <1>1, <2>4 DEF ReportFailure, Finish
  <2>5. CASE RebuildOutput(t) /\ rebuildAt < OutputCount
      BY <1>1, <2>5 DEF RebuildOutput, threadVars
  <2>6. CASE RebuildOutput(t) /\ ~(rebuildAt < OutputCount)
    <3>1. at[t] \in holding /\ lock' = NoThread /\ rebuildAt' = 1
        BY <2>6 DEF RebuildOutput
    <3>2. (at[t] = "rebuild" /\ Advance(t)) \/ Finish(t, "err")
        BY <2>6 DEF RebuildOutput
    <3>3. at'[t] \notin holding
        BY <1>1, <3>2, Advances DEF Finish, Working
    <3> QED BY <3>1, <3>3
  <2> QED BY <2>1, <2>2, <2>3, <2>4, <2>5, <2>6 DEF TrackStep
<1> QED BY <1>1, <1>2 DEF LockInv

LEMMA LockStep ==
    ASSUME TypeOK, ThreadInv, LockInv, [Next]_vars
    PROVE  LockInv'
<1>1. CASE MainStep
  <2>1. UNCHANGED <<at, lock, rebuildAt>>
      BY <1>1, OtherSteps DEF threadVars
  <2>2. main' # "join" => \A t \in Tracks : at[t] = "done"
      BY <1>1 DEF LockInv, MainStep, JoinTracks, CategoriseResult, AllCategorised, WriteFailed,
         FinalizeVariants, WriteFinalPlaylists, WriteFinalManifest, WriteComplete
  <2>3. joined' # {} => main' # "join"
      BY <1>1 DEF LockInv, MainStep, JoinTracks, CategoriseResult, AllCategorised, WriteFailed,
         FinalizeVariants, WriteFinalPlaylists, WriteFinalManifest, WriteComplete
  <2> QED BY <2>1, <2>2, <2>3 DEF LockInv
<1>2. CASE FlusherStep \/ Terminated \/ UNCHANGED vars
    BY <1>2 DEF FlusherStep, PollStop, FlushProgress, Terminated, vars, threadVars, ctxVars,
       mainVars, LockInv
<1> QED BY <1>1, <1>2, LockThread DEF Next

-----------------------------------------------------------------------------
(* The shared context.                                                      *)

\* When the last result is in, every track the context still expects has
\* signalled: the failed ones were told to it, the others succeeded.
LEMMA ReadyInTheEnd ==
    ASSUME TypeOK, ThreadInv, LockInv, SignalInv, AllCategorised
    PROVE  AllTracksReady(ctx)
<1>1. Running /\ joined = Tracks
    BY DEF AllCategorised, Running
<1>2. ASSUME NEW t \in Tracks, t \notin FailedJoined
      PROVE  seg[t] > 0
  <2>1. result[t] = "ok"
      BY <1>1, <1>2 DEF AllCategorised, LockInv, ThreadInv, ThreadOK, FailedJoined, TypeOK
  <2> QED BY <2>1, SegmentsCounted DEF ThreadInv, ThreadOK
<1>3. VideoTracks \ FailedJoined \subseteq ctx.ready
    BY <1>1, <1>2, TrackKinds DEF SignalInv
<1>4. ctx.ready \in SUBSET VideoTracks /\ ctx.expected \in Nat
    BY DEF TypeOK
<1>5. /\ Cardinality(VideoTracks \ FailedJoined) <= Cardinality(ctx.ready)
      /\ Cardinality(VideoTracks \ FailedJoined) \in Nat /\ Cardinality(ctx.ready) \in Nat
  <2>1. IsFiniteSet(ctx.ready) /\ Cardinality(ctx.ready) \in Nat
      BY <1>4, StreamNames
  <2>2. Cardinality(VideoTracks \ FailedJoined) \in Nat
      BY StreamNames
  <2> QED BY <1>3, <2>1, <2>2, FS_Subset
<1>6. ctx.expected <= Cardinality(VideoTracks \ FailedJoined)
    BY <1>1 DEF SignalInv
<1>7. ctx.expectsAudio => ctx.audio
    BY <1>2, TrackKinds DEF SignalInv
<1> QED BY <1>4, <1>5, <1>6, <1>7 DEF AllTracksReady

LEMMA FinalInit == Init => FinalInv
BY CountsAssumption DEF Init, FinalInv, Running, Outputs

\* The main thread writes each output's final manifest once, from playlists
\* that stay.
LEMMA FinalMain ==
    ASSUME TypeOK, ThreadInv, LockInv, SignalInv, RebuildInv, FinalInv, MainStep
    PROVE  FinalInv'
<1>0. /\ UNCHANGED result
      /\ \A S : Succeeded(S)' = Succeeded(S)
      /\ finalAt \in Nat /\ OutputCount \in Nat \ {0}
    BY OtherSteps, CountsAssumption DEF threadVars, Succeeded, TypeOK
<1>1. \A o \in Outputs :
          playlists'[o] = playlists[o] => FinalManifest(o)' = FinalManifest(o)
    BY <1>0 DEF FinalManifest, Streams
<1>2. CASE JoinTracks \/ \E t \in Tracks : CategoriseResult(t)
    BY <1>2 DEF JoinTracks, CategoriseResult, FinalInv, Running, Outputs
<1>3. CASE WriteFailed
    BY <1>0, <1>3 DEF WriteFailed, AllCategorised, FinalInv, Running, Outputs
<1>4. CASE FinalizeVariants
  <2>1. AllCategorised /\ joined = Tracks /\ Running /\ Succeeded(VideoTracks) # {}
      BY <1>4 DEF FinalizeVariants, AllCategorised, Running
  <2>2. ctx.first
      BY <2>1, ReadyInTheEnd DEF RebuildInv
  <2>3. ctx'.first
    <3>1. ctx' = ctx \/ ctx' = [FinalContext(ctx) EXCEPT !.first = TRUE]
             \/ ctx' = FinalContext(ctx)
        BY <1>4 DEF FinalizeVariants, RebuildAll
    <3>2. FinalContext(ctx).first /\ [FinalContext(ctx) EXCEPT !.first = TRUE].first
        BY DEF FinalContext, TypeOK
    <3> QED BY <2>2, <3>1, <3>2
  <2>4. main' = "final" /\ finalAt' = 1 /\ joined' = joined
      BY <1>4, <2>1 DEF FinalizeVariants, FinalInv
  <2> QED BY <1>0, <2>1, <2>3, <2>4 DEF FinalInv, Running, Outputs
<1>5. CASE WriteFinalPlaylists
  <2>1. /\ main = "final" /\ main' = "finalMaster"
        /\ UNCHANGED <<combined, ctx, joined, finalAt>>
        /\ \A o \in Outputs : o # finalAt => playlists'[o] = playlists[o]
      BY <1>5 DEF WriteFinalPlaylists, ctxVars, TypeOK
  <2>2. \A o \in Outputs : o < finalAt => combined'[o] = FinalManifest(o)'
      BY <1>1, <2>1 DEF FinalInv, Outputs
  <2> QED BY <1>0, <2>1, <2>2 DEF FinalInv, Running
<1>6. CASE WriteFinalManifest
  <2>1. /\ main = "finalMaster" /\ main' = IF finalAt = OutputCount THEN "complete" ELSE "final"
        /\ UNCHANGED <<playlists, ctx, joined>>
        /\ finalAt' = finalAt + 1
        /\ combined' = [combined EXCEPT ![finalAt] = FinalManifest(finalAt)]
      BY <1>6 DEF WriteFinalManifest, ctxVars, trackFiles
  <2>2. finalAt \in Outputs
      BY <2>1 DEF FinalInv
  <2>3. \A o \in Outputs : o < finalAt + 1 => combined'[o] = FinalManifest(o)'
    <3>1. \A o \in Outputs : FinalManifest(o)' = FinalManifest(o)
        BY <1>1, <2>1
    <3> QED BY <1>0, <2>1, <2>2, <3>1 DEF FinalInv, Outputs, TypeOK
  <2>4. finalAt' \in Outputs \/ (main' = "complete" /\ finalAt' = OutputCount + 1)
      BY <1>0, <2>1, <2>2 DEF Outputs
  <2> QED BY <1>0, <2>1, <2>3, <2>4 DEF FinalInv, Running
<1>7. CASE WriteComplete
  <2>1. /\ main = "complete" /\ main' = "done"
        /\ UNCHANGED <<combined, playlists, ctx, joined, finalAt>>
      BY <1>7 DEF WriteComplete, diskVars, trackFiles, ctxVars
  <2> QED BY <1>0, <1>1, <2>1 DEF FinalInv, Running
<1> QED BY <1>2, <1>3, <1>4, <1>5, <1>6, <1>7 DEF MainStep

LEMMA FinalStep ==
    ASSUME TypeOK, ThreadInv, LockInv, SignalInv, RebuildInv, FinalInv, [Next]_vars
    PROVE  FinalInv'
<1>1. ASSUME NEW t \in Tracks, TrackStep(t) \/ PipelineFails(t) \/ ThreadPanics(t)
      PROVE  FinalInv'
  <2>1. main = "join" /\ main' = "join" /\ finalAt' = finalAt
      BY <1>1, MovesWhileJoining
  <2>2. finalAt = 1
      BY <2>1 DEF FinalInv, Running
  <2> QED BY <2>1, <2>2 DEF FinalInv, Running, Outputs
<1>2. CASE FlusherStep \/ Terminated \/ UNCHANGED vars
  <2>1. UNCHANGED <<threadVars, diskVars, ctxVars, mainVars>>
      BY <1>2 DEF FlusherStep, PollStop, FlushProgress, Terminated, vars
  <2> QED BY <2>1 DEF threadVars, diskVars, trackFiles, ctxVars, mainVars, FinalInv, Running,
      Succeeded, FinalManifest, Streams
<1> QED BY <1>1, <1>2, FinalMain DEF Next

\* What a signal changes in the context.
LEMMA SignalEffects ==
    ASSUME NEW c \in ContextType, NEW t \in Tracks
    PROVE  LET s == SignalManifest(c, t)
               f == SignalFailed(c, t)
           IN  /\ s.expected = c.expected /\ s.expectsAudio = c.expectsAudio
               /\ s.variants = c.variants /\ s.first = c.first
               /\ s.ready = IF t \in VideoTracks THEN c.ready \cup {t} ELSE c.ready
               /\ s.texts = IF t \in TextTracks THEN c.texts \cup {t} ELSE c.texts
               /\ s.audio <=> c.audio \/ t = AudioTrack
               /\ f.variants = c.variants /\ f.first = c.first /\ f.ready = c.ready
               /\ f.texts = c.texts /\ f.audio = c.audio
               /\ t \in VideoTracks =>
                    /\ f.expected = IF c.expected > 0 THEN c.expected - 1 ELSE 0
                    /\ f.expectsAudio = c.expectsAudio
               /\ t \notin VideoTracks => f.expected = c.expected /\ ~f.expectsAudio
<1> USE DEF ContextType
<1>1. CASE t \in VideoTracks
    BY <1>1, TrackKinds DEF SignalManifest, SignalVideoManifest, SignalFailed, SignalVideoFailed
<1>2. CASE t \in TextTracks
    BY <1>2, TrackKinds DEF SignalManifest, SignalTextManifest, SignalFailed, SignalAudioFailed
<1>3. CASE t = AudioTrack
    BY <1>3, TrackKinds DEF SignalManifest, SignalAudioManifest, SignalFailed, SignalAudioFailed
<1> QED BY <1>1, <1>2, <1>3, TrackKinds

\* Raising the flag first changes nothing else of it.
SameButFirst(c, d) ==
    /\ d.expected = c.expected /\ d.expectsAudio = c.expectsAudio
    /\ d.variants = c.variants /\ d.ready = c.ready
    /\ d.audio = c.audio /\ d.texts = c.texts
    /\ c.first => d.first

\* How a thread's step changes the context.
LEMMA ContextSteps ==
    ASSUME TypeOK, NEW t \in Tracks, TrackStep(t) \/ PipelineFails(t) \/ ThreadPanics(t)
    PROVE  \/ ctx' = ctx /\ ~SignalOnly(t) /\ ~SignalAndRebuild(t)
           \/ /\ SignalOnly(t) \/ SignalAndRebuild(t)
              /\ SameButFirst(SignalManifest(ctx, t), ctx')
           \/ /\ ReportFailure(t) \/ ReportFailureAndRebuild(t)
              /\ ~SignalOnly(t) /\ ~SignalAndRebuild(t)
              /\ SameButFirst(SignalFailed(ctx, t), ctx')
<1>1. ctx \in ContextType
    BY DEF TypeOK, ContextType
<1>2. /\ SameButFirst(SignalManifest(ctx, t), SignalManifest(ctx, t))
      /\ SameButFirst(SignalFailed(ctx, t), SignalFailed(ctx, t))
    BY DEF SameButFirst
<1>3. /\ SameButFirst(SignalManifest(ctx, t), [SignalManifest(ctx, t) EXCEPT !.first = TRUE])
      /\ SameButFirst(SignalFailed(ctx, t), [SignalFailed(ctx, t) EXCEPT !.first = TRUE])
    BY <1>1, SignalTypes DEF SameButFirst, ContextType
<1>4. CASE SignalOnly(t) \/ SignalAndRebuild(t)
    BY <1>2, <1>3, <1>4 DEF SignalOnly, SignalAndRebuild, BeginRebuild
<1>5. CASE ReportFailure(t) \/ ReportFailureAndRebuild(t)
  <2>1. at[t] = "failed"
      BY <1>5 DEF ReportFailure, ReportFailureAndRebuild
  <2> QED BY <1>2, <1>3, <1>5, <2>1
      DEF ReportFailure, ReportFailureAndRebuild, BeginRebuild, SignalOnly, SignalAndRebuild
<1> QED BY <1>4, <1>5, ThreadFrame

\* A thread that has finished a segment, or rebuilds, has signalled before.
LEMMA SignalledBefore ==
    ASSUME TypeOK, ThreadInv, NEW t \in Tracks,
           TrackStep(t) \/ PipelineFails(t) \/ ThreadPanics(t),
           seg'[t] > 0 \/ at'[t] = "rebuild"
    PROVE  seg[t] > 0 \/ at[t] = "rebuild" \/ SignalOnly(t) \/ SignalAndRebuild(t)
<1>0. at \in [Tracks -> Places] /\ seg[t] \in Nat
    BY DEF TypeOK, Places
<1>1. CASE \/ StartTrack(t) \/ WriteSegment(t) \/ TruncatePlaylist(t)
           \/ PipelineFails(t) \/ ThreadPanics(t)
    BY <1>0, <1>1 DEF StartTrack, WriteSegment, TruncatePlaylist, PipelineFails, ThreadPanics,
       Goto, Finish
<1>2. CASE WritePlaylist(t) /\ ~(t \in RawTracks /\ out[t] < OutputCount)
    BY <1>0, <1>2 DEF WritePlaylist, Goto
<1>3. CASE WritePlaylist(t) /\ t \in RawTracks /\ out[t] < OutputCount
  <2>1. Advance(t) /\ at[t] = "write"
      BY <1>3 DEF WritePlaylist
  <2>2. out[t] # OutputCount
      BY <1>3, CountsAssumption DEF TypeOK, Outputs
  <2>3. seg'[t] = seg[t] /\ at'[t] = "segment"
      BY <2>1, <2>2, Advances DEF Working
  <2> QED BY <2>3
<1>4. CASE ReportFailure(t) \/ ReportFailureAndRebuild(t)
    BY <1>0, <1>4 DEF ReportFailure, ReportFailureAndRebuild, Goto, Finish
<1>5. CASE RebuildOutput(t)
    BY <1>0, <1>5 DEF RebuildOutput, Finish, threadVars
<1> QED BY <1>1, <1>2, <1>3, <1>4, <1>5 DEF TrackStep

LEMMA SignalInit == Init => SignalInv
<1> SUFFICES ASSUME Init PROVE SignalInv
    OBVIOUS
<1>1. /\ FailedJoined = {} /\ VideoTracks \ FailedJoined = VideoTracks
      /\ ctx.expected = Cardinality(VideoTracks)
    BY VideoCount DEF Init, FailedJoined
<1> QED BY <1>1, VideoCount, TracksAssumption DEF Init, SignalInv, Running

LEMMA SignalThread ==
    ASSUME TypeOK, ThreadInv, LockInv, SignalInv, NEW t \in Tracks,
           TrackStep(t) \/ PipelineFails(t) \/ ThreadPanics(t)
    PROVE  SignalInv'
<1>0. /\ main = "join" /\ main' = "join" /\ FailedJoined = {} /\ FailedJoined' = {}
      /\ 1 \in Outputs /\ ctx \in ContextType /\ Running /\ Running'
  <2>1. main = "join" /\ main' = "join" /\ joined = {} /\ joined' = {}
      BY MovesWhileJoining
  <2>2. 1 \in Outputs
      BY CountsAssumption DEF Outputs
  <2>3. ctx \in ContextType
      BY DEF TypeOK, ContextType
  <2> QED BY <2>1, <2>2, <2>3 DEF FailedJoined, Running
<1>1. ASSUME NEW u \in Tracks, Listed(u, 1) > 0 PROVE Listed(u, 1)' > 0
  <2>1. CASE u = t
    <3>1. seg[t] + 1 > 0
        BY DEF TypeOK
    <3> QED BY <1>0, <1>1, <2>1, <3>1, CountSteps
  <2>2. CASE u # t
      BY <1>1, <2>2, MovesType DEF Listed, Past
  <2> QED BY <2>1, <2>2
<1>2. ASSUME SignalOnly(t) \/ SignalAndRebuild(t) PROVE Listed(t, 1) > 0
  <2>1. at[t] = "signal" /\ out[t] \in Nat /\ out[t] >= 1 /\ seg[t] \in Nat
      BY <1>2, CountsAssumption DEF SignalOnly, SignalAndRebuild, TypeOK, Outputs
  <2> QED BY <2>1 DEF Listed, Past
<1>3. /\ ctx'.variants = ctx.variants
      /\ ctx'.ready \subseteq ctx.ready \cup {t}
      /\ ctx'.texts \subseteq ctx.texts \cup {t}
      /\ ctx.ready \subseteq ctx'.ready /\ ctx.texts \subseteq ctx'.texts
      /\ ctx.audio => ctx'.audio
      /\ ctx'.ready # ctx.ready \/ ctx'.texts # ctx.texts
            => SignalOnly(t) \/ SignalAndRebuild(t)
      /\ ctx'.audio /\ ~ctx.audio => t = AudioTrack /\ (SignalOnly(t) \/ SignalAndRebuild(t))
      /\ ctx'.expectsAudio => ctx.expectsAudio
      /\ ctx'.expected <= ctx.expected
      /\ SignalOnly(t) \/ SignalAndRebuild(t) =>
            /\ t \in VideoTracks => t \in ctx'.ready
            /\ t \in TextTracks => t \in ctx'.texts
            /\ t = AudioTrack => ctx'.audio
  <2>1. ctx.expected \in Nat
      BY <1>0 DEF ContextType
  <2>2. CASE ctx' = ctx /\ ~SignalOnly(t) /\ ~SignalAndRebuild(t)
      BY <2>1, <2>2
  <2>3. CASE /\ SignalOnly(t) \/ SignalAndRebuild(t)
             /\ SameButFirst(SignalManifest(ctx, t), ctx')
    <3> DEFINE s == SignalManifest(ctx, t)
    <3>1. /\ s.expected = ctx.expected /\ s.expectsAudio = ctx.expectsAudio
          /\ s.variants = ctx.variants
          /\ s.ready = IF t \in VideoTracks THEN ctx.ready \cup {t} ELSE ctx.ready
          /\ s.texts = IF t \in TextTracks THEN ctx.texts \cup {t} ELSE ctx.texts
          /\ s.audio <=> ctx.audio \/ t = AudioTrack
        BY <1>0, SignalEffects
    <3>2. SameButFirst(s, ctx')
        BY <2>3
    <3> HIDE DEF s
    <3>3. /\ ctx'.expected = ctx.expected /\ ctx'.expectsAudio = ctx.expectsAudio
          /\ ctx'.variants = ctx.variants
          /\ ctx'.ready = IF t \in VideoTracks THEN ctx.ready \cup {t} ELSE ctx.ready
          /\ ctx'.texts = IF t \in TextTracks THEN ctx.texts \cup {t} ELSE ctx.texts
          /\ ctx'.audio <=> ctx.audio \/ t = AudioTrack
        BY <3>1, <3>2 DEF SameButFirst
    <3> QED BY <2>1, <2>3, <3>3
  <2>4. CASE /\ ~SignalOnly(t) /\ ~SignalAndRebuild(t)
             /\ SameButFirst(SignalFailed(ctx, t), ctx')
    <3> DEFINE f == SignalFailed(ctx, t)
    <3>1. /\ f.variants = ctx.variants /\ f.ready = ctx.ready
          /\ f.texts = ctx.texts /\ f.audio = ctx.audio
          /\ t \in VideoTracks => f.expectsAudio = ctx.expectsAudio
          /\ t \notin VideoTracks => ~f.expectsAudio
        BY <1>0, SignalEffects
    <3>2. f.expected <= ctx.expected
      <4>1. CASE t \in VideoTracks
        <5>1. f.expected = IF ctx.expected > 0 THEN ctx.expected - 1 ELSE 0
            BY <1>0, <4>1, SignalEffects
        <5> QED BY <2>1, <5>1
      <4>2. CASE t \notin VideoTracks
        <5>1. f.expected = ctx.expected
            BY <1>0, <4>2, SignalEffects
        <5> QED BY <2>1, <5>1
      <4> QED BY <4>1, <4>2
    <3>3. SameButFirst(f, ctx')
        BY <2>4
    <3> HIDE DEF f
    <3>4. /\ ctx'.variants = ctx.variants /\ ctx'.ready = ctx.ready
          /\ ctx'.texts = ctx.texts /\ ctx'.audio = ctx.audio
          /\ ctx'.expectsAudio => ctx.expectsAudio
          /\ ctx'.expected <= ctx.expected
        BY <3>1, <3>2, <3>3 DEF SameButFirst
    <3> QED BY <2>4, <3>4
  <2> QED BY <2>2, <2>3, <2>4, ContextSteps
<1>4. \A u \in (ctx.ready \cup ctx.texts)' : Listed(u, 1)' > 0
  <2>1. ctx.ready \subseteq Tracks /\ ctx.texts \subseteq Tracks
      BY <1>0, TrackKinds DEF ContextType
  <2> QED BY <1>1, <1>2, <1>3, <2>1 DEF SignalInv
<1>5. ctx'.audio => HasAudio /\ Listed(AudioTrack, 1)' > 0
    BY <1>1, <1>2, <1>3, TrackKinds DEF SignalInv
<1>6. ctx'.expectsAudio => HasAudio /\ AudioTrack \notin FailedJoined'
    BY <1>0, <1>3 DEF SignalInv
<1>7. ASSUME NEW u \in Tracks, seg'[u] > 0 \/ at'[u] = "rebuild"
      PROVE  /\ u \in TextTracks => u \in ctx'.texts
             /\ u = AudioTrack => ctx'.audio
             /\ u \in VideoTracks /\ Running' => u \in ctx'.ready
  <2>1. CASE seg[u] > 0 \/ at[u] = "rebuild"
      BY <1>0, <1>3, <2>1 DEF SignalInv
  <2>2. CASE ~(seg[u] > 0 \/ at[u] = "rebuild")
    <3>1. u = t
        BY <1>7, <2>2, MovesType
    <3>2. SignalOnly(t) \/ SignalAndRebuild(t)
        BY <1>7, <2>2, <3>1, SignalledBefore
    <3> QED BY <1>3, <3>1, <3>2
  <2> QED BY <2>1, <2>2
<1>8. ctx'.variants = VideoTracks /\ ctx'.expected <= Cardinality(VideoTracks \ FailedJoined')
  <2>1. ctx.expected \in Nat /\ Cardinality(VideoTracks \ FailedJoined) \in Nat
      BY <1>0, StreamNames DEF ContextType
  <2>2. ctx'.expected \in Nat
      BY ThreadTypes DEF TypeOK
  <2> QED BY <1>0, <1>3, <2>1, <2>2 DEF SignalInv
<1> QED BY <1>4, <1>5, <1>6, <1>7, <1>8 DEF SignalInv

\* How the main thread's steps change the context.
LEMMA MainContext ==
    ASSUME TypeOK, MainStep
    PROVE  \/ ctx' = ctx /\ joined' = joined /\ (Running' => Running)
           \/ \E t \in Tracks :
                /\ CategoriseResult(t)
                /\ SameButFirst(IF result[t] = "err" /\ t \notin TextTracks
                                THEN SignalFailed(ctx, t) ELSE ctx, ctx')
           \/ /\ FinalizeVariants /\ IsMultiVariant /\ ~Running'
              /\ joined' = joined
              /\ SameButFirst(FinalContext(ctx), ctx')
<1>1. ctx \in ContextType
    BY DEF TypeOK, ContextType
<1>2. ASSUME NEW c \in ContextType, RebuildAll(c) \/ ctx' = c
      PROVE  SameButFirst(c, ctx')
    BY <1>2 DEF RebuildAll, SameButFirst, ContextType
<1>3. ASSUME NEW t \in Tracks, CategoriseResult(t)
      PROVE  SameButFirst(IF result[t] = "err" /\ t \notin TextTracks
                          THEN SignalFailed(ctx, t) ELSE ctx, ctx')
  <2>1. CASE result[t] = "err" /\ t \notin TextTracks
    <3>1. RebuildAll(SignalFailed(ctx, t)) /\ SignalFailed(ctx, t) \in ContextType
        BY <1>1, <1>3, <2>1, SignalTypes DEF CategoriseResult
    <3> QED BY <1>2, <2>1, <3>1
  <2>2. CASE ~(result[t] = "err" /\ t \notin TextTracks)
    <3>1. ctx' = ctx
        BY <1>3, <2>2 DEF CategoriseResult
    <3> QED BY <2>2, <3>1 DEF SameButFirst
  <2> QED BY <2>1, <2>2
<1>4. CASE FinalizeVariants /\ IsMultiVariant
  <2>1. FinalContext(ctx) \in ContextType
      BY FinalContextType
  <2>2. RebuildAll(FinalContext(ctx)) /\ joined' = joined /\ ~Running'
      BY <1>4 DEF FinalizeVariants, Running
  <2> QED BY <1>2, <1>4, <2>1, <2>2
<1>5. CASE \/ JoinTracks \/ WriteFailed \/ WriteFinalPlaylists
           \/ WriteFinalManifest \/ WriteComplete \/ (FinalizeVariants /\ ~IsMultiVariant)
    BY <1>5 DEF JoinTracks, WriteFailed, WriteFinalPlaylists, WriteFinalManifest, WriteComplete,
       FinalizeVariants, AllCategorised, Running, ctxVars, mainVars
<1> QED BY <1>3, <1>4, <1>5 DEF MainStep

LEMMA SignalMain ==
    ASSUME TypeOK, ThreadInv, LockInv, FileInv, SignalInv, MainStep
    PROVE  SignalInv'
<1>0. /\ UNCHANGED <<at, seg, out, result>>
      /\ \A t, o : Listed(t, o)' = Listed(t, o)
      /\ ctx \in ContextType
    BY OtherSteps DEF threadVars, Listed, Past, TypeOK, ContextType
<1>1. CASE ctx' = ctx /\ joined' = joined /\ (Running' => Running)
    BY <1>0, <1>1 DEF SignalInv, FailedJoined
<1>2. ASSUME NEW t \in Tracks, CategoriseResult(t),
             SameButFirst(IF result[t] = "err" /\ t \notin TextTracks
                          THEN SignalFailed(ctx, t) ELSE ctx, ctx')
      PROVE  SignalInv'
  <2> DEFINE heard == result[t] = "err" /\ t \notin TextTracks
  <2>1. /\ t \notin joined /\ joined' = joined \cup {t} /\ Running /\ Running'
        /\ FailedJoined' = FailedJoined \cup (IF result[t] = "err" THEN {t} ELSE {})
      BY <1>0, <1>2 DEF CategoriseResult, Running, FailedJoined
  <2>2. /\ ctx'.variants = ctx.variants /\ ctx'.ready = ctx.ready
        /\ ctx'.texts = ctx.texts /\ ctx'.audio = ctx.audio
    <3>1. CASE heard
      <4>1. SameButFirst(SignalFailed(ctx, t), ctx')
          BY <1>2, <3>1
      <4> QED BY <1>0, <4>1, SignalEffects DEF SameButFirst
    <3>2. CASE ~heard
        BY <1>2, <3>2 DEF SameButFirst
    <3> QED BY <3>1, <3>2
  <2>3. ctx'.expectsAudio => HasAudio /\ AudioTrack \notin FailedJoined'
    <3>1. CASE t = AudioTrack /\ result[t] = "err"
      <4>1. SameButFirst(SignalFailed(ctx, t), ctx') /\ t \notin VideoTracks
          BY <1>2, <3>1, TrackKinds
      <4> QED BY <1>0, <4>1, SignalEffects DEF SameButFirst
    <3>2. CASE ~(t = AudioTrack /\ result[t] = "err")
      <4>1. AudioTrack \in FailedJoined' => AudioTrack \in FailedJoined
          BY <2>1, <3>2
      <4>2. ctx'.expectsAudio => ctx.expectsAudio
        <5>1. CASE heard
          <6>1. SameButFirst(SignalFailed(ctx, t), ctx')
              BY <1>2, <5>1
          <6> QED BY <1>0, <6>1, SignalEffects DEF SameButFirst
        <5>2. CASE ~heard
            BY <1>2, <5>2 DEF SameButFirst
        <5> QED BY <5>1, <5>2
      <4> QED BY <4>1, <4>2 DEF SignalInv
    <3> QED BY <3>1, <3>2
  <2>4. ctx'.expected <= Cardinality(VideoTracks \ FailedJoined')
    <3>0. /\ ctx.expected \in Nat
          /\ ctx.expected <= Cardinality(VideoTracks \ FailedJoined)
          /\ IsFiniteSet(VideoTracks \ FailedJoined)
          /\ Cardinality(VideoTracks \ FailedJoined) \in Nat
        BY <1>0, <2>1, StreamNames DEF ContextType, SignalInv
    <3>1. CASE t \in VideoTracks /\ result[t] = "err"
      <4>1. VideoTracks \ FailedJoined' = (VideoTracks \ FailedJoined) \ {t}
          BY <2>1, <3>1
      <4>2. t \in VideoTracks \ FailedJoined
          BY <2>1, <3>1 DEF FailedJoined
      <4>3. Cardinality(VideoTracks \ FailedJoined') = Cardinality(VideoTracks \ FailedJoined) - 1
          BY <3>0, <4>1, <4>2, FS_RemoveElement
      <4>4. Cardinality(VideoTracks \ FailedJoined) # 0
          BY <3>0, <4>2, FS_EmptySet
      <4>5. SameButFirst(SignalFailed(ctx, t), ctx')
          BY <1>2, <3>1, TrackKinds
      <4>6. SignalFailed(ctx, t).expected = IF ctx.expected > 0 THEN ctx.expected - 1 ELSE 0
          BY <1>0, <3>1, SignalEffects
      <4>7. ctx'.expected = IF ctx.expected > 0 THEN ctx.expected - 1 ELSE 0
          BY <4>5, <4>6 DEF SameButFirst
      <4> QED BY <3>0, <4>3, <4>4, <4>7
    <3>2. CASE ~(t \in VideoTracks /\ result[t] = "err")
      <4>1. VideoTracks \ FailedJoined' = VideoTracks \ FailedJoined
          BY <2>1, <3>2
      <4>2. ctx'.expected = ctx.expected
        <5>1. CASE heard
          <6>1. SameButFirst(SignalFailed(ctx, t), ctx') /\ t \notin VideoTracks
              BY <1>2, <3>2, <5>1
          <6> QED BY <1>0, <6>1, SignalEffects DEF SameButFirst
        <5>2. CASE ~heard
            BY <1>2, <5>2 DEF SameButFirst
        <5> QED BY <5>1, <5>2
      <4> QED BY <3>0, <4>1, <4>2
    <3> QED BY <3>1, <3>2
  <2> QED BY <1>0, <2>1, <2>2, <2>3, <2>4 DEF SignalInv
<1>3. ASSUME FinalizeVariants, ~Running', joined' = joined, SameButFirst(FinalContext(ctx), ctx')
      PROVE  SignalInv'
  <2>1. /\ FinalContext(ctx).ready = Succeeded(VideoTracks)
        /\ FinalContext(ctx).texts = ctx.texts
        /\ FinalContext(ctx).audio = ctx.audio
        /\ FinalContext(ctx).expectsAudio = ctx.expectsAudio
      BY <1>0 DEF FinalContext, ContextType
  <2>2. /\ ctx'.ready = Succeeded(VideoTracks) /\ ctx'.texts = ctx.texts
        /\ ctx'.audio = ctx.audio /\ ctx'.expectsAudio = ctx.expectsAudio
      BY <1>3, <2>1 DEF SameButFirst
  <2>3. \A t \in Succeeded(VideoTracks) : Listed(t, 1) > 0
    <3>1. 1 \in Outputs
        BY CountsAssumption DEF Outputs
    <3>2. ASSUME NEW t \in Tracks, result[t] = "ok" PROVE Listed(t, 1) > 0
      <4>1. Listed(t, 1) = SegmentsOf(t)
          BY <3>1, <3>2, SucceededFiles
      <4> QED BY <4>1, SegmentsCounted
    <3> QED BY <3>2, TrackKinds DEF Succeeded
  <2>4. FailedJoined' = FailedJoined
      BY <1>0, <1>3 DEF FailedJoined
  <2> QED BY <1>0, <1>3, <2>2, <2>3, <2>4 DEF SignalInv
<1> QED BY <1>1, <1>2, <1>3, MainContext

LEMMA SignalStep ==
    ASSUME TypeOK, ThreadInv, LockInv, FileInv, SignalInv, [Next]_vars
    PROVE  SignalInv'
<1>1. CASE FlusherStep \/ Terminated \/ UNCHANGED vars
  <2>1. UNCHANGED <<threadVars, ctxVars, mainVars>>
      BY <1>1 DEF FlusherStep, PollStop, FlushProgress, Terminated, vars
  <2> QED BY <2>1 DEF threadVars, ctxVars, mainVars, SignalInv, Running, FailedJoined, Listed, Past
<1> QED BY <1>1, SignalThread, SignalMain DEF Next

\* The combined manifest of an output: missing until the context says so, and
\* after that only while a rebuild has not come to it.
CombinedOK(o) ==
    /\ combined[o] # NoFile => ctx.first
    /\ ctx.first /\ combined[o] = NoFile => lock # NoThread /\ o >= rebuildAt

LEMMA RebuildInit == Init => RebuildInv
<1> SUFFICES ASSUME Init PROVE RebuildInv
    OBVIOUS
<1>1. /\ ~ctx.first /\ ctx.ready = {} /\ ctx.expected = Cardinality(Videos)
      /\ \A o \in Outputs : combined[o] = NoFile
      /\ lock = NoThread /\ ~playbackReady /\ ~flushReady /\ ~status.ready
    BY DEF Init
<1>2. ~AllTracksReady(ctx)
    BY <1>1, VideoCount, FS_EmptySet DEF AllTracksReady
<1> QED BY <1>1, <1>2 DEF RebuildInv

\* Outside RebuildOutput a thread either leaves the mutex and the first flag
\* as they are, or takes the mutex with the flag up.
LEMMA RebuildBegins ==
    ASSUME TypeOK, NEW t \in Tracks, TrackStep(t) \/ PipelineFails(t) \/ ThreadPanics(t),
           ~RebuildOutput(t)
    PROVE  \/ /\ ctx'.first = ctx.first /\ UNCHANGED <<lock, rebuildAt>>
              /\ ctx' = ctx \/ ~AllTracksReady(ctx')
           \/ ctx'.first /\ lock' = t /\ rebuildAt' = 1
<1> USE DEF diskVars, trackFiles, ctxVars
<1>0. /\ ctx \in ContextType
      /\ SignalManifest(ctx, t) \in ContextType /\ SignalFailed(ctx, t) \in ContextType
      /\ SignalManifest(ctx, t).first = ctx.first
      /\ SignalFailed(ctx, t).first = ctx.first
  <2>1. ctx \in ContextType
      BY DEF TypeOK, ContextType
  <2> QED BY <2>1, SignalTypes, SignalEffects
<1>1. CASE StartTrack(t) \/ WriteSegment(t) \/ TruncatePlaylist(t) \/ WritePlaylist(t)
    BY <1>1 DEF StartTrack, WriteSegment, TruncatePlaylist, WritePlaylist
<1>2. CASE SignalOnly(t)
    BY <1>0, <1>2 DEF SignalOnly, AsksRebuild, MustRebuild
<1>3. CASE SignalAndRebuild(t)
    BY <1>0, <1>3 DEF SignalAndRebuild, BeginRebuild, ContextType
<1>4. CASE ReportFailure(t)
    BY <1>0, <1>4 DEF ReportFailure, MustRebuild
<1>5. CASE ReportFailureAndRebuild(t)
    BY <1>0, <1>5 DEF ReportFailureAndRebuild, BeginRebuild, ContextType
<1>6. CASE PipelineFails(t) \/ ThreadPanics(t)
    BY <1>6 DEF PipelineFails, ThreadPanics
<1> QED BY <1>1, <1>2, <1>3, <1>4, <1>5, <1>6 DEF TrackStep

LEMMA RebuildThread ==
    ASSUME TypeOK, ThreadInv, LockInv, RebuildInv, NEW t \in Tracks,
           TrackStep(t) \/ PipelineFails(t) \/ ThreadPanics(t)
    PROVE  RebuildInv'
<1>0. /\ UNCHANGED <<flushReady, status>>
      /\ NoThread \notin Tracks
      /\ rebuildAt \in Nat /\ rebuildAt <= OutputCount /\ OutputCount \in Nat
      /\ \A o \in Outputs : o \in Nat /\ 1 <= o /\ o <= OutputCount
      /\ \A o \in Outputs : CombinedOK(o)
      /\ AllTracksReady(ctx) => ctx.first
      /\ lock # NoThread => ctx.first
      /\ playbackReady \/ flushReady \/ status.ready => \A o \in Outputs : combined[o] # NoFile
    BY ThreadFrame, TrackKinds, CountsAssumption
    DEF statusVars, TypeOK, Outputs, RebuildInv, CombinedOK
<1>1. ASSUME ~RebuildOutput(t) PROVE RebuildInv'
  <2>1. combined' = combined /\ playbackReady' = playbackReady
      BY <1>1, ThreadFrame
  <2>2. CASE /\ ctx'.first = ctx.first /\ UNCHANGED <<lock, rebuildAt>>
             /\ ctx' = ctx \/ ~AllTracksReady(ctx')
    <3>1. AllTracksReady(ctx)' => ctx'.first
      <4>1. AllTracksReady(ctx)' <=> AllTracksReady(ctx')
          BY DEF AllTracksReady
      <4> QED BY <1>0, <2>2, <4>1
    <3> QED BY <1>0, <2>1, <2>2, <3>1 DEF RebuildInv, CombinedOK
  <2>3. CASE ctx'.first /\ lock' = t /\ rebuildAt' = 1
      BY <1>0, <2>1, <2>3 DEF RebuildInv, CombinedOK
  <2> QED BY <1>1, <2>2, <2>3, RebuildBegins
<1>2. ASSUME RebuildOutput(t) PROVE RebuildInv'
  <2>1. /\ lock = t /\ ctx' = ctx /\ lock # NoThread /\ ctx.first
        /\ combined' = [combined EXCEPT ![rebuildAt] = ProgressiveMaster(ctx, rebuildAt)]
      BY <1>0, <1>2 DEF RebuildOutput
  <2>2. /\ combined'[rebuildAt] # NoFile
        /\ \A o \in Outputs : o # rebuildAt => combined'[o] = combined[o]
        /\ \A o \in Outputs : combined[o] # NoFile => combined'[o] # NoFile
    <3>1. ProgressiveMaster(ctx, rebuildAt) # NoFile
        BY FileKinds DEF ProgressiveMaster
    <3> QED BY <2>1, <3>1 DEF TypeOK
  <2>3. AllTracksReady(ctx)' <=> AllTracksReady(ctx)
      BY <2>1 DEF AllTracksReady
  <2>4. CASE rebuildAt < OutputCount
    <3>1. rebuildAt' = rebuildAt + 1 /\ UNCHANGED <<lock, playbackReady>>
        BY <1>2, <2>4 DEF RebuildOutput
    <3>2. \A o \in Outputs : combined'[o] = NoFile => o >= rebuildAt + 1
        BY <1>0, <2>1, <2>2 DEF CombinedOK
    <3> QED BY <1>0, <2>1, <2>2, <2>3, <3>1, <3>2 DEF RebuildInv
  <2>5. CASE ~(rebuildAt < OutputCount)
    <3>1. lock' = NoThread
        BY <1>2, <2>5 DEF RebuildOutput
    <3>2. \A o \in Outputs : combined'[o] # NoFile
        BY <1>0, <2>1, <2>2, <2>5 DEF CombinedOK
    <3> QED BY <1>0, <2>1, <2>3, <3>1, <3>2 DEF RebuildInv
  <2> QED BY <2>4, <2>5
<1> QED BY <1>1, <1>2

\* What the last phase puts in an output is a file.
LEMMA FinalManifestExists ==
    ASSUME TypeOK, ThreadInv, FileInv, Succeeded(VideoTracks) # {}, NEW o \in Outputs
    PROVE  FinalManifest(o) # NoFile
<1>1. CASE IsMultiVariant
    BY <1>1, FileKinds DEF FinalManifest
<1>2. CASE ~IsMultiVariant
  <2>1. PICK t \in VideoTracks : result[t] = "ok"
      BY DEF Succeeded
  <2>2. t \in Tracks /\ PlaylistOf(t) = Primary
      BY <1>2, TrackKinds DEF PlaylistOf
  <2>3. playlists[o][Primary] = Playlist(t, SegmentsOf(t), TRUE)
      BY <2>1, <2>2, SucceededFiles
  <2> QED BY <2>3, FileKinds DEF FinalManifest
<1> QED BY <1>1, <1>2

LEMMA RebuildMain ==
    ASSUME TypeOK, ThreadInv, FileInv, LockInv, RebuildInv, FinalInv, MainStep
    PROVE  RebuildInv'
<1>0. /\ UNCHANGED <<lock, rebuildAt, playbackReady>>
      /\ \A o \in Outputs : CombinedOK(o)
      /\ AllTracksReady(ctx) => ctx.first
      /\ lock # NoThread => ctx.first
      /\ playbackReady \/ flushReady \/ status.ready => \A o \in Outputs : combined[o] # NoFile
      /\ ctx \in ContextType
    BY OtherSteps DEF RebuildInv, CombinedOK, TypeOK, ContextType
<1>1. flushReady' = flushReady /\ (status'.ready => status.ready)
  <2>1. CASE WriteFailed \/ WriteComplete
    <3>1. \/ status' = [state |-> "Failed", ready |-> FALSE]
          \/ status' = [state |-> "Complete", ready |-> FALSE]
        BY <2>1 DEF WriteFailed, WriteComplete
    <3>2. ~status'.ready
        BY <3>1
    <3> QED BY <2>1, <3>2 DEF WriteFailed, WriteComplete
  <2>2. CASE UNCHANGED <<status, flushReady>>
      BY <2>2
  <2> QED BY <2>1, <2>2 DEF MainStep, JoinTracks, CategoriseResult, FinalizeVariants,
      WriteFinalPlaylists, WriteFinalManifest, statusVars
<1>2. ASSUME NEW c \in ContextType, c.first = ctx.first \/ c.first, RebuildAll(c)
      PROVE  RebuildInv'
  <2>1. CASE MustRebuild(c)
    <3>1. ctx'.first /\ \A o \in Outputs : combined'[o] # NoFile
      <4>1. /\ ctx' = [c EXCEPT !.first = TRUE]
            /\ combined' = [o \in Outputs |-> ProgressiveMaster(c, o)]
          BY <1>2, <2>1 DEF RebuildAll
      <4>2. \A o : ProgressiveMaster(c, o) # NoFile
          BY FileKinds DEF ProgressiveMaster
      <4> QED BY <4>1, <4>2 DEF ContextType
    <3> QED BY <3>1 DEF RebuildInv
  <2>2. CASE ~MustRebuild(c)
    <3>1. ctx' = c /\ combined' = combined /\ ~c.first /\ ~AllTracksReady(c)
        BY <1>2, <2>2 DEF RebuildAll, MustRebuild
    <3>2. ~ctx.first
        BY <1>2, <3>1
    <3>3. lock = NoThread /\ \A o \in Outputs : combined[o] = NoFile
        BY <1>0, <3>2 DEF CombinedOK
    <3>4. ~AllTracksReady(ctx)'
        BY <3>1 DEF AllTracksReady
    <3>5. \A o \in Outputs : combined'[o] = NoFile
        BY <3>1, <3>3
    <3>6. lock' = NoThread /\ ~ctx'.first
        BY <1>0, <3>1, <3>3
    <3>7. ~playbackReady' /\ ~flushReady' /\ ~status'.ready
      <4>1. 1 \in Outputs
          BY CountsAssumption DEF Outputs
      <4> QED BY <1>0, <1>1, <3>3, <4>1
    <3> QED BY <3>4, <3>5, <3>6, <3>7 DEF RebuildInv
  <2> QED BY <2>1, <2>2
<1>3. ASSUME ctx' = ctx, \A o \in Outputs : combined'[o] = combined[o]
      PROVE  RebuildInv'
    BY <1>0, <1>1, <1>3 DEF RebuildInv, CombinedOK, AllTracksReady
<1>4. ASSUME NEW t \in Tracks, CategoriseResult(t) PROVE RebuildInv'
  <2>1. CASE result[t] = "err" /\ t \notin TextTracks
      BY <1>0, <1>2, <1>4, <2>1, SignalTypes, SignalEffects DEF CategoriseResult
  <2>2. CASE ~(result[t] = "err" /\ t \notin TextTracks)
      BY <1>3, <1>4, <2>2 DEF CategoriseResult
  <2> QED BY <2>1, <2>2
<1>5. CASE FinalizeVariants
  <2>1. CASE IsMultiVariant
    <3>1. RebuildAll(FinalContext(ctx)) /\ FinalContext(ctx).first
        BY <1>0, <1>5, <2>1 DEF FinalizeVariants, FinalContext, ContextType
    <3>2. FinalContext(ctx) \in ContextType
        BY FinalContextType
    <3> QED BY <1>2, <3>1, <3>2
  <2>2. CASE ~IsMultiVariant
      BY <1>3, <1>5, <2>2 DEF FinalizeVariants
  <2> QED BY <2>1, <2>2
<1>6. CASE WriteFinalManifest
  <2>1. /\ finalAt \in Outputs /\ ctx.first /\ Succeeded(VideoTracks) # {}
        /\ ctx' = ctx
        /\ combined' = [combined EXCEPT ![finalAt] = FinalManifest(finalAt)]
      BY <1>6 DEF WriteFinalManifest, FinalInv, ctxVars
  <2>2. FinalManifest(finalAt) # NoFile
      BY <2>1, FinalManifestExists
  <2>3. \A o \in Outputs : combined'[o] # NoFile \/ combined'[o] = combined[o]
      BY <2>1, <2>2 DEF TypeOK
  <2> QED BY <1>0, <1>1, <2>1, <2>3 DEF RebuildInv, CombinedOK, AllTracksReady
<1>7. CASE JoinTracks \/ WriteFailed \/ WriteFinalPlaylists \/ WriteComplete
    BY <1>3, <1>7 DEF JoinTracks, WriteFailed, WriteFinalPlaylists, WriteComplete, diskVars, ctxVars
<1> QED BY <1>4, <1>5, <1>6, <1>7 DEF MainStep

LEMMA RebuildStep ==
    ASSUME TypeOK, ThreadInv, FileInv, LockInv, RebuildInv, FinalInv, [Next]_vars
    PROVE  RebuildInv'
<1>1. CASE FlusherStep
  <2>1. /\ UNCHANGED <<ctx, lock, rebuildAt, playbackReady, combined>>
        /\ flushReady' = flushReady \/ flushReady' = playbackReady
        /\ status'.ready = status.ready \/ status'.ready = flushReady
      BY <1>1 DEF FlusherStep, PollStop, FlushProgress, diskVars, ctxVars
  <2> QED BY <2>1 DEF RebuildInv, AllTracksReady
<1>2. CASE Terminated \/ UNCHANGED vars
    BY <1>2 DEF Terminated, vars, diskVars, ctxVars, statusVars, RebuildInv, AllTracksReady
<1> QED BY <1>1, <1>2, RebuildThread, RebuildMain DEF Next

-----------------------------------------------------------------------------
(* A job in which no track has failed.                                      *)

LEMMA SteadyInit == Init => SteadyInv
<1> SUFFICES ASSUME Init PROVE SteadyInv
    OBVIOUS
<1>1. /\ ctx.variants = VideoTracks /\ ctx.expected = Cardinality(VideoTracks)
      /\ ctx.expectsAudio = HasAudio /\ ~ctx.first
    BY VideoCount DEF Init
<1>2. \A o \in Outputs : Steady(o)
    BY FileKinds DEF Init, Steady
<1>3. \A t \in Tracks : at[t] \notin {"failed", "rebuildFailed"} /\ result[t] # "err"
    BY DEF Init
<1> QED BY <1>1, <1>2, <1>3 DEF SteadyInv

\* A rebuild that waits for every video track waits for all of them.
LEMMA AllVideosReady ==
    ASSUME NEW c \in ContextType, MustRebuild(c),
           c.expected = Cardinality(VideoTracks), c.first => c.ready = VideoTracks
    PROVE  c.ready = VideoTracks
<1>1. CASE c.first
    BY <1>1
<1>2. CASE AllTracksReady(c)
  <2>1. /\ c.ready \in SUBSET VideoTracks
        /\ Cardinality(c.ready) >= Cardinality(VideoTracks)
      BY <1>2 DEF AllTracksReady, ContextType
  <2>2. /\ Cardinality(c.ready) \in Nat /\ Cardinality(VideoTracks) \in Nat
        /\ Cardinality(c.ready) <= Cardinality(VideoTracks)
      BY <2>1, StreamNames, VideoCount
  <2>3. Cardinality(c.ready) = Cardinality(VideoTracks)
      BY <2>1, <2>2
  <2> QED BY <2>1, <2>3, VideoCount, FS_Subset
<1> QED BY <1>1, <1>2 DEF MustRebuild

\* What every rebuild writes while no track has failed.
LEMMA SteadyMaster ==
    ASSUME NEW c, c.variants = VideoTracks, c.ready = VideoTracks, NEW o
    PROVE  /\ IsMaster(ProgressiveMaster(c, o))
           /\ ProgressiveMaster(c, o).streams = Streams(VideoTracks)
           /\ ProgressiveMaster(c, o).audio <=> c.audio /\ AudioIsRead(o)
           /\ ProgressiveMaster(c, o).texts = c.texts \cup RawTracks
<1>1. (IF IsMultiVariant THEN c.variants \cap c.ready ELSE c.variants) = VideoTracks
    OBVIOUS
<1>2. ProgressiveMaster(c, o) =
          [streams |-> Streams(VideoTracks),
           audio |-> c.audio /\ AudioIsRead(o),
           texts |-> c.texts \cup RawTracks, complete |-> FALSE]
    BY <1>1 DEF ProgressiveMaster, Master
<1>3. ProgressiveMaster(c, o).audio <=> c.audio /\ AudioIsRead(o)
  <2> DEFINE there == c.audio /\ AudioIsRead(o)
  <2>1. ProgressiveMaster(c, o).audio = there
      BY <1>2
  <2>2. there \in BOOLEAN
      BY DEF AudioIsRead
  <2> HIDE DEF there
  <2>3. ProgressiveMaster(c, o).audio <=> there
      BY <2>1, <2>2, Zenon
  <2> QED BY <2>3 DEF there
<1>4. IsMaster(ProgressiveMaster(c, o))
    BY FileKinds DEF ProgressiveMaster
<1> QED BY <1>2, <1>3, <1>4

LEMMA SteadyThread ==
    ASSUME TypeOK, ThreadInv, LockInv, SignalInv, RebuildInv, SteadyInv, NEW t \in Tracks,
           TrackStep(t) \/ PipelineFails(t) \/ ThreadPanics(t), failures' = 0
    PROVE  SteadyInv'
<1>0. /\ failures = 0 /\ ctx \in ContextType
      /\ ~PipelineFails(t) /\ ~ThreadPanics(t)
  <2>1. failures \in Nat /\ (failures' = failures \/ failures' = failures + 1)
      BY ThreadFrame, CountsAssumption DEF TypeOK
  <2>2. PipelineFails(t) \/ ThreadPanics(t) => failures' = failures + 1
      BY DEF PipelineFails, ThreadPanics
  <2> QED BY <2>1, <2>2 DEF TypeOK, ContextType
<1>1. /\ at[t] \notin {"failed", "rebuildFailed"} /\ result[t] # "err"
      /\ ctx.variants = VideoTracks /\ ctx.expected = Cardinality(VideoTracks)
      /\ ctx.expectsAudio = HasAudio
      /\ ctx.first => ctx.ready = VideoTracks
      /\ \A o \in Outputs : Steady(o)
      /\ ~ReportFailure(t) /\ ~ReportFailureAndRebuild(t)
    BY <1>0 DEF SteadyInv, ReportFailure, ReportFailureAndRebuild
<1>2. \A u \in Tracks : at'[u] \notin {"failed", "rebuildFailed"} /\ result'[u] # "err"
  <2>1. at'[t] \notin {"failed", "rebuildFailed"} /\ result'[t] # "err"
    <3>0. at \in [Tracks -> Places] /\ result \in [Tracks -> {"running", "ok", "err"}]
        BY DEF TypeOK, Places
    <3>1. CASE \/ StartTrack(t) \/ WriteSegment(t) \/ TruncatePlaylist(t)
               \/ SignalAndRebuild(t)
        BY <1>1, <3>0, <3>1
        DEF StartTrack, WriteSegment, TruncatePlaylist, SignalAndRebuild, Goto
    <3>2. CASE at[t] \in Working /\ Advance(t)
        BY <3>2, Advances
    <3>3. CASE WritePlaylist(t) \/ SignalOnly(t)
        BY <1>1, <3>0, <3>2, <3>3 DEF WritePlaylist, SignalOnly, Goto, Working
    <3>4. CASE RebuildOutput(t)
      <4>1. at[t] = "rebuild"
          BY <1>1, <3>4 DEF RebuildOutput
      <4>2. Advance(t) \/ UNCHANGED threadVars
          BY <3>4, <4>1 DEF RebuildOutput
      <4> QED BY <1>1, <3>2, <4>1, <4>2 DEF Working, threadVars
    <3> QED BY <1>0, <1>1, <3>1, <3>3, <3>4 DEF TrackStep
  <2> QED BY <1>0, <2>1, MovesType DEF SteadyInv
<1>3. /\ ctx'.variants = VideoTracks /\ ctx'.expected = Cardinality(VideoTracks)
      /\ ctx'.expectsAudio = HasAudio
      /\ ctx.ready \subseteq ctx'.ready /\ ctx.texts \subseteq ctx'.texts
      /\ ctx.audio => ctx'.audio
  <2>1. CASE ctx' = ctx
      BY <1>1, <2>1
  <2>2. CASE SameButFirst(SignalManifest(ctx, t), ctx')
    <3> DEFINE s == SignalManifest(ctx, t)
    <3>1. /\ s.expected = ctx.expected /\ s.expectsAudio = ctx.expectsAudio
          /\ s.variants = ctx.variants
          /\ ctx.ready \subseteq s.ready /\ ctx.texts \subseteq s.texts
          /\ ctx.audio => s.audio
        BY <1>0, SignalEffects
    <3>2. SameButFirst(s, ctx')
        BY <2>2
    <3> HIDE DEF s
    <3> QED BY <1>1, <3>1, <3>2 DEF SameButFirst
  <2> QED BY <1>1, <2>1, <2>2, ContextSteps
<1>4. ctx'.first => ctx'.ready = VideoTracks
  <2>0. ctx' \in ContextType
      BY ThreadTypes DEF TypeOK, ContextType
  <2>1. ASSUME ctx'.first, ctx.first PROVE ctx'.ready = VideoTracks
      BY <1>1, <1>3, <2>0, <2>1 DEF ContextType
  <2>2. ASSUME ctx'.first, ~ctx.first PROVE ctx'.ready = VideoTracks
    <3>1. SignalAndRebuild(t)
      <4>1. ~SignalOnly(t)
        <5>1. SignalManifest(ctx, t).first = ctx.first
            BY <1>0, SignalEffects
        <5> QED BY <2>2, <5>1 DEF SignalOnly
      <4> QED BY <1>1, <2>2, <4>1, ThreadFrame
    <3>2. /\ MustRebuild(SignalManifest(ctx, t)) /\ SignalManifest(ctx, t) \in ContextType
          /\ SignalManifest(ctx, t).expected = Cardinality(VideoTracks)
          /\ ~SignalManifest(ctx, t).first
          /\ ctx' = [SignalManifest(ctx, t) EXCEPT !.first = TRUE]
      <4>1. /\ SignalManifest(ctx, t) \in ContextType
            /\ SignalManifest(ctx, t).expected = ctx.expected
            /\ SignalManifest(ctx, t).first = ctx.first
          BY <1>0, SignalEffects, SignalTypes
      <4>2. /\ MustRebuild(SignalManifest(ctx, t))
            /\ ctx' = [SignalManifest(ctx, t) EXCEPT !.first = TRUE]
          BY <3>1 DEF SignalAndRebuild, BeginRebuild
      <4> QED BY <1>1, <2>2, <4>1, <4>2
    <3>3. SignalManifest(ctx, t).ready = VideoTracks
        BY <3>2, AllVideosReady
    <3> QED BY <3>2, <3>3 DEF ContextType
  <2> QED BY <2>1, <2>2
<1>5. ASSUME NEW o \in Outputs PROVE Steady(o)'
  <2>1. ASSUME playlists[o][AudioTrack] # NoFile, ctx.audio
        PROVE  playlists'[o][AudioTrack] # NoFile
    <3>1. AudioTrack \in Tracks /\ PlaylistOf(AudioTrack) = AudioTrack
        BY <2>1, TrackKinds DEF SignalInv, PlaylistOf
    <3>2. AudioTrack \in PlaylistNames
        BY <3>1, PlaylistFiles
    <3>3. \/ playlists'[o][AudioTrack] = playlists[o][AudioTrack]
          \/ playlists'[o][AudioTrack] = Playlist(t, seg[t] + 1, TRUE)
          \/ playlists'[o][AudioTrack] = EmptyFile
      <4>1. \A p \in PlaylistNames : playlists'[o][p] =
                IF p # PlaylistOf(t) \/ o # out[t] THEN playlists[o][p]
                ELSE IF WritePlaylist(t) THEN Playlist(t, seg[t] + 1, TRUE)
                ELSE IF TruncatePlaylist(t) THEN EmptyFile ELSE playlists[o][p]
          BY FileWrites, Zenon
      <4> QED BY <3>2, <4>1
    <3> QED BY <2>1, <3>3, FileKinds
  <2>2. CASE combined'[o] = combined[o]
    <3>1. IsMaster(combined[o]) =>
              /\ combined[o].streams = Streams(VideoTracks)
              /\ combined[o].audio => ctx.audio /\ playlists[o][AudioTrack] # NoFile
              /\ combined[o].texts \subseteq ctx.texts \cup RawTracks
        BY <1>1 DEF Steady
    <3>2. IsMaster(combined'[o]) =>
              /\ combined'[o].streams = Streams(VideoTracks)
              /\ combined'[o].audio => ctx'.audio /\ playlists'[o][AudioTrack] # NoFile
              /\ combined'[o].texts \subseteq ctx'.texts \cup RawTracks
      <4>1. combined[o].audio => ctx'.audio \/ ~IsMaster(combined[o])
          BY <1>3, <3>1
      <4> QED BY <1>3, <2>1, <2>2, <3>1, <4>1
    <3> QED BY <3>2 DEF Steady, IsMaster, Streams
  <2>3. CASE RebuildOutput(t) /\ o = rebuildAt
    <3>1. /\ ctx' = ctx /\ playlists' = playlists /\ ctx.first
          /\ combined'[o] = ProgressiveMaster(ctx, o)
        BY <2>3, TrackKinds DEF RebuildOutput, trackFiles, RebuildInv, TypeOK
    <3>2. ctx.ready = VideoTracks
        BY <1>1, <3>1
    <3> QED BY <1>1, <3>1, <3>2, SteadyMaster DEF Steady, IsMaster, Streams, AudioIsRead
  <2>4. combined'[o] = combined[o] \/ (RebuildOutput(t) /\ o = rebuildAt)
      BY ThreadFrame DEF RebuildOutput, TypeOK
  <2> QED BY <2>2, <2>3, <2>4
<1> QED BY <1>2, <1>3, <1>4, <1>5 DEF SteadyInv

\* In the last phase of a job without failures every track has succeeded.
LEMMA AllSucceeded ==
    ASSUME TypeOK, ThreadInv, LockInv, SteadyInv, failures = 0, main # "join"
    PROVE  /\ \A t \in Tracks : result[t] = "ok"
           /\ Succeeded(VideoTracks) = VideoTracks
<1>1. \A t \in Tracks : result[t] = "ok"
    BY DEF TypeOK, ThreadInv, ThreadOK, LockInv, SteadyInv
<1> QED BY <1>1, TrackKinds DEF Succeeded

LEMMA SteadyMain ==
    ASSUME TypeOK, ThreadInv, FileInv, LockInv, SignalInv, FinalInv, SteadyInv,
           MainStep, failures' = 0
    PROVE  SteadyInv'
<1>0. /\ failures = 0 /\ UNCHANGED <<at, result>> /\ ctx \in ContextType
      /\ \A t \in Tracks : at[t] \notin {"failed", "rebuildFailed"} /\ result[t] # "err"
      /\ ctx.variants = VideoTracks /\ ctx.expected = Cardinality(VideoTracks)
      /\ ctx.expectsAudio = HasAudio
      /\ ctx.first => ctx.ready = VideoTracks
      /\ \A o \in Outputs : Steady(o)
    BY OtherSteps DEF threadVars, TypeOK, ContextType, SteadyInv
<1>1. ASSUME NEW o \in Outputs, ctx.audio, playlists[o][AudioTrack] # NoFile
      PROVE  playlists'[o][AudioTrack] # NoFile
  <2>1. AudioTrack \in Tracks /\ PlaylistOf(AudioTrack) = AudioTrack
      BY <1>1, TrackKinds DEF SignalInv, PlaylistOf
  <2>2. playlists'[o][PlaylistOf(AudioTrack)] = playlists[o][PlaylistOf(AudioTrack)]
      BY <2>1, FinalPlaylistsKept
  <2> QED BY <1>1, <2>1, <2>2
<1>2. ASSUME NEW o \in Outputs, combined'[o] = combined[o],
             ctx'.audio = ctx.audio, ctx'.texts = ctx.texts
      PROVE  Steady(o)'
  <2>1. IsMaster(combined[o]) =>
            /\ combined[o].streams = Streams(VideoTracks)
            /\ combined[o].audio => ctx.audio /\ playlists[o][AudioTrack] # NoFile
            /\ combined[o].texts \subseteq ctx.texts \cup RawTracks
      BY <1>0 DEF Steady
  <2>2. IsMaster(combined'[o]) =>
            /\ combined'[o].streams = Streams(VideoTracks)
            /\ combined'[o].audio => ctx'.audio /\ playlists'[o][AudioTrack] # NoFile
            /\ combined'[o].texts \subseteq ctx'.texts \cup RawTracks
      BY <1>1, <1>2, <2>1
  <2> QED BY <2>2 DEF Steady, IsMaster, Streams
<1>3. CASE ctx' = ctx /\ combined' = combined
  <2>1. \A o \in Outputs : Steady(o)'
      BY <1>2, <1>3
  <2> QED BY <1>0, <1>3, <2>1 DEF SteadyInv
<1>4. CASE FinalizeVariants /\ IsMultiVariant
  <2>1. Succeeded(VideoTracks) = VideoTracks
      BY <1>0, <1>4, AllSucceeded DEF FinalizeVariants, AllCategorised
  <2> DEFINE c == FinalContext(ctx)
  <2>2. /\ c.variants = VideoTracks /\ c.expected = Cardinality(VideoTracks)
        /\ c.ready = VideoTracks /\ c.first /\ c.expectsAudio = HasAudio
        /\ c.audio = ctx.audio /\ c.texts = ctx.texts
      BY <1>0, <2>1 DEF FinalContext, ContextType
  <2>3. c \in ContextType /\ RebuildAll(c)
      BY <1>4, FinalContextType DEF FinalizeVariants
  <2> HIDE DEF c
  <2>4. /\ ctx' = [c EXCEPT !.first = TRUE]
        /\ combined' = [o \in Outputs |-> ProgressiveMaster(c, o)]
      BY <2>2, <2>3 DEF RebuildAll, MustRebuild
  <2>5. /\ ctx'.variants = VideoTracks /\ ctx'.expected = Cardinality(VideoTracks)
        /\ ctx'.ready = VideoTracks /\ ctx'.expectsAudio = HasAudio
        /\ ctx'.audio = ctx.audio /\ ctx'.texts = ctx.texts
      BY <2>2, <2>3, <2>4 DEF ContextType
  <2>6. ASSUME NEW o \in Outputs PROVE Steady(o)'
    <3>1. combined'[o] = ProgressiveMaster(c, o)
        BY <2>4
    <3>2. /\ combined'[o].streams = Streams(VideoTracks)
          /\ combined'[o].audio => ctx.audio /\ playlists[o][AudioTrack] # NoFile
          /\ combined'[o].texts = ctx.texts \cup RawTracks
        BY <2>2, <3>1, SteadyMaster DEF AudioIsRead
    <3> QED BY <1>1, <2>5, <3>2 DEF Steady, Streams
  <2> QED BY <1>0, <2>5, <2>6 DEF SteadyInv
<1>5. CASE WriteFinalManifest
  <2>1. /\ finalAt \in Outputs /\ main # "join"
        /\ UNCHANGED <<playlists, ctx>>
        /\ combined' = [combined EXCEPT ![finalAt] = FinalManifest(finalAt)]
      BY <1>5 DEF WriteFinalManifest, FinalInv, ctxVars, trackFiles
  <2>2. (\A t \in Tracks : result[t] = "ok") /\ Succeeded(VideoTracks) = VideoTracks
      BY <1>0, <2>1, AllSucceeded
  <2>3. \A t \in Tracks : seg[t] > 0
      BY <2>2, SegmentsCounted DEF ThreadInv, ThreadOK
  <2>4. ASSUME NEW o \in Outputs, o = finalAt PROVE Steady(o)'
    <3> DEFINE audio == HasAudio /\ result[AudioTrack] = "ok"
               texts == Succeeded(TextTracks) \cup RawTracks
    <3>1. combined'[o] = FinalManifest(o)
        BY <2>1, <2>4 DEF TypeOK
    <3>2. audio => ctx.audio /\ playlists[o][AudioTrack] # NoFile
      <4>1. ASSUME audio PROVE AudioTrack \in Tracks /\ PlaylistOf(AudioTrack) = AudioTrack
          BY <4>1, TrackKinds DEF PlaylistOf
      <4>2. ASSUME audio PROVE ctx.audio
          BY <2>3, <4>1, <4>2 DEF SignalInv
      <4>3. ASSUME audio PROVE playlists[o][AudioTrack] # NoFile
        <5>1. playlists[o][AudioTrack] = Playlist(AudioTrack, SegmentsOf(AudioTrack), TRUE)
            BY <2>2, <4>1, <4>3, SucceededFiles
        <5> QED BY <5>1, FileKinds
      <4> QED BY <4>2, <4>3
    <3>3. texts \subseteq ctx.texts \cup RawTracks
        BY <2>3, TrackKinds DEF SignalInv, Succeeded
    <3>4. CASE audio \/ texts # {} \/ IsMultiVariant
      <4>1. FinalManifest(o) = [streams |-> Streams(VideoTracks), audio |-> audio,
                                      texts |-> texts, complete |-> TRUE]
          BY <2>2, <3>4 DEF FinalManifest, Master
      <4>2. combined'[o].audio = audio /\ audio \in BOOLEAN
          BY <3>1, <4>1
      <4>3. /\ combined'[o].streams = Streams(VideoTracks)
            /\ combined'[o].texts = texts
          BY <3>1, <4>1
      <4> HIDE DEF audio, texts
      <4>4. combined'[o].audio => audio
          BY <4>2, Zenon
      <4> QED BY <2>1, <3>2, <3>3, <4>3, <4>4 DEF Steady, Streams
    <3>5. CASE ~(audio \/ texts # {} \/ IsMultiVariant)
      <4>1. combined'[o] = playlists[o][Primary]
          BY <3>1, <3>5 DEF FinalManifest
      <4>2. combined'[o] \in Files
          BY <2>1, <4>1, PlaylistFiles DEF TypeOK
      <4>3. ~IsMaster(combined'[o])
          BY <4>2 DEF IsMaster, Files, Playlists, NoFile, EmptyFile
      <4> QED BY <4>3 DEF Steady, IsMaster
    <3> QED BY <3>4, <3>5
  <2>5. ASSUME NEW o \in Outputs, o # finalAt PROVE Steady(o)'
    <3>1. combined'[o] = combined[o]
        BY <2>1, <2>5
    <3> QED BY <1>2, <2>1, <3>1
  <2> QED BY <1>0, <2>1, <2>4, <2>5 DEF SteadyInv
<1>6. ASSUME NEW t \in Tracks, CategoriseResult(t) PROVE ctx' = ctx /\ combined' = combined
    BY <1>0, <1>6 DEF CategoriseResult
<1> QED BY <1>3, <1>4, <1>5, <1>6 DEF MainStep, JoinTracks, WriteFailed, FinalizeVariants,
    WriteFinalPlaylists, WriteComplete, diskVars, ctxVars

LEMMA SteadyStep ==
    ASSUME IInv, [Next]_vars
    PROVE  SteadyInv'
<1>1. CASE FlusherStep \/ Terminated \/ UNCHANGED vars
  <2>1. UNCHANGED <<threadVars, diskVars, ctxVars, failures>>
      BY <1>1 DEF FlusherStep, PollStop, FlushProgress, Terminated, vars
  <2> QED BY <2>1 DEF IInv, threadVars, diskVars, trackFiles, ctxVars, SteadyInv, Steady,
      IsMaster, Streams
<1>2. ASSUME NEW t \in Tracks, TrackStep(t) \/ PipelineFails(t) \/ ThreadPanics(t)
      PROVE  SteadyInv'
  <2>1. failures' = 0 => SteadyInv'
      BY <1>2, SteadyThread DEF IInv
  <2> QED BY <2>1 DEF SteadyInv
<1>3. ASSUME MainStep PROVE SteadyInv'
  <2>1. failures' = 0 => SteadyInv'
      BY <1>3, SteadyMain DEF IInv
  <2> QED BY <2>1 DEF SteadyInv
<1> QED BY <1>1, <1>2, <1>3 DEF Next

-----------------------------------------------------------------------------
(* The theorems.                                                            *)

LEMMA ThreadInit == Init => ThreadInv
BY SegmentsCounted DEF Init, ThreadInv, ThreadOK, Working

\* In every reachable state the files, the mutex, the shared context and the
\* combined manifests stand as the nine parts of IInv say: the invariant that
\* the properties below follow from, kept by every step of every thread.
THEOREM JobInvariant == Spec => []IInv
<1>1. Init => IInv
    BY TypeInit, ThreadInit, FileInit, LockInit, SignalInit, RebuildInit, FinalInit, SteadyInit
    DEF IInv
<1>2. IInv /\ [Next]_vars => IInv'
    BY ThreadStep, TypeStep, FileStep, PrimaryStep, LockStep, SignalStep, RebuildStep,
       FinalStep, SteadyStep DEF IInv
<1> QED BY <1>1, <1>2, PTL DEF Spec

\* Every variable of a job keeps its type, whichever tracks fail.
THEOREM JobTypeCorrect == Spec => []TypeOK
<1>1. IInv => TypeOK
    BY DEF IInv
<1> QED BY <1>1, JobInvariant, PTL

\* What a playlist lists is on disk before it, with the init segment.
LEMMA ListedLoadable ==
    ASSUME TypeOK, ThreadInv, FileInv, NEW t \in Tracks, NEW o \in Outputs,
           Listed(t, o) > 0, ~Rewriting(t, o)
    PROVE  /\ playlists[o][PlaylistOf(t)] = Playlist(t, Listed(t, o), TRUE)
           /\ Loadable(PlaylistOf(t), o)
<1>0. Listed(t, o) \in Nat /\ Listed(t, o) <= OnDisk(t, o) /\ OnDisk(t, o) \in Nat
    BY CountTypes
<1>1. /\ segments[t][o] = OnDisk(t, o)
      /\ playlists[o][PlaylistOf(t)] = Playlist(t, Listed(t, o), TRUE)
  <2>1. /\ segments[t][o] = OnDisk(t, o)
        /\ playlists[o][PlaylistOf(t)] = FileOf(t, o)
      BY DEF FileInv
  <2>2. Listed(t, o) # 0
      BY <1>0
  <2> QED BY <2>1, <2>2, Zenon DEF FileOf
<1>2. t \in inits \cup RawTracks
  <2>1. out[t] \in Nat /\ seg[t] \in Nat
      BY CountsAssumption DEF TypeOK, Outputs
  <2>2. seg[t] > 0 \/ out[t] > 1 \/ at[t] \in {"signal", "rebuild"}
      BY CountTypes
  <2> QED BY <2>1, <2>2 DEF ThreadInv, ThreadOK, Working
<1>3. /\ HasContent(o, PlaylistOf(t))
      /\ playlists[o][PlaylistOf(t)].local
      /\ playlists[o][PlaylistOf(t)].listed = Listed(t, o)
      /\ playlists[o][PlaylistOf(t)].of = t
    BY <1>1, FileKinds DEF Playlist, HasContent
<1>4. Listed(t, o) \in 1 .. OnDisk(t, o)
    BY <1>0
<1>5. Backed(playlists[o][PlaylistOf(t)], o)
    BY <1>1, <1>2, <1>3, <1>4, Zenon DEF Backed
<1> QED BY <1>1, <1>3, <1>5 DEF Loadable

\* The files of a track that is still being written can be played as far as
\* its playlist goes: handle_repackage writes a segment to an output before
\* the playlist that lists it, and the init segment before both.
THEOREM PlaylistsAlwaysBacked == Spec => []PlaylistsBacked
<1>1. IInv => PlaylistsBacked
  <2> SUFFICES ASSUME IInv, NEW o \in Outputs, NEW p \in PlaylistNames,
                      HasContent(o, p), playlists[o][p].local
               PROVE  Backed(playlists[o][p], o)
      BY DEF PlaylistsBacked
  <2> USE DEF IInv
  <2>1. \E t \in Tracks : PlaylistOf(t) = p
    <3>1. CASE p = Primary
      <4>1. ~IsMultiVariant
          BY <3>1 DEF PrimaryInv, HasContent
      <4>2. PICK t \in VideoTracks : TRUE
          BY VideoCount
      <4> QED BY <3>1, <4>1, <4>2, TrackKinds DEF PlaylistOf
    <3>2. CASE p # Primary
        BY <3>2, PlaylistFiles
    <3> QED BY <3>1, <3>2
  <2>2. PICK t \in Tracks : PlaylistOf(t) = p
      BY <2>1
  <2>3. Listed(t, o) > 0 /\ ~Rewriting(t, o)
    <3>1. playlists[o][p] = FileOf(t, o) /\ playlists[o][p] \notin {NoFile, EmptyFile}
        BY <2>2 DEF FileInv, HasContent
    <3>2. Listed(t, o) \in Nat /\ Listed(t, o) # 0 /\ ~Rewriting(t, o)
        BY <2>2, <3>1, CountTypes DEF FileOf
    <3> QED BY <3>2
  <2> QED BY <2>2, <2>3, ListedLoadable DEF Loadable
<1> QED BY <1>1, JobInvariant, PTL

\* The status says that playback may begin only when every output has a
\* combined manifest: progress_playback_ready is raised after the rebuild and
\* no rebuild takes a manifest away.
THEOREM ReadyStatusHasManifests == Spec => []ReadyMeansManifests
<1>1. IInv => ReadyMeansManifests
    BY DEF IInv, RebuildInv, ReadyMeansManifests
<1> QED BY <1>1, JobInvariant, PTL

\* Waiting for the tracks ends: when finalize_with_successful_variants runs,
\* some rebuild has found all_tracks_ready, whoever failed or panicked.
THEOREM DeferralAlwaysEnds == Spec => []DeferralEnds
<1>1. IInv => DeferralEnds
  <2> SUFFICES ASSUME IInv, AllCategorised, NEW o \in Outputs
               PROVE  combined[o] # NoFile
      BY DEF DeferralEnds
  <2> USE DEF IInv
  <2>1. ctx.first
      BY ReadyInTheEnd DEF RebuildInv
  <2>2. lock = NoThread
      BY DEF AllCategorised, LockInv, TypeOK
  <2> QED BY <2>1, <2>2 DEF RebuildInv
<1> QED BY <1>1, JobInvariant, PTL

LEMMA MasterRefs ==
    \A m : Refs(m) = IF IsMaster(m)
                     THEN m.streams \cup m.texts \cup (IF m.audio THEN {AudioTrack} ELSE {})
                     ELSE {}
BY FileKinds DEF Refs

\* Listing all video tracks lists each one's playlist file.
LEMMA StreamsOfAll ==
    \A p \in Streams(VideoTracks) : \E t \in VideoTracks : PlaylistOf(t) = p
<1>1. CASE IsMultiVariant
    BY <1>1, VideoCount DEF Streams, PlaylistOf, IsMultiVariant
<1>2. CASE ~IsMultiVariant
    BY <1>2, VideoCount DEF Streams, PlaylistOf, IsMultiVariant
<1> QED BY <1>1, <1>2

\* While no track has failed, a player that takes the first output's combined
\* manifest can load every playlist it names that is not being rewritten at that
\* moment: rebuild_combined_manifests is deferred until each track it lists has
\* written one there.
THEOREM FirstOutputAlwaysPlayable == Spec => []FirstOutputPlayable
<1>1. IInv => FirstOutputPlayable
  <2> SUFFICES ASSUME IInv, failures = 0, NEW p \in Refs(combined[1]) \ RawTracks
               PROVE  \/ Loadable(p, 1)
                      \/ \E t \in Tracks : PlaylistOf(t) = p /\ Rewriting(t, 1)
      BY DEF FirstOutputPlayable
  <2> USE DEF IInv
  <2>0. 1 \in Outputs
      BY CountsAssumption DEF Outputs
  <2>1. /\ IsMaster(combined[1])
        /\ p \in combined[1].streams \cup combined[1].texts
                     \cup (IF combined[1].audio THEN {AudioTrack} ELSE {})
      BY MasterRefs
  <2>2. /\ combined[1].streams = Streams(VideoTracks)
        /\ combined[1].audio => ctx.audio
        /\ combined[1].texts \subseteq ctx.texts \cup RawTracks
        /\ ctx.first => ctx.ready = VideoTracks
      BY <2>0, <2>1 DEF SteadyInv, Steady
  <2>3. ctx.ready = VideoTracks
      BY <2>0, <2>1, <2>2, FileKinds DEF RebuildInv
  <2>4. ASSUME NEW t \in Tracks, PlaylistOf(t) = p, Listed(t, 1) > 0
        PROVE  Loadable(p, 1) \/ Rewriting(t, 1)
      BY <2>0, <2>4, ListedLoadable
  <2>5. CASE p \in combined[1].streams
    <3>1. PICK t \in VideoTracks : PlaylistOf(t) = p
        BY <2>2, <2>5, StreamsOfAll
    <3> QED BY <2>3, <2>4, <3>1, TrackKinds DEF SignalInv
  <2>6. CASE p \in combined[1].texts
    <3>1. p \in ctx.texts /\ p \in TextTracks
        BY <2>2, <2>6 DEF TypeOK
    <3>2. p \in Tracks /\ PlaylistOf(p) = p
        BY <3>1, TrackKinds DEF PlaylistOf
    <3> QED BY <2>4, <3>1, <3>2 DEF SignalInv
  <2>7. CASE combined[1].audio /\ p = AudioTrack
    <3>1. AudioTrack \in Tracks /\ PlaylistOf(AudioTrack) = AudioTrack
        BY <2>2, <2>7, TrackKinds DEF SignalInv, PlaylistOf
    <3> QED BY <2>2, <2>4, <2>7, <3>1 DEF SignalInv
  <2> QED BY <2>1, <2>5, <2>6, <2>7
<1> QED BY <1>1, JobInvariant, PTL

\* While the tracks run and none has failed, a rebuild takes no video and no
\* text track out of a combined manifest, since the mutex is held from the signal
\* to the last output's file and no thread writes a view older than the one on
\* disk; it takes the audio out only when it reads audio.m3u8 of that output,
\* which the audio thread writes without the mutex, while that file is empty.
THEOREM OnlyRewrittenAudioIsDropped == Spec => OnlyRewrittenAudioDrops
<1>1. ASSUME IInv, [Next]_vars, main = "join", failures = 0, NEW o \in Outputs,
             NEW p \in Refs(combined[o]), p \notin Refs(combined'[o])
      PROVE  p = AudioTrack /\ Rewriting(AudioTrack, o)
  <2> USE <1>1 DEF IInv
  <2>1. combined'[o] # combined[o]
      BY DEF Refs, IsMaster
  <2>2. ASSUME NEW t \in Tracks, RebuildOutput(t), o = rebuildAt
        PROVE  p = AudioTrack /\ Rewriting(AudioTrack, o)
    <3>1. ctx.first /\ combined'[o] = ProgressiveMaster(ctx, o)
        BY <2>2, TrackKinds DEF RebuildOutput, RebuildInv, TypeOK
    <3>2. ctx.variants = VideoTracks /\ ctx.ready = VideoTracks /\ Steady(o)
        BY <3>1 DEF SteadyInv
    <3>3. /\ IsMaster(combined'[o])
          /\ combined'[o].streams = Streams(VideoTracks)
          /\ combined'[o].audio <=> ctx.audio /\ AudioIsRead(o)
          /\ combined'[o].texts = ctx.texts \cup RawTracks
        BY <3>1, <3>2, SteadyMaster
    <3>4. /\ p \in combined[o].streams \cup combined[o].texts
                      \cup (IF combined[o].audio THEN {AudioTrack} ELSE {})
          /\ p \notin combined'[o].streams \cup combined'[o].texts
          /\ p = AudioTrack => ~combined'[o].audio
          /\ IsMaster(combined[o])
        BY <3>3, MasterRefs
    <3>5. /\ combined[o].streams = combined'[o].streams
          /\ combined[o].audio => ctx.audio /\ playlists[o][AudioTrack] # NoFile
          /\ combined[o].texts \subseteq combined'[o].texts
        BY <3>2, <3>3, <3>4 DEF Steady
    <3>6. /\ p = AudioTrack /\ ctx.audio
          /\ playlists[o][AudioTrack] # NoFile /\ ~AudioIsRead(o)
        BY <3>3, <3>4, <3>5
    <3>7. AudioTrack \in Tracks /\ PlaylistOf(AudioTrack) = AudioTrack
        BY <3>6, TrackKinds DEF SignalInv, PlaylistOf
    <3>8. playlists[o][AudioTrack] = EmptyFile /\ playlists[o][AudioTrack] = FileOf(AudioTrack, o)
        BY <3>6, <3>7 DEF AudioIsRead, FileInv
    <3> QED BY <3>6, <3>8, FileKinds DEF FileOf
  <2>3. CASE MainStep
    <3>1. combined' = combined
        BY <2>3 DEF MainStep, JoinTracks, CategoriseResult, WriteFailed, FinalizeVariants,
           WriteFinalPlaylists, WriteFinalManifest, WriteComplete, AllCategorised, diskVars
    <3> QED BY <2>1, <3>1
  <2>4. CASE FlusherStep \/ Terminated \/ UNCHANGED vars
      BY <2>1, <2>4 DEF FlusherStep, PollStop, FlushProgress, Terminated, vars, diskVars
  <2>5. ASSUME NEW t \in Tracks, TrackStep(t) \/ PipelineFails(t) \/ ThreadPanics(t)
        PROVE  p = AudioTrack /\ Rewriting(AudioTrack, o)
    <3>1. combined'[o] = combined[o] \/ (RebuildOutput(t) /\ o = rebuildAt)
        BY <2>5, ThreadFrame DEF RebuildOutput, TypeOK
    <3> QED BY <2>1, <2>2, <3>1
  <2> QED BY <2>3, <2>4, <2>5 DEF Next
<1>2. IInv /\ [Next]_vars =>
          [main = "join" /\ failures = 0 =>
               \A o \in Outputs : \A p \in Refs(combined[o]) \ Refs(combined'[o]) :
                   p = AudioTrack /\ Rewriting(AudioTrack, o)]_vars
    BY <1>1
<1> QED BY <1>2, JobInvariant, PTL DEF Spec, OnlyRewrittenAudioDrops

\* A job that ends with its only variant, or with several, leaves in every
\* output a combined manifest of exactly the tracks that succeeded (and the raw
\* text tracks), each with its complete playlist on disk.
THEOREM FinalManifestsAlwaysPlayable == Spec => []FinalManifestsPlayable
<1>1. IInv => FinalManifestsPlayable
  <2> DEFINE kept == Succeeded(VideoTracks)
  <2> SUFFICES ASSUME IInv, main = "done",
                      Cardinality(kept) > (IF IsMultiVariant THEN 1 ELSE 0),
                      NEW o \in Outputs
               PROVE  /\ IsMaster(combined[o]) =>
                            Refs(combined[o]) = Expected /\ combined[o].complete
                      /\ ~IsMaster(combined[o]) =>
                            combined[o].ended /\ Backed(combined[o], o)
                      /\ \A p \in Refs(combined[o]) :
                            \/ p \in RawTracks /\ result[p] = "err"
                            \/ Loadable(p, o) /\ playlists[o][p].ended
      BY DEF FinalManifestsPlayable
  <2> USE DEF IInv
  <2>1. /\ kept \subseteq VideoTracks /\ kept # {}
        /\ Streams(kept) = IF IsMultiVariant THEN kept ELSE {Primary}
    <3>1. kept \in SUBSET VideoTracks
        BY DEF Succeeded
    <3>2. Cardinality(kept) \in Nat /\ IsFiniteSet(kept)
          /\ (~IsMultiVariant => Streams(kept) = {Primary})
        BY <3>1, StreamNames
    <3>3. Cardinality(kept) # 0
        BY <3>2
    <3> HIDE DEF kept
    <3>4. kept # {}
        BY <3>2, <3>3, FS_EmptySet
    <3> QED BY <3>1, <3>2, <3>4 DEF Streams
  <2>2. combined[o] = FinalManifest(o)
    <3>1. finalAt = OutputCount + 1
        BY <2>1 DEF FinalInv
    <3> QED BY <3>1, CountsAssumption DEF FinalInv, Outputs
  <2>3. \A t \in Tracks : result[t] \in {"ok", "err"}
      BY DEF LockInv, ThreadInv, ThreadOK, TypeOK
  <2>4. ASSUME NEW t \in Tracks, result[t] = "ok", NEW p, p = PlaylistOf(t)
        PROVE  Loadable(p, o) /\ playlists[o][p].ended
    <3>1. Listed(t, o) = SegmentsOf(t)
        BY <2>4, SucceededFiles
    <3>2. Listed(t, o) > 0 /\ ~Rewriting(t, o)
        BY <2>4, <3>1, SegmentsCounted DEF ThreadInv, ThreadOK, Rewriting
    <3>3. playlists[o][p] = Playlist(t, SegmentsOf(t), TRUE)
        BY <2>4, SucceededFiles
    <3>4. Loadable(p, o)
        BY <2>4, <3>2, ListedLoadable
    <3>5. playlists[o][p].ended
        BY <3>3, WholePlaylistEnds
    <3> QED BY <3>4, <3>5
  <2>5. ASSUME NEW p \in Streams(kept) PROVE Loadable(p, o) /\ playlists[o][p].ended
    <3>1. PICK t \in VideoTracks : result[t] = "ok" /\ PlaylistOf(t) = p
        BY <2>1 DEF Succeeded, PlaylistOf
    <3> QED BY <2>4, <3>1, TrackKinds
  <2> DEFINE audio == HasAudio /\ result[AudioTrack] = "ok"
             texts == Succeeded(TextTracks) \cup RawTracks
  <2>6. CASE audio \/ texts # {} \/ IsMultiVariant
    <3>1. combined[o] = [streams |-> Streams(kept), audio |-> audio,
                         texts |-> texts, complete |-> TRUE]
        BY <2>2, <2>6 DEF FinalManifest, Master
    <3>2. IsMaster(combined[o]) /\ combined[o].complete
        BY <3>1 DEF IsMaster
    <3>3. Refs(combined[o]) = Streams(kept) \cup texts
                                  \cup (IF audio THEN {AudioTrack} ELSE {})
      <4>1. /\ combined[o].streams = Streams(kept) /\ combined[o].texts = texts
            /\ combined[o].audio = audio /\ audio \in BOOLEAN
          BY <3>1
      <4> HIDE DEF audio, texts, kept
      <4>2. combined[o].audio <=> audio
          BY <4>1, Zenon
      <4> QED BY <3>2, <4>1, <4>2, MasterRefs
    <3>4. Succeeded(Tracks \ VideoTracks)
              = Succeeded(TextTracks) \cup (IF audio THEN {AudioTrack} ELSE {})
        BY TrackKinds DEF Succeeded
    <3>5. Refs(combined[o]) = Expected
        BY <2>1, <3>3, <3>4 DEF Expected
    <3>6. ASSUME NEW p \in Refs(combined[o])
          PROVE  \/ p \in RawTracks /\ result[p] = "err"
                 \/ Loadable(p, o) /\ playlists[o][p].ended
      <4>1. CASE p \in Streams(kept)
          BY <2>5, <4>1
      <4>2. CASE p \in texts
        <5>1. p \in Tracks /\ PlaylistOf(p) = p /\ (p \in RawTracks \/ result[p] = "ok")
            BY <4>2, TrackKinds DEF Succeeded, PlaylistOf
        <5> QED BY <2>3, <2>4, <5>1
      <4>3. CASE audio /\ p = AudioTrack
        <5>1. AudioTrack \in Tracks /\ PlaylistOf(AudioTrack) = AudioTrack
            BY <4>3, TrackKinds DEF PlaylistOf
        <5> QED BY <2>4, <4>3, <5>1
      <4> QED BY <3>3, <3>6, <4>1, <4>2, <4>3
    <3> QED BY <3>2, <3>5, <3>6
  <2>7. CASE ~(audio \/ texts # {} \/ IsMultiVariant)
    <3>1. combined[o] = playlists[o][Primary]
        BY <2>2, <2>7 DEF FinalManifest
    <3>2. Primary \in Streams(kept)
        BY <2>1, <2>7
    <3>3. combined[o] # NoFile /\ Backed(combined[o], o) /\ combined[o].ended
        BY <2>5, <3>1, <3>2 DEF Loadable, HasContent
    <3>4. ~IsMaster(combined[o])
      <4>1. combined[o] \in Files
          BY <3>1, PlaylistFiles DEF TypeOK
      <4> QED BY <4>1 DEF IsMaster, Files, Playlists, NoFile, EmptyFile
    <3> QED BY <3>3, <3>4, MasterRefs
  <2> QED BY <2>6, <2>7
<1> QED BY <1>1, JobInvariant, PTL

=============================================================================
