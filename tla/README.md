# A verification model of edgepack

edgepack repackages media at the edge: it takes an HLS or DASH source, changes
its encryption (cenc, cbcs, none) and container, and serves HLS and DASH. This
directory holds TLA+ models of the parts of it that have state, concurrency or
data to keep straight, the TLC runs that check them, and TLAPS proofs about the
on-demand packager, the batch pipeline, the sandbox's job, the progressive output, the TS
transport, the rewriting of segments and the manifest parsers.
Paths below are relative to the repository (`src/...` there is the Rust code).

## 1. The system

| Part | State it keeps | Operations | Interacts by |
|---|---|---|---|
| `handler` (routing, policy, request handlers) | none of its own | one handler per route: manifest, init, segment, I-frames, key, and the variant forms | calls the pipeline; reads and writes the cache |
| `repackager/pipeline.rs`, on demand (`jit_setup`, `jit_segment`) | the cache: source manifest, rewrite params, init segment, manifest state, segments, setup marker, DRM keys | set a content up; produce a segment | HTTP to the origin and to SPEKE; cache |
| `repackager/pipeline.rs`, batch (`execute_progressive`) | one `ProgressiveOutput` per (format, scheme) | a loop over the source's segments | a callback with `InitReady` and `SegmentProcessed` events |
| `repackager/progressive.rs`, `manifest/types.rs` | `ManifestState`: phase, segments, parts, I-frames, ad breaks, DVR window | add, finalise, windowed views, cache headers | read by the renderers |
| `manifest/hls.rs`, `manifest/dash.rs` | none | render a state | pure |
| `manifest/hls_input.rs`, `manifest/dash_input.rs` | none | parse a source | pure |
| `cache` | a map behind a read/write lock | `get`, `set`, `set_nx`, `exists`, `delete` | shared by everything |
| `drm` | none | SPEKE/CPIX exchange, AES-CTR and AES-CBC patterns | called by the pipeline |
| `media` | the TS demuxer and muxer keep counters; the rest none | ISOBMFF parse and rewrite, chunks, codecs, SCTE-35, compatibility, TS | called by the pipeline |
| `bin/sandbox.rs` | per job: output directories, the `ProgressiveManifestContext` behind a mutex, progress atomics, the job status in the cache | a job: one thread per track, a flusher thread, a main thread; status and file handlers | threads, mutex, atomics, file system, cache |
| `wasi_handler.rs`, `http_client.rs`, `config.rs`, `url.rs` | none | I/O and parsing | |

What is hard in it: several requests set one content up at once and coordinate
through `set_nx` locks in the cache; each of the reads and writes of a setup can be
interleaved with those of another request, and each remote call can fail;
a request can die with its lock; the source configuration can be replaced
under way; the sandbox's threads write files in any order and rebuild a combined
manifest from what is there; failures are signalled twice; a flusher outlives
the job; a sliding window must agree with every manifest already handed out.
Section 8 lists these as hazards, and `PROJECT.json` gives the line of each.

What makes each part correct:

* on demand: one setup at a time per format, one production at a time per
  segment; what has been published is never replaced; a manifest appears
  only when everything it needs is there; a segment is decryptable with the keys
  its init segment announces; locks are given back; keys do not stay; policy
  holds on every route; a client that keeps asking is answered;
* progressive output: the window is the right one, and numbers, times and
  attached items agree between all manifests ever published;
* batch pipeline: what comes out of any number of rewrites can be decrypted with
  what its init segment, fragments and manifest say; no counter is used twice under
  a key; parts tile their segment; each splice message is announced once; no key is
  missing without a cause;
* manifests: what a parser reads of a manifest is what the renderer put into it, and
  of a manifest of another origin it reads the segments of the right set, ranges
  that tile the file and URLs as RFC 3986 resolves them;
* tracks: a source taken apart gives every track its own segments, and the manifest
  put together of all tracks leads to all of them;
* sandbox job: a manifest names only what is on disk; the deferred first manifest
  comes, whatever fails; the final manifests name exactly what succeeded; the job
  ends.

## 2. Modules

| Module | What it is |
|---|---|
| `JitPackaging` | on-demand packaging: requests, locks, cache, origin, SPEKE, policy, crashes |
| `ContentStore` | what it promises: a write-once store of packagings, manifests and segments |
| `JitPackagingProofs` | theorems about `JitPackaging`, with proofs |
| `SandboxJob` | one job of the sandbox: track threads, shared context, flusher, main thread |
| `SandboxJobProofs` | theorems about `SandboxJob`, with proofs |
| `Packager` | a job of the batch pipeline from source to outputs, and its output as the next source |
| `PackagerProofs` | theorems about `Packager`, `SampleCipher` and `SegmentRewrite`, with proofs |
| `SampleCipher` | which units of a sample cenc and cbcs encrypt, with which counter or chain |
| `SegmentRewrite` | the four rewrites of a media segment, `senc`, chunks |
| `InitSegment` | the four rewrites of an init segment, protection info, tracks, compatibility |
| `KeyExchange` | CPIX request and parser, raw keys, DRM information of a manifest |
| `AdMarkers` | splice messages and the ad breaks made of them |
| `ProgressiveOutput` | the segment loop seen from one output: state, DVR window, published manifests |
| `ProgressiveOutputProofs` | theorems about `ProgressiveOutput`, with proofs |
| `HlsManifest`, `DashManifest` | playlist and MPD as lines and XML events: renderer and parser of each |
| `SourceUrls` | parsing, joining and normalising URLs |
| `SourceTracks` | tracks of a source taken apart, and manifests of tracks put together, as the sandbox does |
| `ManifestReaderProofs` | theorems about `ManifestReader`, with proofs |
| `SourceTracksProofs` | theorems about the tracks that `ManifestReader` takes apart, with proofs |
| `ManifestReader` | an output going on (`ProgressiveOutput`) and a job that reads a manifest of it or of another origin |
| `TsTransport` | MPEG-TS: packetising, demultiplexing, and the fragment made of the result |
| `TsTransportProofs` | theorems about `TsTransport`, with proofs |
| `Lists` | loops over lists, as recursive functions of the position that TLC runs and proofs unfold |
| `DataLemmas` | least elements, partial sums and lists, for the proofs |
| `MCJitPackaging`, `MCSandboxJob`, `MCPackager`, `MCManifestReader`, `MCTsTransport` | instances for TLC |

`Packager` composes `InitSegment`, `SegmentRewrite`, `AdMarkers` and through them
`KeyExchange` and `SampleCipher`; `ManifestReader` composes `ProgressiveOutput` with
`SourceTracks`, `DashManifest`, `HlsManifest` and `SourceUrls`. The operator modules have no
state: each function of the code is an operator, and the composing module has the
state and the order of calls.

### JitPackaging

A client is a thread that serves requests. `pc` says which cache operation or
remote call it does next, and each of these is one step, because anything else may
come between two of them; `req`, `src` and `params` are the handler's locals. The
other variables are cache entries, one per key family of `CacheKeys`:

| Variable | Cache key |
|---|---|
| `sourceConfig` | `ep:{id}:source_config` |
| `setupLocks`, `segmentLocks` | `ep:{id}:{fmt}:lock:setup`, `...:lock:seg:{n}` |
| `setupMarkers` | `ep:{id}:{fmt}:jit_setup` |
| `sourceManifest` | `ep:{id}:{fmt}:source` |
| `rewriteParams`, `initSegment`, `manifestState` | `ep:{id}:{fmt}_{scheme}:...` |
| `mediaSegment` | `ep:{id}:{fmt}_{scheme}:seg:{n}` |
| `drmKeys` | `ep:{id}:keys` |

The value of an entry is the source it was made from; of a segment, the source of
its media and that of the params it was encrypted with. That is all the properties
distinguish. Cells no code writes (unqualified, variant) are not variables: a
lookup of them misses (`LookupHits`).

The actions follow the code in order: `Arrive` (route and policy), `Lookup`,
`LookupOnly` (routes that never set anything up: key, I-frames, and the files of a variant),
`CheckMarker`, `AcquireSetupLock` / `SetupLockTaken`, `RecheckMarker`,
`ResolveSource`, `CheckIdempotent` (and `ReuseSetup`), `FetchSourceManifest`,
`FetchInitSegment`, `ReadKeys`, `RequestKeys`, the three writes, `WriteMarker`,
`CleanupSensitiveData`, `ReleaseSetupLock`, then `ServeManifest`, `ServeInit` or the
segment path. Remote calls, parsing and lookups of a KID can fail (`Fault`); a key set that
lacks the KID looked for is cached before the setup fails (`RequestKeys`, `OtherKid`); a client can
die in any step (`Crash`); the operator can replace the source (`SetSourceConfig`).

The code is a library that is `Send + Sync` around one global cache; the WASI
entry point calls it once per request and the sandbox from many threads. The model
lets requests run at the same time, as the code's locks are there for.

### SandboxJob

One job, with the HLS manifests its files are for; how its DASH manifest is made
is in `SourceTracks`. `at`, `seg`, `out` and `result` are the thread of each
track; `inits`, `segments` and `playlists` are its files; `combined` is
`manifest.m3u8` of each output; `ctx` is the `ProgressiveManifestContext` and
`lock` its mutex; `status` is the job status in the cache. A track's thread truncates its
playlist (`TruncatePlaylist`) and then writes it (`WritePlaylist`), both outside the mutex; a
rebuild reads audio.m3u8 (`AudioIsRead`), and what it reads in between is empty and stands for
no audio. Every other write is one step: no thread reads init segments or segments, and the
final playlists are written when only the main thread is left. A rebuild is one step per
output with the mutex held. `CategoriseResult` and
`FinalizeVariants` include their rebuild, as no thread is left that could contend.
A thread may fail (`PipelineFails`) or panic (`ThreadPanics`) at every point at
which the pipeline can; a panicked thread signals nothing.

### Packager and its operator modules

`source` is what the source's URLs hold, `request` what the client asked for. The
actions are the pieces of `execute_progressive` between its calls that may fail:
`FetchSource` (manifest, init segment, protection), `Validate`, `UseKeys` (raw keys or
`get_or_fetch_keys`), `BuildOutputs` (an init segment, DRM information and output per
scheme), `ProcessSegment` for each segment (demux or not, rewrite, chunks, parts, I-frames,
ad breaks), `SegmentLost`, `Finish` with the cleanup. `StartJob` takes one of the outputs
as the source of a further job; `Republish` replaces the source while keys of a failed job
may still be in `keyCache`, and `ExpireKeys` is that entry's end, by the time to live an edge
platform gives it or by a restart (the in-memory backend expires nothing). `original` and
`stale` are history.

Boxes are records, a segment is the sequence of its top-level boxes. AES is symbolic: a
unit of a sample is the list of layers put on it, and a decryption takes off the layer
that key, counter and position determine, or leaves garbage. A cipher block is
`BlockSize` units, a key is written as its key id, an IV is its 32-bit words. What is read of
an output (`Read`, `ReadFragment`) is written from what the boxes and manifests say, not from
the rewrite code, with one exception: samples are cut one after the other from the start
of the mdat payload, which is where all readers of this program look. A player goes by the
`data_offset` of the `trun`. That is a field of its own here (`dataOffset`); `MoofSize` and
`PayloadAt` say what it has to be. The rewrites copy it while the moof changes its size, and
the transmuxer leaves it 0, so what it leads to is not the samples (`DocDataOffset`): where
this text speaks of samples that are recovered or can be decrypted, it is by readers that do
not go by it.

### ManifestReader and the manifests

`OutputStep` is a step of `ProgressiveOutput`; `Read` fetches one manifest:
`FetchOutput` one this program published, in either format, `FetchOther` a playlist or MPD
of another origin, `ResolveTracks` a source the sandbox takes apart, `CombineTracks` the
DASH manifest the sandbox makes of its tracks, progressive or final. A playlist is its
lines and an MPD its XML events; the parsers are folds with all the state the code's
loops keep, and so are attributes left over from another set. The sandbox's searches
in the text of an MPD ("the next `</Representation>`") are searches among its events.

### ProgressiveOutput

One step per segment of the loop of `execute_progressive`, with all the calls it
makes on `ProgressiveOutput` in their order, and the manifest published with
the event. `published` keeps every manifest, because players and CDNs do.
Durations are whole ticks so that "total exceeds window" is exact, and
`TicksPerMs` ticks make a millisecond so that truncation in the DASH timeline is
visible.

### TsTransport

A segment in one pass: `StartSample` takes the next sample of a track, `SendPacket`
writes one packet of its PES (`Layout`), reads it (`PayloadOffset`) and pushes it
into the demuxer, whose fields are `started`, `header`, `buffer` and `packets` for each
track; `tables` is what it knows of PAT and PMT. `Flush` ends the segment, possibly in
the middle of a PES. Bytes are not modelled but positions are: a buffer is a
sequence of pieces `from..to-1` of a PES, so bytes lost, repeated or under the wrong
header are visible. What `transmux_to_cmaf` computes from the packets are the operators
`FragmentSamples` and `FragmentTime`. `mux_to_ts` writes one track; that the
packets of two tracks interleave is how other muxers write the input.

## 3. Runs

| Run | Instance | Shows |
|---|---|---|
| `JitCore` | 2 clients, 2 sources, 1 format, cbcs and clear, manifests and segments, 3 requests, 1 fault, 1 crash | exclusion, publication order, write-once, segments match their init segment, locks outlive only the dead, refinement of `ContentStore` |
| `JitPolicy` | fairness; all seven kinds of request, 2 formats, 2 schemes; one source and one scheme, the default, not permitted; 2 requests, 1 fault | policy fails closed on every route, for schemes and for what is made from a source; keys, which the formats share, live only inside a setup; every retried request is settled |
| `SandboxTracks` | 3 variants of 1 segment, audio of 2, 2 outputs, 2 failures | playlists are backed, the flag is late enough, deferral ends, manifests lose nothing but audio that is being rewritten, final manifests are right |
| `SandboxSingle` | fairness; 1 variant, audio, 2 texts (1 raw), 2 outputs, 2 failures | the single-variant final path; the job ends |
| `PackagerJobs` | up to 3 jobs in a row over 8 sources (clear, chunked, two keys with subsamples, constant IV, TS, text, unknown scheme, no sample sizes) and 6 requests | what comes out can be decrypted by what it says, from the start of the mdat payload on, is encrypted once, with distinct counters; manifest, PSSH and init segment agree; parts tile, ad breaks come once, keys are missing for a cause only |
| `OutputDvr` | an output of up to 4 segments, live or not, window 6, durations 3 and 7 of half a millisecond, parts, trick play; 2 playlists, 4 MPDs, a master playlist, 2 ready variants | the window and the agreement of manifests; what is read is what was written; tracks and their combination |
| `TsSegments` | video and audio of up to 2 samples, sizes that leave a packet one byte short or need two packets, 2 tables, 1 packet without sync byte, a timescale of 2 rounded to a clock of 3 that wraps at 4 | reassembly under interleaving; samples, sync flags and rounded decode times survive the round trip |

Each property of a passing run is accompanied by a mutant: a definition with a plausible
bug (a dropped guard, a swapped order, a missing reset) under which TLC finds the
property violated. The mutated forms stand before the definitions they replace and
are marked "Mutant".

Runs whose name begins with `Doc` check one sentence of the documentation, a
comment or a constant's meaning against the code; TLC finds each violated:

| Run | The sentence, and what the code does |
|---|---|
| `DocSchemeSetup` | setup is "performed for the given content/format/scheme" (request.rs:279): the marker is per format, so a second scheme is never set up and answers 404 |
| `DocAllVariants` | the first manifest waits for every variant (sandbox.rs:230): a variant that failed after its first segment is counted twice |
| `DocStatusFinal` | "Stop the progress flusher" (sandbox.rs:1239): it is not joined and may overwrite the final status |
| `DocDataOffset` | the data_offset of a trun is a "placeholder — set by muxer" (transmux.rs:1139): nothing sets it, so the fragments of an output point at their moof; in a rewritten segment (segment.rs:487, 531, 577) it counts from a moof of another size |
| `DocVariantTemplates` | content shared by the Representations of a set is included (sandbox.rs:2247): `rep_start` is relative to where the search began, so only the first variant gets the SegmentTemplate and the others cannot be read |

Other divergences that the models reproduce without a run of their own:

* on demand: the key route always answers 404 (`LookupOnly`; README.md:213 says it
  serves the key); rewrite params stay after a setup (`CleanupSensitiveData`;
  docs/architecture.md:289 lists them as deleted on completion); byte ranges of an indexed
  source are ignored (pipeline.rs:688);
* sandbox job: after a multi-variant job with one success the URIs of video.m3u8 name
  no file of the job (`FinalPlaylist`; README.md:403 calls it the single-variant
  fallback); the first combined manifest of a second output can list playlists that are not
  there yet (`ProgressiveMaster`; README.md:371); a raw WebVTT track is listed before its
  files are there (`Streams`; sandbox.rs:295);
* fragments: a segment "may contain multiple moof+mdat pairs" (chunk.rs:4), but a rewrite keeps
  the last pair only (segment.rs:285), which is how `KeptFragments` and with it
  `SamplesRecoverable` are stated; the same holds of TS sources with audio and video, for which
  `transmux_to_cmaf` writes two pairs;
* window: with a newest segment longer than the window, items of segment 0 are returned
  though the window is empty (`Windowed`; types.rs:459), which is why `ItemsFollowWindow` asks
  for a window that holds a segment;
* keys: every track is encrypted with the key of the primary key id (`NewEntries`,
  `RewriteSegment`; docs/architecture.md:491 has a key per track), so a segment of another track is
  only playable because one file holds one track; text tracks make the job fail
  (`ValidRequest`; docs/architecture.md:499 has them bypass encryption); clear lead and key
  rotation are never read (docs/architecture.md:440); raw keys give no PSSH, so HLS has no
  key line where DASH names the scheme (`EmitHlsDrmKeys`); a `drm_systems` override filters the
  manifest but not the init segment (`DrmInfo`, `BuildPsshBoxes`); a codec without an encrypted
  sample entry keeps its clear entry while its segments are encrypted (`HasEncryptedType`);
* CPIX: an empty `<PSSH/>` leaves the parser in it (`Opened`), so the next text becomes a
  PSSH; the run's servers do not send one;
* cbcs: the pattern restarts with the IV at every run of blocks (`RunPosition`; cbcs.rs:148);
* ad breaks: cancelled and null splices and returns to the network are announced as breaks,
  the pts adjustment is ignored, and presentation times mix absolute and elapsed time
  (`AdBreak`); rewrites drop `emsg` boxes (`RewriteSegment`); ad breaks of a source manifest are not
  used;
* DASH input: `S@t` is ignored, `r="-1"` is one segment, the default startNumber is 0, only
  `$Number$` is substituted, a hierarchical sidx reference is skipped without its bytes, an MPD
  without a video set is read as the timelines of all sets in a row;
* HLS input: byte ranges, discontinuities and the media sequence are ignored, numbering
  restarts at 0 at the start of the window (`ReadUri`);
* sandbox tracks: the MPD's own BaseURL is ignored, a slash in the MPD's query is taken for
  one of its path (`TextBase`), a root-relative BaseURL is appended (`Absolute`), the
  multi-variant MPD loses the ContentProtection of its video set (`BuildDashMultiVariantMpd`),
  and its duration is the sum over the timelines of all tracks (`TimelineLength`);
* URLs: a query that holds a slash goes through the normalisation of the path, a trailing
  slash is lost (`Join`, `NormalizePath`).

## 4. Bounds, and why they are enough

* Two clients: every lock, check and publication of the on-demand path relates at
  most one holder and one observer; the proofs of section 6 remove the bounds for the
  safety properties of this component, of the batch pipeline, the sandbox job, the
  progressive output, the TS transport and the manifest parsers. Three requests let a client come back after the others.
* Two sources are what it takes to mix up content; an encrypted and a clear one have
  different ways through a setup. Two schemes share the marker and the locks of one
  format, which is where they meet. Formats share only the source configuration and the
  key set; `JitPolicy` has two, the core run one.
* One fault and one crash: each can hit any step, and the other client carries on.
* Sandbox: one segment and two outputs separate "first output" from "all outputs"; three
  variants and two failures cover the double decrement with a survivor waiting; a second
  segment of the audio is what rewrites audio.m3u8 under the rebuilds of the others. Text
  tracks are in `SandboxSingle` and in the proofs.
* Packager: three jobs are clear to encrypted, encrypted to encrypted with the other scheme,
  and back; a sample of seven units of blocks of two has a pattern with a whole skipped block and
  a partial one at the end, and a sample of one unit has no whole block at all; two segments of
  two samples tell segment from sample index in an IV.
* OutputDvr: four segments of durations 3 and 7 with window 6 let the window grow, slide, be
  exactly filled and be emptied by a segment longer than it; odd durations with two ticks to
  the millisecond make truncation visible. Each playlist and MPD of another origin is the
  smallest that has every kind of reference, set, template, timeline or index; the two ready
  variants have a failed one between them.
* TS: two samples per track are what it takes to finish one PES by the start of the
  next and another by the end of the segment; sizes 162 and 169 make an audio and a
  video packet exactly one byte short, and an IDR sample takes two packets.

`MaxRequests`, `MaxFaults`, `MaxCrashes`, `MaxFailures`, `MaxJobs`, `MaxSamples`, `MaxTables` and
`MaxMalformed` are the only bounds in guards, and in `ManifestReader` that the output waits
while a job has read it (`OutputStep`): the reader keeps no state of the output, so what comes
later cannot matter to it.

## 5. Fairness

* `JitPackaging!FairSpec`: weak fairness of each client's own next step. A handler is a
  straight line of calls that return, and a client that got 202 with `Retry-After`
  asks again. Arrivals, faults, crashes and source changes are not fair. A
  dead client has no step.
* `SandboxJob!FairSpec`: weak fairness per thread. It is enough without any fairness of
  the mutex: each thread asks for it finitely often. Failures are not fair.

The batch pipeline, the readers and the TS code are sequential and loop over what they have;
nothing in them waits, so no liveness is stated of them.

## 6. What is proved

Each theorem holds for all values of the constants that satisfy the named assumptions of
the module it is about. `PROJECT.json` lists the theorems with the properties they state.

### On-demand packaging

`JitPackagingProofs`, for any sets of clients, sources, schemes and segments, and any number
of requests, faults and crashes:

| Theorem | Property |
|---|---|
| `TypeCorrect` | `TypeOK`, and that a request past source resolution holds a source |
| `Exclusion` | `MutualExclusion` |
| `ManifestsServable` | `ManifestServable` |
| `SetupsWriteOnce` | `SetupWrittenOnce` |
| `SegmentsMatchInit` | `SegmentMatchesInit` |
| `FetchesNotDuplicated` | `NoDuplicateFetch` |
| `SegmentsWriteOnce` | `SegmentWrittenOnce` |
| `LocksAreReleased` | `LocksReleased` |
| `MarkersMeanSetup` | `MarkerMeansSetup` |
| `KeysAreTransient` | `KeysTransient` |
| `PolicyHolds` | `PolicyFailsClosed` |
| `StoreImplemented` | `ImplementsContentStore` |

The argument. `MutualExclusion` is inductive by itself. Publication is not: that a
manifest has its init segment and params follows from where the setup that holds
the lock stands. `PublicationInv` says that: for each stream the params, the init
segment and the manifest state have been written in that order and from one source,
and a stream that is only partly written belongs to a format that has no marker yet or
to a setup under way that holds its lock; a setup past the idempotency check works on a
format without a finished setup. With `Exclusion` no second setup can
write in between. `SegmentInv` adds that a segment under production
was loaded with the params its stream still has (they are kept, by
`PublicationInv`) and is not stored yet, and that every stored
segment has the params of its stream; write-once and `NoDuplicateFetch` follow.
`PolicyInv` carries the route's check of the explicit scheme and the setup's check
of the resolved one to every step at which something is written, and `SourcePolicyInv` the check of
the source: a thread holds a permitted source or one that it read from the cache, where
`FromPermittedSources` says that only what was made of permitted sources is. The refinement
uses all of them: each step is one of `ChoosePackaging`, `PublishManifest`,
`StoreSegment`, or leaves the store alone.

### The sandbox job

`SandboxJobProofs`, for any number of variants, text tracks, outputs, segments and failures:

| Theorem | Property |
|---|---|
| `JobInvariant` | `IInv`, the inductive invariant |
| `JobTypeCorrect` | `TypeOK` |
| `PlaylistsAlwaysBacked` | `PlaylistsBacked` |
| `ReadyStatusHasManifests` | `ReadyMeansManifests` |
| `DeferralAlwaysEnds` | `DeferralEnds` |
| `FirstOutputAlwaysPlayable` | `FirstOutputPlayable` |
| `OnlyRewrittenAudioIsDropped` | `OnlyRewrittenAudioDrops` |
| `FinalManifestsAlwaysPlayable` | `FinalManifestsPlayable` |

None of the properties is inductive: each speaks of files or manifests, and what may be in them
depends on where every thread stands. `FileInv` computes a track's files from the place of its
thread: a segment is on disk once its write is past, and listed once the playlist's is.
`PrimaryInv` keeps video.m3u8 of a job with several variants apart, as it is no thread's file and
names none of the job's own. `LockInv` ties the mutex to the one thread that is in a rebuild.
`SignalInv` says whom the shared context has heard of: a track is ready, or audio or text
noted, only when its first segment is listed in the first output, and each track
past its first signal is noted; the expected number of variants is at most that of the
variants not yet known to have failed. `RebuildInv` is the heart: when all tracks are ready
somebody has noticed (`first`), and an output still without a combined manifest means that a
thread holds the mutex and has that output before it. Nobody leaves the mutex before the files
the context calls for are written, so `ReadyMeansManifests` and, with every thread done,
`DeferralEnds` follow. `FinalInv` says which outputs the final phase has behind it.
`SteadyInv` says what a combined manifest names while no track has failed, from which
`FirstOutputPlayable` and `OnlyRewrittenAudioDrops` follow: a playlist that a manifest names is on
disk or between the truncation and the write of its own thread, and audio is left out only by a
rebuild that reads it there.

### The progressive output

`ProgressiveOutputProofs`, for sources of any length, segments of any duration, any window and
any tick:

| Theorem | Property |
|---|---|
| `OutputInvariant` | `OutputInv`, the inductive invariant |
| `OutputTypeCorrect` | `TypeOK` |
| `WindowAlwaysLongestRun` | `WindowIsLongestRun` |
| `ItemsAlwaysFollowWindow` | `ItemsFollowWindow` |
| `ManifestsAlwaysAgree` | `ManifestsAgree` |

`LoopInv` numbers segments by their place and ties the phase to the loop. `PublishedInv` says of
each manifest ever published that it lists the segments after the k-th, up to the one of its
own turn of the loop, for some k from which its first number and its presentation time are
computed. Two manifests then agree on a segment because both have its time as the same partial
sum of truncated durations: `startTime`, the sum up to k, and the sum of what is listed
before it add up to the sum up to the segment, whatever k was. The sums are
recursive functions of the model, and facts about them are proved in `DataLemmas` from
the well-foundedness of the naturals: a sum that fails somewhere fails at a least place.
`WindowIsLongestRun` needs that a longer run lasts longer (`SumMonotone`), which is
why the code may stop at the first segment that no longer fits.

### The TS transport

`TsTransportProofs`, for any of the tracks, samples of any size, any number of packets without
sync byte, any clock and every interleaving of the tracks' packets:

| Theorem | Property |
|---|---|
| `TransportInvariant` | `TransportInv`, the inductive invariant |
| `TransportTypeCorrect` | `TypeOK` |
| `PesAlwaysReassembled` | `PesReassembled` |
| `SamplesAlwaysKept` | `SamplesKept` |
| `DecodeTimesAlwaysKept` | `DecodeTimesKept` |

The invariant is one formula per track (`TrackOK`), about that track's sender and the part of the
demuxer under its PID, so a packet of the other track disturbs nothing of it; the one thing they
share, `tables`, only decides whether a start is known. `SenderOK` says how far the
sender is and which packets were skipped. `DemuxOK` says what the demuxer holds: every PES that
was begun is the one being collected or has come out, those that came out are in the order sent,
one whose packets all arrived is whole, and the one being collected holds exactly the bytes
up to the sender's position. The hard case is a start that comes while its
predecessor is still collected: the predecessor is complete then unless a packet of it was
skipped. `DoneOK` is what `Flush` makes of it. For an intact track there are then
as many PES as samples and the i-th is the i-th sample (`SamplesKept`); the durations of the
fragment are differences of consecutive times and telescope (`DecodeTimesKept`). The
arithmetic of packet layouts (stuffing of zero, one and two bytes) is in the lemmas on `Layout`
and `PayloadOffset`: what is read of a packet is what was put there, for every remaining size.

### The batch pipeline

`PackagerProofs`, for any sources and requests that are well formed, any number of jobs after each
other, failures at every call, and any answers of the key server:

| Theorem | Property |
|---|---|
| `JobInvariant` | `JobInv`, the inductive invariant |
| `TypeCorrect` | `TypeOK` |
| `KeyFoundUnlessLeft` | `NoKeyForCause` |
| `PsshCameFromServer` | `PsshFromServer`, if no server sends an empty PSSH element |
| `ManifestAgrees` | `ManifestMatchesInit` |
| `PartsTile` | `PartsTileSegment` |
| `BreaksAnnouncedOnce` | `AdBreaksOnce` |

A job reads what another job wrote, so the invariant must carry enough of an output to make it a
source again: `OutputInv` says that every output has an init segment whose tracks have
one sample entry each, protected or not as its type says (`InitWellFormed`), segments in which each
moof comes with its mdat (`SegmentWellFormed`), and lists that speak of segments it has. `SourceInv`
says the same of the source at hand, and `Republish`, which takes an output of one job for the
source of the next, is where the two meet. `GateInv` carries what each early return has checked
(the scheme is known, the codecs are allowed) to the steps that rely on it. `CacheInv` gives
every key in the cache its cause: it is there between `GetKeys` and the cleanup, or left over.
`KeysInv` and `PsshInv` are about what the CPIX parser returns: `AnswersRead` follows it
through a document event by event, and proves that outside an element it holds no open PSSH, that
every key named has its entry, and that a PSSH text ends up in the entry of the key id
and system it stands under (`PsshRead`, `DataRead`, `SystemRead`, `KeyRead`, `SystemsRead`).

`ManifestAgrees` compares two ways of computing: `build_manifest_drm_info` from the keys, and what
is read out of the init segment that one of the four rewrites made. `InitRewrites` shows that each
rewrite keeps the tracks and changes their entries, `BuiltSays` that the first
protected entry then names the primary key id, which needs that the mapping of tracks to key ids
was made from the same tracks in the same order (`MappingOfInit`). `PartsTile` follows
`detect_chunk_boundaries` along a segment: the chunks before a box, laid end to end, are the media
boxes before it (`ChunksTile`). `BreaksAnnouncedOnce` counts: choosing twice keeps the number of
what satisfies both conditions (`ChosenCount`).

Three more are about the samples:

| Theorem | Property | Hypothesis |
|---|---|---|
| `SamplesAlwaysRecoverable` | `SamplesRecoverable` | `SourcesMuxable` |
| `CountersNeverReused` | `CountersDistinct` | |
| `SamplesProtectedOnce` | `ProtectedOnce` | `SourcesMuxable`, `SourcesProtectable` |

These are about everything that may happen to a sample between its first source and the last
of a chain of jobs, and the invariant is what makes the chain one step long. `ProcessedInv`
says what an output is: what the steps of the job make of the source, with the init
segment that `NewInit` makes for its scheme, for each segment that was processed. `HoldsInv` says
what a source is: its fragments are well formed for the protection its init segment declares,
and `clear` is what their decryption gives, samples being cut from the start of the mdat payload. `Republish` turns the one into the other
(`RepublishedHolds`): an output was made with the key, IVs, pattern and maps that its own init
segment and `senc` then declare (`TargetParamsHold`, `RewriteKeepsSamples`), so what is
read of it is known without looking at the jobs before. The job reads the source's protection
exactly as it is read (`SourceParamsHold`), which needs that the one key of the job, that of the
first key id, is the key of the first protected track (`PrimaryIsSource`).

`CountersNeverReused` takes `SealedOutput`, which says of a segment that is not TS that it holds
the samples of the last fragment, each encrypted once with its own IV and map, through the
flattening of samples into an mdat and of mdats into an output (`FlatComes`): two different units
of an output are two places (segment, sample, unit), and `KeystreamUsedOnce` tells their
counters apart. `SamplesProtectedOnce` needs for "at least one" that there is something to
encrypt: CBCS leaves a sample shorter than a block clear. `Protectable` asks
for one sample of that kind in the last fragment of each segment, and `ProtectInv` carries it
over every rewrite, which keeps the samples and their maps or drops the maps, and over TS
(`RepublishedProtectable`).

`SourcesMuxable` is about `mux_to_ts`, which reads the last fragment of a segment as the one track
that `extract_mux_config` finds in the init segment: in a source of which a request makes
transport streams that fragment is of that track. `RepublishedMuxable` shows that outputs are
again such sources. TLC evaluates both hypotheses of the sources and requests of the run
`PackagerJobs` (`MCSourcesMuxable`, `MCSourcesProtectable`).

The hypotheses on the constants (`JobSourcesAssumption`, `RequestsAssumption`,
`ContentKidAssumption`) describe sources as packagers write them: one sample entry per track, as
`parse_trak` looks at no other; a `sinf` in the entries of an encrypted type and no others,
with a key id that is not all zero, the code's mark of none; PSSH boxes only next to a
protected track; fragments of one track whose samples cover their mdat, with a `senc` entry for
each sample if the track is protected. TLC checks them of the sources of the runs, and the proof of them of every output.

### Ciphers and rewrites

`PackagerProofs` also proves of the ciphers and of `rewrite_segment`, for every key, IV, pattern,
sample and subsample map, and every segment that is well formed for its init segment:

| Theorem | What it says |
|---|---|
| `EncryptionKeepsSize` | an encrypted sample is as long as it was |
| `DecryptionUndoesEncryption` | `DecryptSample` with the parameters of `EncryptSample` gives the sample back |
| `ClearBytesStayClear` | a byte outside every protected range is left as it is |
| `KeystreamUsedOnce` | with the IVs of `generate_iv`, cenc gives no two bytes of a track the same key, counter and position |
| `RewriteKeepsSamples` | a rewrite that succeeds makes one fragment: cut by its trun from the start of the mdat payload, and decrypted by the new init segment and `senc`, it gives the samples that the last fragment of the segment gave by the old ones |

The first rests on `TakeUndoesAdd`, for one unit, and on encryption keeping the size of a
sample, so that decryption computes the same regions. The last splits on whether the two
bytes are of one sample: if so the position grows from one protected byte to the next
(`PositionGrows`); if not the IV is in front of the counter block and differs. AES is
symbolic: the theorems are about which bytes meet which counter or chain.

`RewriteKeepsSamples` goes along the loops of the three rewrites. What the decryption loop writes
is what the source gives, sample by sample (`DecryptedIsFound`, `DecryptedData`):
same key, pattern and map, and the IV of the entry or the constant one, which needs no
padding when it is well formed. The encryption loop writes samples end to end, and the trun, which
is copied, takes them apart at the same places (`FlattenPlaces`, `SampleEnds`, `SamplesOfData`). The
new `senc` has for each sample the IV and map it was encrypted with (`MapsWritten`), of the size
that the new `tenc` declares (`IvSizes`), and so `EncryptedGives` undoes the loop.
None of this is about `data_offset`: the trun is copied while the moof changes size, and the run
`DocDataOffset` shows that it then leads elsewhere than to the first sample. What
`SamplesAlwaysRecoverable` and `RewriteKeepsSamples` establish is that the samples are in the mdat,
in order and decryptable, not that a player that follows `data_offset` finds them.

### The readers

`ManifestReaderProofs` and, for the last one, `SourceTracksProofs`, for an output of any length,
any list of lines and any MPD of any number of sets, timeline entries and references:

| Theorem | Property | Hypothesis |
|---|---|---|
| `ReadersLeaveOutput` | `ReaderSpec => Spec`: readers take no step of the output | |
| `OutputHoldsWhileRead` | `ManifestsAgree`, `WindowIsLongestRun`, `ItemsFollowWindow` | |
| `ItemsAreWhole` | `ItemsInv`, what a published manifest says of parts and ad breaks | |
| `ReadStaysParsed` | `ReadInv`, that what was read is what the parser returns | |
| `PlaylistsReadAsWindow`, `OutputReadAsWindow` | `ReadIsWindow` of HLS; of both formats | the second `MsDurations`, `OneTemplate` |
| `PlaylistsKeepMarks`, `OutputKeepsMarks` | `MarksPlaced` of HLS; of both formats | the second `MsDurations`, `OneTemplate` |
| `MpdsReadByTemplate` | `VideoSetRead` | `ReadableMpds` |
| `IndexReadAsTiles` | `RangesTile` | `ReadableMpds` |
| `PlaylistsResolve` | `ReferencesResolve` | `ReadablePlaylists` |
| `TracksAlwaysResolve` | `TracksResolve` | `ReadableMasters`, `SeparableMpds` |

A parser is a fold over lines or events, so the invariants over time are simple (`ReadInv`,
`MpdInv`, `PlaylistInv`: what was read is what the parser makes of the document, and
the document is one of the constants or one that was published); the work is an induction along the
document. `ListInduction` replaces the library's schema, which the provers cannot instantiate: a
list that has a property violated at some prefix has a shortest such prefix. Each parser
has a formula for its state after a prefix. For a playlist (`HlsParsed`) it gives
the segment, part and ad break counters from the items of the segments
before; for an MPD the events are nested lists (`RunOfJoined`, `RunOfLists` compose runs), and
`SetDone` says what a whole AdaptationSet does to the state: nothing once the video set is
locked in, its own template, scale and timeline if it is the first video set, and what it says if no
video set has come yet. `TimelineExpands` and `UniformCovers` take the two ways to count segments:
the entries of a timeline in a row, each repeated, and division with a shorter last segment.
`RangesInARow` adds up the sizes of references.

`PlaylistsResolve` compares `normalize_path`, a stack, with RFC 3986 as the model states it (`Rfc`): a
segment stays if no later ".." takes it. `Level`, the number of ".." up to a
place less that of names, connects the two: a name stays as long as the level does not rise above
its own. The levels of the names that stay go down in steps of one, from name to name
(`LevelsInRow`), so one more ".." takes exactly the last of them (`RemainingNext`), and the stack is the empty mark of the leading slash followed by what
remains, or what remains alone once a ".." has taken the mark (`StackIs`).
`MarkParsed` follows the first piece of a query through the normalisation, where
`Url::parse` finds it again. `LineRead` is the step over a line: a URI is a segment's if an
EXTINF is open, which is if `IsTimed` says so (`OpenNext`).

`TracksAlwaysResolve` is about a pipeline: the text of an MPD is searched for elements, these for others,
a track's elements are put into an MPD of one set, and the parser reads that. The searches find
elements as they were written: an MPD is cut into its sets (`MpdTakenApart`), a set into its
Representations (`SetTakenApart`), because in nested events the first end behind a start is its own
(`BlocksOfLists`). Whether a set is video, audio or text is a search for words in its block, and
`KindsTold` says that these find what the set says of itself. The manifest made for a track is the
events of an MPD with one set, with the shared elements of a first Representation and URLs made
absolute (`SyntheticIsMpd`, `SetMoved`, `VariantForm`), so the theorems about the parser say what is read
from it (`PartLeads`), and a URL made absolute leads to the same file again when it is joined with the
same base and normalised (`MovedResolves`). A master playlist has a formula for the state after a
prefix (`MasterSoFar`, `MasterResolved`), in which the STREAM-INF that is open is the last one with no URI
behind it. `PrimaryIsLargest` follows the search for the primary variant.

The hypotheses are about constants, and TLC evaluates them on those of the run
`OutputDvr` (`ReadableAssumption`). They leave out what the code reads differently from what the
document says: `MsDurations`, a segment shorter than a millisecond, which is written as an S
with d=0 and left out when read; `OneTemplate`, an output without a video set but with two others,
whose timelines are read one after the other; `ReadableMpds`, an MPD whose main set lacks an
attribute, or has negative repeats or a URL inside a query, and a sidx that leads to another;
`ReadablePlaylists`, a reference that is not relative and has dots in its path (they are kept), a
"." right after ".." (it stays if the ".." emptied the stack), empty segments of a path (they
go) and pieces of a query that look like dots (section 3); `ReadableMasters`, such references and a
playlist without variants; `SeparableMpds`, an MPD of which a set does not say its kind, or says one and
lists MIME types of another, one in which a set is neither a whole template nor files with an
index, files behind dots, and a base with a query that holds a slash.

### What is only model-checked

`RequestsSettle` and `JobEnds` are liveness under fairness. `CombinedListsTracks` is about the MPD
that the sandbox pastes together from those of its tracks: parsers, searches and insertions run on
what others of them made.

## 7. Assumptions and what is left out

* A cache operation is atomic (the backend takes its lock for each) and does not
  fail; `set` on a present key replaces it. `set_nx` ignores its TTL in the in-memory backend,
  as memory.rs documents: a lock whose holder died stays, and `LocksReleased` and
  `RequestsSettle` say what holds nevertheless.
* `CachedKey.key` is serialised as an array of numbers, so the key route's base64
  branch is never taken; this is read from the type, not modelled byte by byte.
* A file write succeeds; the code ignores its errors. The write of a track's own playlist is two
  steps, the truncation and the rest, as a rebuild may read it in between; a longer write that
  is read half done, and readers outside the program (sandbox.rs:864), are not modelled. The DASH
  combination of a progressive job likewise reads the first variant's MPD while its thread may
  be rewriting it; `SandboxJob` is about the HLS files.
* Sandbox: one job at a time; a track's init segment is written to all outputs in one step;
  all video and text tracks have the same number of segments, audio one of its own; a poisoned mutex is not modelled (no code
  panics while it holds it).
* `FinalManifestsPlayable` says nothing of a multi-variant job in which exactly one variant
  succeeded (see section 3).
* JitPackaging: `SegmentMatchesInit` compares params, not sources. With one source per format and
  params per scheme, a second scheme's setup after the source was replaced leaves segments of
  the new source made with params of the old one (section 8). `KeysTransient` is about content that
  has seen no failure or crash: a failed setup leaves its keys behind, and `RequestsSettle` counts
  the permanent 404 that may follow as an answer; `NoKeyForCause` says when it comes to that.
* Packager: HLS and DASH outputs of a scheme hold the same segments and are one output;
  the video pattern is 1:1 of two-unit blocks instead of 1:9; `SamplesRecoverable` speaks of the
  fragment a rewrite keeps (that it keeps only the last is `KeptFragments`) and looks for
  samples from the start of the mdat payload; `DataOffsetsLead` is about a player's way there. A
  Widevine or PlayReady PSSH is the set of
  key ids and a mark of its data.
* The theorems on samples also ask of sources that a fragment made into a transport stream is
  on the track that is muxed, and that the last fragment of a segment has a sample that the
  ciphers encrypt something of (`MuxableFor`, `Protectable`; section 6). Those on the
  readers ask of manifests that they can be read as what they say (`MsDurations`, `OneTemplate`,
  `ReadableMpds`, `ReadablePlaylists`, `ReadableMasters`, `SeparableMpds`).
* Manifests: text is not modelled. Attribute lookups that match a substring (BANDWIDTH inside
  AVERAGE-BANDWIDTH), a self-closed Representation (which swallows the next one in
  sandbox.rs), entities and comments are outside. Of LL-DASH, content steering, codecs,
  languages and captions nothing is modelled: they are copied.
* TS: one segment, one PES per sample, one program with one video and one audio
  stream. `DecodeTimesKept` holds short of a wrap of the 33-bit clock: at a wrap the
  saturating difference of two times gives a duration of zero (transmux.rs:976).
  Times are rescaled to 90 kHz and truncated (`RescaleTime`), with the clock at 3 and the
  timescale at 2 in the run and any values in the proofs; that the base time of a demuxed
  audio fragment stays in 90 kHz while its timescale is the sampling rate (transmux.rs:1048) is
  not modelled. Composition offsets do not survive (build_video_trun has no such column), a PES with
  several ADTS frames becomes one sample, and sample sizes or durations that a fragment
  takes from its `tfhd` or `trex` are read as zero (ts_mux.rs:168-203). AES-128
  sources are listed as decrypted (docs/architecture.md:443), but
  `process_ts_segment` passes the data on as it came (pipeline.rs:1612): `CanDemux`.
* SourceTracks: of the search for text sets, the case of application/mp4 with a text codec in
  `codecs` is not modelled, as codec strings are not; MIME types and content types are.
* Not modelled: byte layouts of boxes and TS tables, codec strings, AES, at-rest encryption of
  the cache, HTTP I/O, master and I-frame playlists of the HLS renderer,
  `download_hls_vtt_segments`, configuration parsing, the WASI entry point.

## 8. Hazards

`PROJECT.json` lists each with its line and the properties that cover it. Without a
property: two jobs on one content id (the second deletes the first's directories, and
nothing protects them), a segment of one source encrypted with the params of another after the
source was replaced between the setups of two schemes, the wrap of the 33-bit clock, the protection lost by the multi-variant MPD, and TS sources with several
frames per PES or reordered video. Left to tests: the memory of a live output, which keeps all
segments, and variant routes, which serve the manifest of the whole content.

## 9. Plan

1. Done: all modules of section 2, and proofs of every safety property of `JitPackaging`,
   `SandboxJob`, `ProgressiveOutput`, `TsTransport` and `Packager` that a passing run checks,
   and of `ManifestReader` but for the one on the MPD that combines tracks.
2. A proof of `CombinedListsTracks`, from the lemmas of `SourceTracksProofs` on what a search in
   the events of nested elements finds.
3. A model of two jobs that share a content id.
4. Abstract specification of a job (first manifest, rebuilds, final manifest) refined by
   `SandboxJob`.
