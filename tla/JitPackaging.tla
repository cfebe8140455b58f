---------------------------- MODULE JitPackaging ----------------------------
(***************************************************************************)
(* On-demand (JIT) packaging: the GET handlers of src/handler/request.rs,  *)
(* RepackagePipeline::jit_setup and ::jit_segment, and the process-wide    *)
(* cache they share.                                                       *)
(*                                                                         *)
(* A client is one thread serving requests one after the other.  Every     *)
(* cache operation (get, set, set_nx, exists, delete) takes the store's    *)
(* RwLock once, so it is one atomic step here; between two of them any     *)
(* other client may run.  A call to the origin or to the SPEKE server      *)
(* touches no shared state and is merged with the cache operation that     *)
(* follows it.  One content id is modelled: every cache key of the code    *)
(* carries the content id, so two contents never share a cell.             *)
(*                                                                         *)
(* What is stored is named by the source it was made from: a cached        *)
(* manifest, init segment or rewrite-params entry is the element of        *)
(* Sources that the setup had resolved when it wrote it.                   *)
(***************************************************************************)
EXTENDS Naturals

CONSTANTS
    Clients,            \* threads that serve requests
    Kinds,              \* the routes requested, a subset of AllKinds
    Formats,            \* output formats named in the URLs
    Schemes,            \* encryption schemes named in the URLs
    DefaultScheme,      \* JitConfig.default_target_scheme
    AllowedFormats,     \* policy: formats the operator permits
    AllowedSchemes,     \* policy: schemes the operator permits
    Sources,            \* source configurations a content may be given
    EncryptedSources,   \* those whose media is encrypted, each with its own KID
    PermittedSources,   \* those whose container format the policy permits
    PatternSource,      \* what JIT_SOURCE_URL_PATTERN yields, or NoSource
    NoSource,           \* an absent cache entry or configuration
    NoSegment,          \* an absent media segment
    Segments,           \* segment numbers the clients ask for
    SourceLength,       \* number of segments in a source manifest
    MaxRequests,        \* bound: requests issued in a behaviour
    MaxFaults,          \* bound: failures of the origin, of SPEKE or of parsing
    MaxCrashes          \* bound: threads that die while they serve a request

\* Routes that only look something up: the content key, I-frame playlists, and the
\* init segments, segments and I-frame playlists of a single variant.
ReadOnlyKinds == {"key", "iframes", "variantFile"}
AllKinds == {"manifest", "variantManifest", "init", "segment"} \cup ReadOnlyKinds
AllSchemes == {"cenc", "cbcs", "none"}

\* A URL without a scheme qualifier, e.g. /repackage/{id}/hls/manifest.
Unqualified == "unqualified"

ASSUME KindsAssumption == Kinds \subseteq AllKinds
ASSUME SchemesAssumption ==
    /\ Schemes \subseteq AllSchemes
    /\ DefaultScheme \in Schemes
ASSUME PolicyAssumption ==
    /\ AllowedFormats \subseteq Formats
    /\ AllowedSchemes \subseteq Schemes
ASSUME SourcesAssumption ==
    /\ EncryptedSources \subseteq Sources
    /\ PermittedSources \subseteq Sources
    /\ NoSource \notin Sources
    /\ PatternSource \in Sources \cup {NoSource}
    /\ NoSegment \notin [source : Sources, params : Sources]
ASSUME BoundsAssumption ==
    /\ Segments \subseteq Nat
    /\ 0 \in Segments
    /\ SourceLength \in Nat
    /\ MaxRequests \in Nat
    /\ MaxFaults \in Nat
    /\ MaxCrashes \in Nat

\* Only segment URLs carry a number; the others have 0 there.
Requests == {q \in [kind : Kinds, format : Formats,
                    scheme : Schemes \cup {Unqualified}, segment : Segments] :
                q.kind # "segment" => q.segment = 0}
NoRequest == [kind |-> "none", format |-> "none", scheme |-> "none", segment |-> 0]

\* An output stream: what a scheme-qualified cache key names.
Streams == Formats \X Schemes

SegmentRecord == [source : Sources, params : Sources]

\* A KID that no setup looks up.
OtherKid == "other"

\* The KID a setup looks up.  Clear sources have none of their own and all
\* use the one derived from the content id.
KidOf(source) == IF source \in EncryptedSources THEN source ELSE "derived"
Kids == EncryptedSources \cup {"derived", OtherKid}
NoKeys == NoSource

VARIABLES
    \* --- the requests being served ---
    pc,              \* where each client is
    req,             \* the request it serves
    src,             \* the source its setup or segment works on (local)
    params,          \* the rewrite params its segment was loaded with (local)
    response,        \* the status it was answered with, 0 before
    \* --- the cache ---
    sourceConfig,    \* ep:{id}:source_config
    setupLocks,      \* formats whose ep:{id}:{fmt}:lock:setup exists
    segmentLocks,    \* pairs whose ep:{id}:{fmt}:lock:seg:{n} exists
    setupMarkers,    \* formats whose ep:{id}:{fmt}:jit_setup exists
    sourceManifest,  \* ep:{id}:{fmt}:source
    rewriteParams,   \* ep:{id}:{fmt}_{scheme}:rewrite_params
    initSegment,     \* ep:{id}:{fmt}_{scheme}:init
    manifestState,   \* ep:{id}:{fmt}_{scheme}:manifest_state
    mediaSegment,    \* ep:{id}:{fmt}_{scheme}:seg:{n}
    drmKeys,         \* ep:{id}:keys, as the KID the cached key set is for
    \* --- what the bounds count ---
    issued, faults, crashes

localVars  == <<req, src, params>>
lockVars   == <<setupLocks, segmentLocks>>
contentVars == <<sourceManifest, rewriteParams, initSegment, manifestState,
                 mediaSegment>>
countVars  == <<issued, faults, crashes>>
cacheVars  == <<sourceConfig, setupLocks, segmentLocks, setupMarkers,
                contentVars, drmKeys>>
vars == <<pc, localVars, response, cacheVars, countVars>>

-----------------------------------------------------------------------------
(* The control points of ensure_jit_setup and jit_setup while the setup     *)
(* lock is held, and those of jit_segment_fallback and jit_segment while    *)
(* the segment lock is held.                                                *)
SetupWork    == {"resolve", "idempotent", "reuse", "source", "init", "keys",
                 "speke", "params"}
SetupPublish == {"writeInit", "writeManifest", "writeMarker", "dropKeys"}
SetupRelease == {"setupDone", "setupFailed"}
SetupSection == SetupWork \cup SetupPublish \cup SetupRelease

SegmentWork    == {"segCached", "segSource", "segParams", "segFetch"}
SegmentSection == SegmentWork \cup {"segDone", "segFailed"}

Labels == {"idle", "lookup", "marker", "lock", "recheck", "serve", "segLock",
           "segRecheck", "done", "dead"} \cup SetupSection \cup SegmentSection

\* Between the caching of the DRM keys and cleanup_sensitive_data.
KeyHolding == {"params", "writeInit", "writeManifest", "writeMarker", "dropKeys"}

Format(c) == req[c].format
\* resolve_jit_scheme: the URL's scheme, or the configured default.
Scheme(c) == IF req[c].scheme = Unqualified THEN DefaultScheme ELSE req[c].scheme
Stream(c) == <<Format(c), Scheme(c)>>
SegmentKey(c) == <<Stream(c), req[c].segment>>
SegmentLock(c) == <<Format(c), req[c].segment>>

Goto(c, label) == pc' = [pc EXCEPT ![c] = label]

\* The response leaves the server; the handler's locals die with it.
Respond(c, status) ==
    /\ Goto(c, "done")
    /\ response' = [response EXCEPT ![c] = status]
    /\ src' = [src EXCEPT ![c] = NoSource]
    /\ params' = [params EXCEPT ![c] = NoSource]
    /\ UNCHANGED req

-----------------------------------------------------------------------------
Init ==
    /\ pc = [c \in Clients |-> "idle"]
    /\ req = [c \in Clients |-> NoRequest]
    /\ src = [c \in Clients |-> NoSource]
    /\ params = [c \in Clients |-> NoSource]
    /\ response = [c \in Clients |-> 0]
    /\ sourceConfig \in Sources \cup {NoSource}
    /\ setupLocks = {}
    /\ segmentLocks = {}
    /\ setupMarkers = {}
    /\ sourceManifest = [f \in Formats |-> NoSource]
    /\ rewriteParams = [st \in Streams |-> NoSource]
    /\ initSegment = [st \in Streams |-> NoSource]
    /\ manifestState = [st \in Streams |-> NoSource]
    /\ mediaSegment = [k \in Streams \X Segments |-> NoSegment]
    /\ drmKeys = NoKeys
    /\ issued = 0
    /\ faults = 0
    /\ crashes = 0

-----------------------------------------------------------------------------
(* Routing and the first cache lookup.                                      *)

\* parse_and_check_policy: the output format, then an explicit scheme.
RoutePermits(q) ==
    /\ q.format \in AllowedFormats
    /\ q.scheme # Unqualified => q.scheme \in AllowedSchemes

\* A request arrives at a client that is idle or has settled its last one.
Arrive(c) ==
    /\ \/ pc[c] = "idle"
       \/ pc[c] = "done" /\ response[c] # 202
    /\ issued < MaxRequests
    /\ issued' = issued + 1
    /\ \E q \in Requests :
        /\ req' = [req EXCEPT ![c] = q]
        /\ IF RoutePermits(q)
           THEN Goto(c, "lookup") /\ response' = [response EXCEPT ![c] = 0]
           ELSE Goto(c, "done")   /\ response' = [response EXCEPT ![c] = 403]
    /\ UNCHANGED <<src, params, cacheVars, faults, crashes>>

\* A 202 carries Retry-After; its client asks the same again.
Retry(c) ==
    /\ pc[c] = "done"
    /\ response[c] = 202
    /\ Goto(c, "lookup")
    /\ response' = [response EXCEPT ![c] = 0]
    /\ UNCHANGED <<localVars, cacheVars, countVars>>

\* The cell a handler looks at first.  Nothing ever writes the cells of
\* unqualified or variant URLs, so those requests always miss.
LookupHits(c) ==
    /\ req[c].scheme # Unqualified
    /\ \/ req[c].kind = "manifest" /\ manifestState[Stream(c)] # NoSource
       \/ req[c].kind = "init" /\ initSegment[Stream(c)] # NoSource
       \/ req[c].kind = "segment" /\ mediaSegment[SegmentKey(c)] # NoSegment

Lookup(c) ==
    /\ pc[c] = "lookup"
    /\ req[c].kind \notin ReadOnlyKinds
    /\ IF LookupHits(c)
       THEN Respond(c, 200)
       ELSE Goto(c, "marker") /\ UNCHANGED <<localVars, response>>
    /\ UNCHANGED <<cacheVars, countVars>>

\* A lookup without a setup to fall back on.  For the key, CachedKey.key is a byte
\* vector, serialised as a JSON array; the handler wants a base64 string there,
\* so even a present key set is answered with 404.  So is an I-frame playlist:
\* DASH has none, and jit_setup enables none in the manifest states it caches.
\* Nothing writes the cells of a variant.
LookupOnly(c) ==
    /\ pc[c] = "lookup"
    /\ req[c].kind \in ReadOnlyKinds
    /\ Respond(c, 404)
    /\ UNCHANGED <<cacheVars, countVars>>

-----------------------------------------------------------------------------
(* ensure_jit_setup.                                                        *)

CheckMarker(c) ==
    /\ pc[c] = "marker"
    /\ Goto(c, IF Format(c) \in setupMarkers THEN "serve" ELSE "lock")
    /\ UNCHANGED <<localVars, response, cacheVars, countVars>>

\* Mutant: set instead of set_nx.
AcquireSetupLockAlways(c) ==
    /\ pc[c] = "lock"
    /\ setupLocks' = setupLocks \cup {Format(c)}
    /\ Goto(c, "resolve")
    /\ UNCHANGED <<localVars, response, sourceConfig, segmentLocks, setupMarkers,
                   contentVars, drmKeys, countVars>>

AcquireSetupLock(c) ==
    /\ pc[c] = "lock"
    /\ Format(c) \notin setupLocks
    /\ setupLocks' = setupLocks \cup {Format(c)}
    /\ Goto(c, "resolve")
    /\ UNCHANGED <<localVars, response, sourceConfig, segmentLocks, setupMarkers,
                   contentVars, drmKeys, countVars>>

SetupLockTaken(c) ==
    /\ pc[c] = "lock"
    /\ Format(c) \in setupLocks
    /\ Goto(c, "recheck")
    /\ UNCHANGED <<localVars, response, cacheVars, countVars>>

RecheckMarker(c) ==
    /\ pc[c] = "recheck"
    /\ IF Format(c) \in setupMarkers
       THEN Goto(c, "serve") /\ UNCHANGED <<localVars, response>>
       ELSE Respond(c, 202)
    /\ UNCHANGED <<cacheVars, countVars>>

\* resolve_source_config: the configured source, else the URL pattern's.
ResolvedSource == IF sourceConfig # NoSource THEN sourceConfig ELSE PatternSource

\* Mutant: the container format of the source is not checked.
SetupPermittedAnySource(c) == Scheme(c) \in AllowedSchemes /\ ResolvedSource # NoSource

\* The second policy check, then the source, then its container format.
SetupPermitted(c) ==
    /\ Scheme(c) \in AllowedSchemes
    /\ ResolvedSource \in PermittedSources

ResolveSource(c) ==
    /\ pc[c] = "resolve"
    /\ IF SetupPermitted(c)
       THEN Goto(c, "idempotent") /\ src' = [src EXCEPT ![c] = ResolvedSource]
       ELSE Goto(c, "setupFailed") /\ UNCHANGED src
    /\ UNCHANGED <<req, params, response, cacheVars, countVars>>

-----------------------------------------------------------------------------
(* RepackagePipeline::jit_setup, under the setup lock of the format.        *)

\* A call to the origin or SPEKE, or the parsing of its answer, fails.
Fault == faults < MaxFaults /\ faults' = faults + 1

\* Mutant: a setup that got the lock always runs.
NeverIdempotent(c) ==
    /\ pc[c] = "idempotent"
    /\ Goto(c, "source")
    /\ UNCHANGED <<localVars, response, cacheVars, countVars>>

CheckIdempotent(c) ==
    /\ pc[c] = "idempotent"
    /\ Goto(c, IF Format(c) \in setupMarkers THEN "reuse" ELSE "source")
    /\ UNCHANGED <<localVars, response, cacheVars, countVars>>

\* Two gets, of cells that only the holder of the setup lock writes.
ReuseSetup(c) ==
    /\ pc[c] = "reuse"
    /\ Goto(c, IF /\ manifestState[Stream(c)] # NoSource
                  /\ initSegment[Stream(c)] # NoSource
               THEN "setupDone" ELSE "source")
    /\ UNCHANGED <<localVars, response, cacheVars, countVars>>

\* Step 1: fetch, parse and cache the source manifest.
FetchSourceManifest(c) ==
    /\ pc[c] = "source"
    /\ \/ /\ sourceManifest' = [sourceManifest EXCEPT ![Format(c)] = src[c]]
          /\ Goto(c, "init")
          /\ UNCHANGED faults
       \/ Fault /\ Goto(c, "setupFailed") /\ UNCHANGED sourceManifest
    /\ UNCHANGED <<localVars, response, sourceConfig, lockVars, setupMarkers,
                   rewriteParams, initSegment, manifestState, mediaSegment,
                   drmKeys, issued, crashes>>

NeedsKeys(c) == src[c] \in EncryptedSources \/ Scheme(c) # "none"

\* Steps 2 and 3: fetch the init segment, parse its protection info and
\* tracks, validate codec and scheme; any of them may fail.
FetchInitSegment(c) ==
    /\ pc[c] = "init"
    /\ \/ Goto(c, IF NeedsKeys(c) THEN "keys" ELSE "params") /\ UNCHANGED faults
       \/ Fault /\ Goto(c, "setupFailed")
    /\ UNCHANGED <<localVars, response, cacheVars, issued, crashes>>

\* get_or_fetch_keys takes a cached key set whatever KIDs it is for;
\* find_key_for_kid then fails when this source's KID is not among them.
ReadKeys(c) ==
    /\ pc[c] = "keys"
    /\ Goto(c, IF drmKeys = NoKeys THEN "speke"
               ELSE IF drmKeys = KidOf(src[c]) THEN "params" ELSE "setupFailed")
    /\ UNCHANGED <<localVars, response, cacheVars, countVars>>

\* The server's key set is cached before the KID is looked for in it, so one that
\* lacks the KID stays there when the setup fails.
RequestKeys(c) ==
    /\ pc[c] = "speke"
    /\ \/ drmKeys' = KidOf(src[c]) /\ Goto(c, "params") /\ UNCHANGED faults
       \/ Fault /\ Goto(c, "setupFailed") /\ drmKeys' \in {drmKeys, OtherKid}
    /\ UNCHANGED <<localVars, response, sourceConfig, lockVars, setupMarkers,
                   contentVars, issued, crashes>>

\* Steps 6 and 7: rewrite the init segment, which may fail, and cache the
\* rewrite params.
WriteRewriteParams(c) ==
    /\ pc[c] = "params"
    /\ \/ /\ rewriteParams' = [rewriteParams EXCEPT ![Stream(c)] = src[c]]
          /\ Goto(c, "writeInit")
          /\ UNCHANGED faults
       \/ Fault /\ Goto(c, "setupFailed") /\ UNCHANGED rewriteParams
    /\ UNCHANGED <<localVars, response, sourceConfig, lockVars, setupMarkers,
                   sourceManifest, initSegment, manifestState, mediaSegment,
                   drmKeys, issued, crashes>>

WriteInitSegment(c) ==
    /\ pc[c] = "writeInit"
    /\ initSegment' = [initSegment EXCEPT ![Stream(c)] = src[c]]
    /\ Goto(c, "writeManifest")
    /\ UNCHANGED <<localVars, response, sourceConfig, lockVars, setupMarkers,
                   sourceManifest, rewriteParams, manifestState, mediaSegment,
                   drmKeys, countVars>>

\* Mutant: the manifest is built from a second read of the source config.
WriteManifestOfCurrentSource(c) ==
    /\ pc[c] = "writeManifest"
    /\ manifestState' = [manifestState EXCEPT ![Stream(c)] = ResolvedSource]
    /\ Goto(c, "writeMarker")
    /\ UNCHANGED <<localVars, response, sourceConfig, lockVars, setupMarkers,
                   sourceManifest, rewriteParams, initSegment, mediaSegment,
                   drmKeys, countVars>>

WriteManifestState(c) ==
    /\ pc[c] = "writeManifest"
    /\ manifestState' = [manifestState EXCEPT ![Stream(c)] = src[c]]
    /\ Goto(c, "writeMarker")
    /\ UNCHANGED <<localVars, response, sourceConfig, lockVars, setupMarkers,
                   sourceManifest, rewriteParams, initSegment, mediaSegment,
                   drmKeys, countVars>>

\* Mutant: jit_setup returns without cleanup_sensitive_data.
WriteMarkerKeepingKeys(c) ==
    /\ pc[c] = "writeMarker"
    /\ setupMarkers' = setupMarkers \cup {Format(c)}
    /\ Goto(c, "setupDone")
    /\ UNCHANGED <<localVars, response, sourceConfig, lockVars, contentVars,
                   drmKeys, countVars>>

\* Step 10: the marker names the format, not the scheme.
WriteMarker(c) ==
    /\ pc[c] = "writeMarker"
    /\ setupMarkers' = setupMarkers \cup {Format(c)}
    /\ Goto(c, "dropKeys")
    /\ UNCHANGED <<localVars, response, sourceConfig, lockVars, contentVars,
                   drmKeys, countVars>>

\* cleanup_sensitive_data: whoever put the key set there, it goes.
CleanupSensitiveData(c) ==
    /\ pc[c] = "dropKeys"
    /\ drmKeys' = NoKeys
    /\ Goto(c, "setupDone")
    /\ UNCHANGED <<localVars, response, sourceConfig, lockVars, setupMarkers,
                   contentVars, countVars>>

\* Mutant: an error returns before the lock is deleted.
ReleaseSetupLockOnSuccess(c) ==
    /\ pc[c] \in SetupRelease
    /\ IF pc[c] = "setupDone"
       THEN /\ setupLocks' = setupLocks \ {Format(c)}
            /\ Goto(c, "serve") /\ UNCHANGED <<localVars, response>>
       ELSE Respond(c, 404) /\ UNCHANGED setupLocks
    /\ UNCHANGED <<sourceConfig, segmentLocks, setupMarkers, contentVars, drmKeys,
                   countVars>>

\* Released on success and on error alike; an error is answered with 404.
ReleaseSetupLock(c) ==
    /\ pc[c] \in SetupRelease
    /\ setupLocks' = setupLocks \ {Format(c)}
    /\ IF pc[c] = "setupDone"
       THEN Goto(c, "serve") /\ UNCHANGED <<localVars, response>>
       ELSE Respond(c, 404)
    /\ UNCHANGED <<sourceConfig, segmentLocks, setupMarkers, contentVars, drmKeys,
                   countVars>>

-----------------------------------------------------------------------------
(* After ensure_jit_setup returned true.                                    *)

ServeManifest(c) ==
    /\ pc[c] = "serve"
    /\ req[c].kind \in {"manifest", "variantManifest"}
    /\ Respond(c, IF manifestState[Stream(c)] # NoSource THEN 200 ELSE 404)
    /\ UNCHANGED <<cacheVars, countVars>>

ServeInit(c) ==
    /\ pc[c] = "serve"
    /\ req[c].kind = "init"
    /\ Respond(c, IF initSegment[Stream(c)] # NoSource THEN 200 ELSE 404)
    /\ UNCHANGED <<cacheVars, countVars>>

StartSegment(c) ==
    /\ pc[c] = "serve"
    /\ req[c].kind = "segment"
    /\ Goto(c, "segLock")
    /\ UNCHANGED <<localVars, response, cacheVars, countVars>>

AcquireSegmentLock(c) ==
    /\ pc[c] = "segLock"
    /\ SegmentLock(c) \notin segmentLocks
    /\ segmentLocks' = segmentLocks \cup {SegmentLock(c)}
    /\ Goto(c, "segCached")
    /\ UNCHANGED <<localVars, response, sourceConfig, setupLocks, setupMarkers,
                   contentVars, drmKeys, countVars>>

SegmentLockTaken(c) ==
    /\ pc[c] = "segLock"
    /\ SegmentLock(c) \in segmentLocks
    /\ Goto(c, "segRecheck")
    /\ UNCHANGED <<localVars, response, cacheVars, countVars>>

RecheckSegment(c) ==
    /\ pc[c] = "segRecheck"
    /\ Respond(c, IF mediaSegment[SegmentKey(c)] # NoSegment THEN 200 ELSE 202)
    /\ UNCHANGED <<cacheVars, countVars>>

-----------------------------------------------------------------------------
(* RepackagePipeline::jit_segment, under the lock of format and number.     *)

\* Mutant: the cache is not looked at again under the segment lock.
AssumeSegmentMissing(c) ==
    /\ pc[c] = "segCached"
    /\ Goto(c, "segSource")
    /\ UNCHANGED <<localVars, response, cacheVars, countVars>>

CheckSegmentCached(c) ==
    /\ pc[c] = "segCached"
    /\ Goto(c, IF mediaSegment[SegmentKey(c)] # NoSegment THEN "segDone"
               ELSE "segSource")
    /\ UNCHANGED <<localVars, response, cacheVars, countVars>>

LoadSourceManifest(c) ==
    /\ pc[c] = "segSource"
    /\ IF sourceManifest[Format(c)] # NoSource /\ req[c].segment < SourceLength
       THEN /\ src' = [src EXCEPT ![c] = sourceManifest[Format(c)]]
            /\ Goto(c, "segParams")
       ELSE Goto(c, "segFailed") /\ UNCHANGED src
    /\ UNCHANGED <<req, params, response, cacheVars, countVars>>

\* Mutants: absent params are taken for granted; the source stands for them.
LoadRewriteParamsUnchecked(c) ==
    /\ pc[c] = "segParams"
    /\ params' = [params EXCEPT ![c] = rewriteParams[Stream(c)]]
    /\ Goto(c, "segFetch")
    /\ UNCHANGED <<req, src, response, cacheVars, countVars>>
LoadParamsOfSource(c) ==
    /\ pc[c] = "segParams"
    /\ params' = [params EXCEPT ![c] = src[c]]
    /\ Goto(c, IF rewriteParams[Stream(c)] # NoSource THEN "segFetch"
               ELSE "segFailed")
    /\ UNCHANGED <<req, src, response, cacheVars, countVars>>

LoadRewriteParams(c) ==
    /\ pc[c] = "segParams"
    /\ params' = [params EXCEPT ![c] = rewriteParams[Stream(c)]]
    /\ Goto(c, IF rewriteParams[Stream(c)] # NoSource THEN "segFetch"
               ELSE "segFailed")
    /\ UNCHANGED <<req, src, response, cacheVars, countVars>>

\* Fetch the source segment, rewrite it and cache the result.
ProduceSegment(c) ==
    /\ pc[c] = "segFetch"
    /\ \/ /\ mediaSegment' = [mediaSegment EXCEPT ![SegmentKey(c)] =
                                [source |-> src[c], params |-> params[c]]]
          /\ Goto(c, "segDone")
          /\ UNCHANGED faults
       \/ Fault /\ Goto(c, "segFailed") /\ UNCHANGED mediaSegment
    /\ UNCHANGED <<localVars, response, sourceConfig, lockVars, setupMarkers,
                   sourceManifest, rewriteParams, initSegment, manifestState,
                   drmKeys, issued, crashes>>

ReleaseSegmentLock(c) ==
    /\ pc[c] \in {"segDone", "segFailed"}
    /\ segmentLocks' = segmentLocks \ {SegmentLock(c)}
    /\ Respond(c, IF pc[c] = "segDone" THEN 200 ELSE 404)
    /\ UNCHANGED <<sourceConfig, setupLocks, setupMarkers, contentVars, drmKeys,
                   countVars>>

-----------------------------------------------------------------------------
(* The environment.                                                         *)

\* The sandbox's source-config endpoint stores or replaces the source.
SetSourceConfig ==
    /\ \E source \in Sources : sourceConfig' = source
    /\ UNCHANGED <<pc, localVars, response, lockVars, setupMarkers, contentVars,
                   drmKeys, countVars>>

\* The thread panics.  The locks are plain cache entries: nobody drops them.
Crash(c) ==
    /\ pc[c] \notin {"idle", "done", "dead"}
    /\ crashes < MaxCrashes
    /\ crashes' = crashes + 1
    /\ Goto(c, "dead")
    /\ UNCHANGED <<localVars, response, cacheVars, issued, faults>>

-----------------------------------------------------------------------------
EnsureSetup(c) ==
    \/ CheckMarker(c)      \/ AcquireSetupLock(c) \/ SetupLockTaken(c)
    \/ RecheckMarker(c)    \/ ResolveSource(c)    \/ ReleaseSetupLock(c)

JitSetup(c) ==
    \/ CheckIdempotent(c)  \/ ReuseSetup(c)       \/ FetchSourceManifest(c)
    \/ FetchInitSegment(c) \/ ReadKeys(c)         \/ RequestKeys(c)
    \/ WriteRewriteParams(c) \/ WriteInitSegment(c) \/ WriteManifestState(c)
    \/ WriteMarker(c)      \/ CleanupSensitiveData(c)

JitSegment(c) ==
    \/ StartSegment(c)     \/ AcquireSegmentLock(c) \/ SegmentLockTaken(c)
    \/ RecheckSegment(c)   \/ CheckSegmentCached(c) \/ LoadSourceManifest(c)
    \/ LoadRewriteParams(c) \/ ProduceSegment(c)  \/ ReleaseSegmentLock(c)

\* What a client's thread does until it has answered for good.
Serve(c) ==
    \/ Retry(c)            \/ Lookup(c)           \/ LookupOnly(c)
    \/ EnsureSetup(c)      \/ JitSetup(c)
    \/ ServeManifest(c)    \/ ServeInit(c)        \/ JitSegment(c)

Next ==
    \/ \E c \in Clients : Arrive(c) \/ Serve(c) \/ Crash(c)
    \/ SetSourceConfig

Spec == Init /\ [][Next]_vars

\* Every thread with a request to answer is scheduled, and a client told to
\* retry does; requests need not arrive nor configurations change.
FairSpec == Spec /\ \A c \in Clients : WF_vars(Serve(c))

-----------------------------------------------------------------------------
(* Properties.                                                              *)

\* Every variable stays in its range, and a client past "idle" has a request.
ThreadsTypeOK ==
    /\ pc \in [Clients -> Labels]
    /\ req \in [Clients -> Requests \cup {NoRequest}]
    /\ \A c \in Clients : pc[c] # "idle" => req[c] \in Requests
    /\ src \in [Clients -> Sources \cup {NoSource}]
    /\ params \in [Clients -> Sources \cup {NoSource}]
    /\ response \in [Clients -> {0, 200, 202, 403, 404}]

CacheTypeOK ==
    /\ sourceConfig \in Sources \cup {NoSource}
    /\ setupLocks \subseteq Formats
    /\ segmentLocks \subseteq Formats \X Segments
    /\ setupMarkers \subseteq Formats
    /\ sourceManifest \in [Formats -> Sources \cup {NoSource}]
    /\ rewriteParams \in [Streams -> Sources \cup {NoSource}]
    /\ initSegment \in [Streams -> Sources \cup {NoSource}]
    /\ manifestState \in [Streams -> Sources \cup {NoSource}]
    /\ mediaSegment \in [Streams \X Segments -> SegmentRecord \cup {NoSegment}]
    /\ drmKeys \in Kids \cup {NoKeys}

CountsTypeOK ==
    /\ issued \in 0..MaxRequests
    /\ faults \in 0..MaxFaults
    /\ crashes \in 0..MaxCrashes

TypeOK == ThreadsTypeOK /\ CacheTypeOK /\ CountsTypeOK

InSetup(c)   == pc[c] \in SetupSection
InSegment(c) == pc[c] \in SegmentSection

\* The locks coalesce: at most one client is inside the setup of a format and
\* at most one inside the production of a segment number of a format, and
\* each holds the lock of its section.
MutualExclusion ==
    /\ \A c, d \in Clients :
        InSetup(c) /\ InSetup(d) /\ Format(c) = Format(d) => c = d
    /\ \A c, d \in Clients :
        InSegment(c) /\ InSegment(d) /\ SegmentLock(c) = SegmentLock(d) => c = d
    /\ \A c \in Clients : InSetup(c) => Format(c) \in setupLocks
    /\ \A c \in Clients : InSegment(c) => SegmentLock(c) \in segmentLocks

\* "Release lock regardless of success or failure": a lock is in the cache
\* only while a client is in its section, or when one died in service.
LocksReleased ==
    /\ \A f \in setupLocks :
        \E c \in Clients : Format(c) = f /\ (InSetup(c) \/ pc[c] = "dead")
    /\ \A l \in segmentLocks :
        \E c \in Clients : SegmentLock(c) = l /\ (InSegment(c) \/ pc[c] = "dead")

\* A manifest is published only when everything it points at can be served:
\* the init segment and the rewrite params of its stream, made by the same
\* setup from the same source, and a source manifest for its format.
ManifestServable ==
    \A f \in Formats, s \in Schemes :
        manifestState[<<f, s>>] # NoSource =>
            /\ initSegment[<<f, s>>] = manifestState[<<f, s>>]
            /\ rewriteParams[<<f, s>>] = manifestState[<<f, s>>]
            /\ sourceManifest[f] # NoSource

\* The marker of a format means a finished setup of one of its schemes.
MarkerMeansSetup ==
    \A f \in setupMarkers : \E s \in Schemes : manifestState[<<f, s>>] # NoSource

\* A cached segment was encrypted with the params its init segment announces,
\* even when the content's source was replaced between the two.
SegmentMatchesInit ==
    \A st \in Streams, n \in Segments :
        mediaSegment[<<st, n>>] # NoSegment /\ initSegment[st] # NoSource =>
            mediaSegment[<<st, n>>].params = initSegment[st]

\* "Concurrent requests for the same uncached segment don't trigger duplicate
\* origin fetches": whoever fetches a source segment is alone in doing so for
\* its stream, and the result is not in the cache yet.
NoDuplicateFetch ==
    \A c \in Clients : pc[c] = "segFetch" =>
        /\ mediaSegment[SegmentKey(c)] = NoSegment
        /\ \A d \in Clients :
            pc[d] = "segFetch" /\ SegmentKey(d) = SegmentKey(c) => d = c

\* Raw content keys are in the cache only while a setup that will delete them
\* is under way, unless a setup failed or a thread died on the way.
KeysTransient ==
    drmKeys # NoKeys =>
        \/ faults > 0
        \/ crashes > 0
        \/ \E c \in Clients : pc[c] \in KeyHolding

\* All that is cached was made from sources of a permitted container format.
FromPermittedSources ==
    /\ \A f \in Formats : sourceManifest[f] \in PermittedSources \cup {NoSource}
    /\ \A st \in Streams :
        /\ rewriteParams[st] \in PermittedSources \cup {NoSource}
        /\ initSegment[st] \in PermittedSources \cup {NoSource}
        /\ manifestState[st] \in PermittedSources \cup {NoSource}
    /\ \A k \in Streams \X Segments :
        mediaSegment[k] # NoSegment => mediaSegment[k].source \in PermittedSources

\* Policy fails closed: nothing of a stream the operator forbids is cached or
\* served, whether its scheme comes from the URL or from the JIT default, and
\* nothing made from a source whose container format is forbidden, however often
\* the source is replaced and whichever format's manifest a segment goes by.
PolicyFailsClosed ==
    /\ \A f \in Formats, s \in Schemes :
        f \notin AllowedFormats \/ s \notin AllowedSchemes =>
            /\ rewriteParams[<<f, s>>] = NoSource
            /\ initSegment[<<f, s>>] = NoSource
            /\ manifestState[<<f, s>>] = NoSource
    /\ \A c \in Clients : pc[c] = "done" /\ response[c] = 200 =>
            Format(c) \in AllowedFormats /\ Scheme(c) \in AllowedSchemes
    /\ FromPermittedSources

\* Init segments, and the manifest and params beside them, are immutable once
\* created: no later or concurrent setup replaces a published one.
SetupWrittenOnce ==
    [][\A st \in Streams :
        /\ initSegment[st] # NoSource => initSegment'[st] = initSegment[st]
        /\ manifestState[st] # NoSource => manifestState'[st] = manifestState[st]
        /\ rewriteParams[st] # NoSource => rewriteParams'[st] = rewriteParams[st]
      ]_vars

\* "Segments never change once written."
SegmentWrittenOnce ==
    [][\A k \in Streams \X Segments :
        mediaSegment[k] # NoSegment => mediaSegment'[k] = mediaSegment[k]]_vars

\* A request that is retried on every 202 ends with a final answer.
Pending(c) == pc[c] \notin {"idle", "done", "dead"}
Settled(c) == pc[c] = "done" /\ response[c] # 202
RequestsSettle == \A c \in Clients : Pending(c) ~> (Settled(c) \/ pc[c] = "dead")

\* The cache as the write-once store it is meant to be: a stream's packaging is
\* chosen when its rewrite params are cached.
Store == INSTANCE ContentStore WITH
            packaging <- rewriteParams, manifest <- manifestState,
            segments <- mediaSegment

\* Whatever clients, faults, crashes and source changes do, the cache behaves
\* as that store: one packaging per stream, a manifest and segments only of it.
ImplementsContentStore == Store!StoreSpec

-----------------------------------------------------------------------------
(* What the documentation says and the code does not do.                    *)

\* "Ensure JIT setup has been performed for the given content/format/scheme":
\* when it has returned true the manifest of the scheme is there.
SetupCoversScheme ==
    \A c \in Clients : pc[c] = "serve" => manifestState[Stream(c)] # NoSource
=============================================================================
