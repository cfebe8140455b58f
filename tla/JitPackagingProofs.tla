------------------------- MODULE JitPackagingProofs -------------------------
(***************************************************************************)
(* Theorems about JitPackaging for every set of clients, formats, schemes, *)
(* sources and segments and every bound on requests, faults and crashes.   *)
(***************************************************************************)
EXTENDS JitPackaging, TLAPS

-----------------------------------------------------------------------------
(* The parts of the request a client serves.                                *)

LEMMA RequestParts ==
    \A q \in Requests :
        /\ q.kind \in Kinds
        /\ q.format \in Formats
        /\ q.scheme \in Schemes \cup {Unqualified}
        /\ q.segment \in Segments
BY DEF Requests

LEMMA ClientParts ==
    ASSUME ThreadsTypeOK, NEW c \in Clients, pc[c] # "idle"
    PROVE  /\ Format(c) \in Formats
           /\ Scheme(c) \in Schemes
           /\ Stream(c) \in Streams
           /\ SegmentKey(c) \in Streams \X Segments
           /\ SegmentLock(c) \in Formats \X Segments
<1>1. req[c] \in Requests
    BY DEF ThreadsTypeOK
<1>2. Format(c) \in Formats /\ Scheme(c) \in Schemes /\ req[c].segment \in Segments
    BY <1>1, RequestParts, SchemesAssumption DEF Format, Scheme
<1> QED
    BY <1>2 DEF Stream, Streams, SegmentKey, SegmentLock, Format

\* A client that a handler's action concerns has a request.
LEMMA ServingClient ==
    ASSUME NEW c \in Clients, Serve(c)
    PROVE  pc[c] # "idle"
<1>1. CASE EnsureSetup(c)
    BY <1>1 DEF EnsureSetup, CheckMarker, AcquireSetupLock, SetupLockTaken,
       RecheckMarker, ResolveSource, ReleaseSetupLock, SetupRelease
<1>2. CASE JitSetup(c)
    BY <1>2 DEF JitSetup, CheckIdempotent, ReuseSetup, FetchSourceManifest,
       FetchInitSegment, ReadKeys, RequestKeys, WriteRewriteParams,
       WriteInitSegment, WriteManifestState, WriteMarker, CleanupSensitiveData
<1>3. CASE JitSegment(c)
    BY <1>3 DEF JitSegment, StartSegment, AcquireSegmentLock, SegmentLockTaken,
       RecheckSegment, CheckSegmentCached, LoadSourceManifest,
       LoadRewriteParams, ProduceSegment, ReleaseSegmentLock
<1>4. CASE Retry(c) \/ Lookup(c) \/ LookupOnly(c) \/ ServeManifest(c) \/ ServeInit(c)
    BY <1>4 DEF Retry, Lookup, LookupOnly, ServeManifest, ServeInit
<1> QED BY <1>1, <1>2, <1>3, <1>4 DEF Serve

-----------------------------------------------------------------------------
(* Type correctness.                                                        *)

LEMMA TypeInit == Init => TypeOK
BY SourcesAssumption, BoundsAssumption
DEF Init, TypeOK, ThreadsTypeOK, CacheTypeOK, CountsTypeOK, Labels, Kids, NoKeys

\* A handler moves only its own client, to a known label.
LEMMA Moves ==
    ASSUME ThreadsTypeOK, NEW c \in Clients, Serve(c)
    PROVE  /\ \E label \in Labels : pc' = [pc EXCEPT ![c] = label]
           /\ pc'[c] # "idle"
           /\ UNCHANGED req
<1> USE DEF Labels, SetupSection, SetupWork, SetupPublish, SetupRelease,
            SegmentSection, SegmentWork, Goto, Respond, localVars, ThreadsTypeOK
<1>1. CASE CheckMarker(c) \/ AcquireSetupLock(c) \/ SetupLockTaken(c) \/ RecheckMarker(c)
    BY <1>1 DEF CheckMarker, AcquireSetupLock, SetupLockTaken, RecheckMarker
<1>2. CASE ResolveSource(c) \/ ReleaseSetupLock(c)
    BY <1>2 DEF ResolveSource, ReleaseSetupLock
<1>3. CASE CheckIdempotent(c) \/ ReuseSetup(c) \/ FetchSourceManifest(c) \/ FetchInitSegment(c)
    BY <1>3 DEF CheckIdempotent, ReuseSetup, FetchSourceManifest, FetchInitSegment
<1>4. CASE ReadKeys(c) \/ RequestKeys(c) \/ WriteRewriteParams(c)
    BY <1>4 DEF ReadKeys, RequestKeys, WriteRewriteParams
<1>5. CASE WriteInitSegment(c) \/ WriteManifestState(c) \/ WriteMarker(c) \/ CleanupSensitiveData(c)
    BY <1>5 DEF WriteInitSegment, WriteManifestState, WriteMarker, CleanupSensitiveData
<1>6. CASE StartSegment(c) \/ AcquireSegmentLock(c) \/ SegmentLockTaken(c) \/ RecheckSegment(c)
    BY <1>6 DEF StartSegment, AcquireSegmentLock, SegmentLockTaken, RecheckSegment
<1>7. CASE CheckSegmentCached(c) \/ LoadSourceManifest(c) \/ LoadRewriteParams(c)
    BY <1>7 DEF CheckSegmentCached, LoadSourceManifest, LoadRewriteParams
<1>8. CASE ProduceSegment(c) \/ ReleaseSegmentLock(c)
    BY <1>8 DEF ProduceSegment, ReleaseSegmentLock
<1>9. CASE Retry(c) \/ Lookup(c) \/ LookupOnly(c) \/ ServeManifest(c) \/ ServeInit(c)
    BY <1>9 DEF Retry, Lookup, LookupOnly, ServeManifest, ServeInit
<1> QED
    BY <1>1, <1>2, <1>3, <1>4, <1>5, <1>6, <1>7, <1>8, <1>9
    DEF Serve, EnsureSetup, JitSetup, JitSegment

\* The handler's locals and its response stay in their ranges.
LEMMA LocalsStep ==
    ASSUME TypeOK, NEW c \in Clients, Serve(c)
    PROVE  /\ src' \in [Clients -> Sources \cup {NoSource}]
           /\ params' \in [Clients -> Sources \cup {NoSource}]
           /\ response' \in [Clients -> {0, 200, 202, 403, 404}]
<1> USE DEF TypeOK, ThreadsTypeOK, localVars
<1>1. CASE EnsureSetup(c) /\ ~ResolveSource(c)
    BY <1>1 DEF EnsureSetup, CheckMarker, AcquireSetupLock, SetupLockTaken,
       RecheckMarker, ReleaseSetupLock, Respond
<1>2. CASE ResolveSource(c)
    BY <1>2, SourcesAssumption DEF ResolveSource, ResolvedSource, CacheTypeOK
<1>3. CASE JitSetup(c)
    BY <1>3 DEF JitSetup, CheckIdempotent, ReuseSetup, FetchSourceManifest,
       FetchInitSegment, ReadKeys, RequestKeys, WriteRewriteParams,
       WriteInitSegment, WriteManifestState, WriteMarker, CleanupSensitiveData
<1>4. CASE JitSegment(c) /\ ~LoadSourceManifest(c) /\ ~LoadRewriteParams(c)
    BY <1>4 DEF JitSegment, StartSegment, AcquireSegmentLock, SegmentLockTaken,
       RecheckSegment, CheckSegmentCached, ProduceSegment, ReleaseSegmentLock,
       Respond
<1>5. CASE LoadSourceManifest(c)
    BY <1>5, ServingClient, ClientParts DEF LoadSourceManifest, CacheTypeOK
<1>6. CASE LoadRewriteParams(c)
    BY <1>6, ServingClient, ClientParts DEF LoadRewriteParams, CacheTypeOK
<1>7. CASE Retry(c) \/ Lookup(c) \/ LookupOnly(c) \/ ServeManifest(c) \/ ServeInit(c)
    BY <1>7 DEF Retry, Lookup, LookupOnly, ServeManifest, ServeInit, Respond
<1> QED BY <1>1, <1>2, <1>3, <1>4, <1>5, <1>6, <1>7 DEF Serve

\* Setup and segment steps work on a source that was found.
SourceLoaded ==
    \A c \in Clients :
        /\ pc[c] \in {"segParams", "segFetch"} => src[c] \in Sources
        /\ pc[c] \in (SetupWork \ {"resolve"}) \cup SetupPublish => src[c] \in Sources
        /\ pc[c] = "segFetch" => params[c] \in Sources

LEMMA LoadedInit == Init => SourceLoaded
<1>1. ASSUME Init, NEW c \in Clients
      PROVE  pc[c] = "idle"
    BY <1>1 DEF Init
<1>2. "idle" \notin {"segParams", "segFetch"} \cup SetupWork \cup SetupPublish
    BY DEF SetupWork, SetupPublish
<1>3. ASSUME Init, NEW c \in Clients
      PROVE  /\ pc[c] \notin {"segParams", "segFetch"}
             /\ pc[c] \notin (SetupWork \ {"resolve"}) \cup SetupPublish
             /\ pc[c] # "segFetch"
    BY <1>1, <1>2, <1>3
<1> QED BY <1>3, Zenon DEF SourceLoaded

LEMMA LoadedServe ==
    ASSUME TypeOK, SourceLoaded, NEW c \in Clients, Serve(c)
    PROVE  SourceLoaded'
<1> USE DEF SourceLoaded, TypeOK, ThreadsTypeOK, SetupWork, SetupPublish, localVars, Goto
<1>1. CASE EnsureSetup(c) /\ ~ResolveSource(c)
    BY <1>1 DEF EnsureSetup, CheckMarker, AcquireSetupLock, SetupLockTaken,
       RecheckMarker, ReleaseSetupLock, Respond
<1>2. CASE ResolveSource(c)
    BY <1>2, SourcesAssumption DEF ResolveSource, SetupPermitted
<1>3. CASE CheckIdempotent(c) \/ ReuseSetup(c) \/ FetchSourceManifest(c) \/ FetchInitSegment(c)
    BY <1>3 DEF CheckIdempotent, ReuseSetup, FetchSourceManifest, FetchInitSegment
<1>4. CASE ReadKeys(c) \/ RequestKeys(c) \/ WriteRewriteParams(c)
    BY <1>4 DEF ReadKeys, RequestKeys, WriteRewriteParams
<1>5. CASE WriteInitSegment(c) \/ WriteManifestState(c) \/ WriteMarker(c) \/ CleanupSensitiveData(c)
    BY <1>5 DEF WriteInitSegment, WriteManifestState, WriteMarker, CleanupSensitiveData
<1>6. CASE JitSegment(c) /\ ~LoadSourceManifest(c) /\ ~LoadRewriteParams(c)
    BY <1>6 DEF JitSegment, StartSegment, AcquireSegmentLock, SegmentLockTaken,
       RecheckSegment, CheckSegmentCached, ProduceSegment, ReleaseSegmentLock,
       Respond
<1>7. CASE LoadSourceManifest(c)
    BY <1>7, ServingClient, ClientParts DEF LoadSourceManifest, CacheTypeOK
<1>8. CASE LoadRewriteParams(c)
    BY <1>8, ServingClient, ClientParts DEF LoadRewriteParams, CacheTypeOK
<1>9. CASE Retry(c) \/ Lookup(c) \/ LookupOnly(c) \/ ServeManifest(c) \/ ServeInit(c)
    BY <1>9 DEF Retry, Lookup, LookupOnly, ServeManifest, ServeInit, Respond
<1> QED BY <1>1, <1>2, <1>3, <1>4, <1>5, <1>6, <1>7, <1>8, <1>9 DEF Serve, JitSetup

LEMMA LoadedStep ==
    ASSUME TypeOK, SourceLoaded, [Next]_vars
    PROVE  SourceLoaded'
<1>1. ASSUME NEW c \in Clients, Arrive(c) \/ Crash(c) PROVE SourceLoaded'
    BY <1>1 DEF Arrive, Crash, SourceLoaded, TypeOK, ThreadsTypeOK, Goto,
       localVars, SetupWork, SetupPublish
<1>2. CASE SetSourceConfig \/ UNCHANGED vars
    BY <1>2 DEF SetSourceConfig, SourceLoaded, vars, localVars
<1>3. ASSUME NEW c \in Clients, Serve(c) PROVE SourceLoaded'
    BY <1>3, LoadedServe
<1> QED BY <1>1, <1>2, <1>3 DEF Next

\* What the handlers write to the cache is in range.
LEMMA CacheServe ==
    ASSUME TypeOK, SourceLoaded, NEW c \in Clients, Serve(c)
    PROVE  CacheTypeOK'
<1>0. /\ Format(c) \in Formats /\ Stream(c) \in Streams
      /\ SegmentKey(c) \in Streams \X Segments /\ SegmentLock(c) \in Formats \X Segments
    BY ServingClient, ClientParts DEF TypeOK
<1>1. CASE UNCHANGED cacheVars
    BY <1>1 DEF TypeOK, CacheTypeOK, cacheVars, contentVars
<1>2. CASE AcquireSetupLock(c) \/ ReleaseSetupLock(c)
    BY <1>2, <1>0 DEF AcquireSetupLock, ReleaseSetupLock, TypeOK, CacheTypeOK, contentVars
<1>3. CASE FetchSourceManifest(c)
    BY <1>3, <1>0 DEF FetchSourceManifest, TypeOK, CacheTypeOK, lockVars,
       SourceLoaded, SetupWork
<1>4. CASE RequestKeys(c)
    BY <1>4, SourcesAssumption DEF RequestKeys, TypeOK, CacheTypeOK, lockVars,
       contentVars, KidOf, Kids, OtherKid
<1>5. CASE WriteRewriteParams(c)
    BY <1>5, <1>0 DEF WriteRewriteParams, TypeOK, CacheTypeOK, lockVars,
       SourceLoaded, SetupWork
<1>6. CASE WriteInitSegment(c)
    BY <1>6, <1>0 DEF WriteInitSegment, TypeOK, CacheTypeOK, lockVars,
       SourceLoaded, SetupPublish
<1>7. CASE WriteManifestState(c)
    BY <1>7, <1>0 DEF WriteManifestState, TypeOK, CacheTypeOK, lockVars,
       SourceLoaded, SetupPublish
<1>8. CASE WriteMarker(c)
    BY <1>8, <1>0 DEF WriteMarker, TypeOK, CacheTypeOK, lockVars, contentVars
<1>9. CASE CleanupSensitiveData(c)
    BY <1>9 DEF CleanupSensitiveData, TypeOK, CacheTypeOK, lockVars, contentVars
<1>10. CASE AcquireSegmentLock(c) \/ ReleaseSegmentLock(c)
    BY <1>10, <1>0 DEF AcquireSegmentLock, ReleaseSegmentLock, TypeOK,
       CacheTypeOK, contentVars
<1>11. CASE ProduceSegment(c)
    BY <1>11, <1>0 DEF ProduceSegment, TypeOK, CacheTypeOK, lockVars,
       SourceLoaded, SegmentRecord
<1> QED
    BY <1>1, <1>2, <1>3, <1>4, <1>5, <1>6, <1>7, <1>8, <1>9, <1>10, <1>11
    DEF Serve, Retry, Lookup, LookupOnly, EnsureSetup, JitSetup, JitSegment,
        CheckMarker, SetupLockTaken, RecheckMarker, ResolveSource,
        CheckIdempotent, ReuseSetup, FetchInitSegment, ReadKeys, ServeManifest,
        ServeInit, StartSegment, SegmentLockTaken, RecheckSegment,
        CheckSegmentCached, LoadSourceManifest, LoadRewriteParams

\* Only the origin's faults are counted while a request is served.
LEMMA CountsServe ==
    ASSUME TypeOK, NEW c \in Clients, Serve(c)
    PROVE  /\ UNCHANGED <<issued, crashes>>
           /\ UNCHANGED faults \/ Fault
<1>1. CASE EnsureSetup(c)
    BY <1>1 DEF EnsureSetup, CheckMarker, AcquireSetupLock, SetupLockTaken,
       RecheckMarker, ResolveSource, ReleaseSetupLock, countVars
<1>2. CASE JitSetup(c)
    BY <1>2 DEF JitSetup, CheckIdempotent, ReuseSetup, FetchSourceManifest,
       FetchInitSegment, ReadKeys, RequestKeys, WriteRewriteParams,
       WriteInitSegment, WriteManifestState, WriteMarker, CleanupSensitiveData,
       countVars
<1>3. CASE JitSegment(c)
    BY <1>3 DEF JitSegment, StartSegment, AcquireSegmentLock, SegmentLockTaken,
       RecheckSegment, CheckSegmentCached, LoadSourceManifest,
       LoadRewriteParams, ProduceSegment, ReleaseSegmentLock, countVars
<1>4. CASE Retry(c) \/ Lookup(c) \/ LookupOnly(c) \/ ServeManifest(c) \/ ServeInit(c)
    BY <1>4 DEF Retry, Lookup, LookupOnly, ServeManifest, ServeInit, countVars
<1> QED BY <1>1, <1>2, <1>3, <1>4 DEF Serve

LEMMA TypeStep ==
    ASSUME TypeOK, SourceLoaded, [Next]_vars
    PROVE  TypeOK'
<1> USE DEF TypeOK
<1>1. ASSUME NEW c \in Clients, Arrive(c) PROVE TypeOK'
  <2>1. ThreadsTypeOK'
      BY <1>1 DEF Arrive, ThreadsTypeOK, Goto, Labels
  <2>2. CacheTypeOK'
      BY <1>1 DEF Arrive, CacheTypeOK, cacheVars, contentVars
  <2>3. CountsTypeOK'
      BY <1>1, BoundsAssumption DEF Arrive, CountsTypeOK
  <2> QED BY <2>1, <2>2, <2>3
<1>2. ASSUME NEW c \in Clients, Crash(c) PROVE TypeOK'
  <2>1. ThreadsTypeOK'
      BY <1>2 DEF Crash, ThreadsTypeOK, Goto, Labels, localVars
  <2>2. CacheTypeOK'
      BY <1>2 DEF Crash, CacheTypeOK, cacheVars, contentVars
  <2>3. CountsTypeOK'
      BY <1>2, BoundsAssumption DEF Crash, CountsTypeOK
  <2> QED BY <2>1, <2>2, <2>3
<1>3. CASE SetSourceConfig
    BY <1>3 DEF SetSourceConfig, TypeOK, ThreadsTypeOK, CacheTypeOK,
       CountsTypeOK, localVars, lockVars, contentVars, countVars
<1>4. ASSUME NEW c \in Clients, Serve(c) PROVE TypeOK'
  <2>1. ThreadsTypeOK'
    <3>1. PICK label \in Labels : pc' = [pc EXCEPT ![c] = label]
        BY <1>4, Moves
    <3>2. req' = req /\ pc'[c] # "idle" /\ pc[c] # "idle"
        BY <1>4, Moves, ServingClient
    <3>3. \A d \in Clients : pc'[d] # "idle" => pc[d] # "idle"
        BY <3>1, <3>2 DEF ThreadsTypeOK
    <3> QED BY <1>4, <3>1, <3>2, <3>3, LocalsStep DEF ThreadsTypeOK
  <2>2. CacheTypeOK'
      BY <1>4, CacheServe
  <2>3. CountsTypeOK'
      BY <1>4, CountsServe, BoundsAssumption DEF TypeOK, CountsTypeOK, Fault
  <2> QED BY <2>1, <2>2, <2>3 DEF TypeOK
<1>5. CASE UNCHANGED vars
    BY <1>5 DEF vars, TypeOK, ThreadsTypeOK, CacheTypeOK, CountsTypeOK,
       localVars, cacheVars, contentVars, countVars
<1> QED BY <1>1, <1>2, <1>3, <1>4, <1>5 DEF Next

\* Every variable of the JIT packager stays in its range, and setups and
\* segments work only on sources and rewrite params they have found.
THEOREM TypeCorrect == Spec => [](TypeOK /\ SourceLoaded)
<1>1. Init => TypeOK /\ SourceLoaded
    BY TypeInit, LoadedInit
<1>2. TypeOK /\ SourceLoaded /\ [Next]_vars => (TypeOK /\ SourceLoaded)'
    BY TypeStep, LoadedStep
<1> QED BY <1>1, <1>2, PTL DEF Spec

-----------------------------------------------------------------------------
(* Mutual exclusion.  A handler's action either enters a section by taking  *)
(* its free lock, or leaves it by dropping the lock, or does neither.       *)

EntersSetup(c) == /\ ~InSetup(c) /\ InSetup(c)'
                  /\ Format(c) \notin setupLocks
                  /\ setupLocks' = setupLocks \cup {Format(c)}
LeavesSetup(c) == /\ InSetup(c) /\ ~InSetup(c)'
                  /\ setupLocks' = setupLocks \ {Format(c)}
EntersSegment(c) == /\ ~InSegment(c) /\ InSegment(c)'
                    /\ SegmentLock(c) \notin segmentLocks
                    /\ segmentLocks' = segmentLocks \cup {SegmentLock(c)}
LeavesSegment(c) == /\ InSegment(c) /\ ~InSegment(c)'
                    /\ segmentLocks' = segmentLocks \ {SegmentLock(c)}

LEMMA SetupLockSteps ==
    ASSUME ThreadsTypeOK, NEW c \in Clients, Serve(c)
    PROVE  \/ EntersSetup(c)
           \/ LeavesSetup(c)
           \/ (InSetup(c)' <=> InSetup(c)) /\ UNCHANGED setupLocks
<1> USE DEF EntersSetup, LeavesSetup, InSetup, SetupSection, SetupWork,
            SetupPublish, SetupRelease, Goto, Respond, ThreadsTypeOK, cacheVars,
            lockVars
<1>1. CASE CheckMarker(c) \/ AcquireSetupLock(c) \/ SetupLockTaken(c) \/ RecheckMarker(c)
    BY <1>1 DEF CheckMarker, AcquireSetupLock, SetupLockTaken, RecheckMarker
<1>2. CASE ResolveSource(c) \/ ReleaseSetupLock(c)
    BY <1>2 DEF ResolveSource, ReleaseSetupLock
<1>3. CASE CheckIdempotent(c) \/ ReuseSetup(c) \/ FetchSourceManifest(c) \/ FetchInitSegment(c)
    BY <1>3 DEF CheckIdempotent, ReuseSetup, FetchSourceManifest, FetchInitSegment
<1>4. CASE ReadKeys(c) \/ RequestKeys(c) \/ WriteRewriteParams(c)
    BY <1>4 DEF ReadKeys, RequestKeys, WriteRewriteParams
<1>5. CASE WriteInitSegment(c) \/ WriteManifestState(c) \/ WriteMarker(c) \/ CleanupSensitiveData(c)
    BY <1>5 DEF WriteInitSegment, WriteManifestState, WriteMarker, CleanupSensitiveData
<1>6. CASE JitSegment(c)
    BY <1>6 DEF JitSegment, StartSegment, AcquireSegmentLock, SegmentLockTaken,
       RecheckSegment, CheckSegmentCached, LoadSourceManifest,
       LoadRewriteParams, ProduceSegment, ReleaseSegmentLock
<1>7. CASE Retry(c) \/ Lookup(c) \/ LookupOnly(c) \/ ServeManifest(c) \/ ServeInit(c)
    BY <1>7 DEF Retry, Lookup, LookupOnly, ServeManifest, ServeInit
<1> QED BY <1>1, <1>2, <1>3, <1>4, <1>5, <1>6, <1>7 DEF Serve, EnsureSetup, JitSetup

LEMMA SegmentLockSteps ==
    ASSUME ThreadsTypeOK, NEW c \in Clients, Serve(c)
    PROVE  \/ EntersSegment(c)
           \/ LeavesSegment(c)
           \/ (InSegment(c)' <=> InSegment(c)) /\ UNCHANGED segmentLocks
<1> USE DEF EntersSegment, LeavesSegment, InSegment, SegmentSection, SegmentWork,
            Goto, Respond, ThreadsTypeOK, cacheVars, lockVars
<1>1. CASE EnsureSetup(c)
    BY <1>1 DEF EnsureSetup, CheckMarker, AcquireSetupLock, SetupLockTaken,
       RecheckMarker, ResolveSource, ReleaseSetupLock, SetupRelease
<1>2. CASE JitSetup(c)
    BY <1>2 DEF JitSetup, CheckIdempotent, ReuseSetup, FetchSourceManifest,
       FetchInitSegment, ReadKeys, RequestKeys, WriteRewriteParams,
       WriteInitSegment, WriteManifestState, WriteMarker, CleanupSensitiveData
<1>3. CASE StartSegment(c) \/ AcquireSegmentLock(c) \/ SegmentLockTaken(c) \/ RecheckSegment(c)
    BY <1>3 DEF StartSegment, AcquireSegmentLock, SegmentLockTaken, RecheckSegment
<1>4. CASE CheckSegmentCached(c) \/ LoadSourceManifest(c) \/ LoadRewriteParams(c)
    BY <1>4 DEF CheckSegmentCached, LoadSourceManifest, LoadRewriteParams
<1>5. CASE ProduceSegment(c) \/ ReleaseSegmentLock(c)
    BY <1>5 DEF ProduceSegment, ReleaseSegmentLock
<1>6. CASE Retry(c) \/ Lookup(c) \/ LookupOnly(c) \/ ServeManifest(c) \/ ServeInit(c)
    BY <1>6 DEF Retry, Lookup, LookupOnly, ServeManifest, ServeInit
<1> QED BY <1>1, <1>2, <1>3, <1>4, <1>5, <1>6 DEF Serve, JitSegment

\* The request being served does not change, and other clients stand still.
LEMMA ServeFrame ==
    ASSUME ThreadsTypeOK, NEW c \in Clients, Serve(c)
    PROVE  /\ \A d \in Clients : d # c => pc'[d] = pc[d]
           /\ \A d \in Clients :
                /\ Format(d)' = Format(d) /\ Scheme(d)' = Scheme(d)
                /\ Stream(d)' = Stream(d) /\ SegmentKey(d)' = SegmentKey(d)
                /\ SegmentLock(d)' = SegmentLock(d)
<1>1. PICK label \in Labels : pc' = [pc EXCEPT ![c] = label]
    BY Moves
<1>2. UNCHANGED req
    BY Moves
<1> QED BY <1>1, <1>2 DEF ThreadsTypeOK, Format, Scheme, Stream, SegmentKey, SegmentLock

LEMMA ExclusionServe ==
    ASSUME TypeOK, MutualExclusion, NEW c \in Clients, Serve(c)
    PROVE  MutualExclusion'
<1>0. /\ \A d \in Clients : d # c => (InSetup(d)' <=> InSetup(d)) /\ (InSegment(d)' <=> InSegment(d))
      /\ \A d \in Clients : Format(d)' = Format(d) /\ SegmentLock(d)' = SegmentLock(d)
    BY ServeFrame DEF TypeOK, InSetup, InSegment
<1>1. /\ \A d, e \in Clients : InSetup(d)' /\ InSetup(e)' /\ Format(d)' = Format(e)' => d = e
      /\ \A d \in Clients : InSetup(d)' => Format(d)' \in setupLocks'
    BY <1>0, SetupLockSteps DEF TypeOK, MutualExclusion, EntersSetup, LeavesSetup
<1>2. /\ \A d, e \in Clients : InSegment(d)' /\ InSegment(e)' /\ SegmentLock(d)' = SegmentLock(e)' => d = e
      /\ \A d \in Clients : InSegment(d)' => SegmentLock(d)' \in segmentLocks'
    BY <1>0, SegmentLockSteps DEF TypeOK, MutualExclusion, EntersSegment, LeavesSegment
<1> QED BY <1>1, <1>2 DEF MutualExclusion

LEMMA ExclusionStep ==
    ASSUME TypeOK, MutualExclusion, [Next]_vars
    PROVE  MutualExclusion'
<1>1. ASSUME NEW c \in Clients, Arrive(c) PROVE MutualExclusion'
  <2>1. /\ \A d \in Clients : d # c => pc'[d] = pc[d] /\ req'[d] = req[d]
        /\ ~InSetup(c)' /\ ~InSegment(c)'
        /\ setupLocks' = setupLocks /\ segmentLocks' = segmentLocks
      BY <1>1 DEF Arrive, TypeOK, ThreadsTypeOK, Goto, cacheVars, InSetup, InSegment,
         SetupSection, SetupWork, SetupPublish, SetupRelease, SegmentSection, SegmentWork
  <2> QED BY <2>1 DEF MutualExclusion, InSetup, InSegment, Format, SegmentLock
<1>2. ASSUME NEW c \in Clients, Crash(c) PROVE MutualExclusion'
  <2>1. /\ \A d \in Clients : d # c => pc'[d] = pc[d]
        /\ UNCHANGED req
        /\ ~InSetup(c)' /\ ~InSegment(c)'
        /\ setupLocks' = setupLocks /\ segmentLocks' = segmentLocks
      BY <1>2 DEF Crash, TypeOK, ThreadsTypeOK, Goto, localVars, cacheVars, InSetup, InSegment,
         SetupSection, SetupWork, SetupPublish, SetupRelease, SegmentSection, SegmentWork
  <2> QED BY <2>1 DEF MutualExclusion, InSetup, InSegment, Format, SegmentLock
<1>3. CASE SetSourceConfig \/ UNCHANGED vars
    BY <1>3 DEF SetSourceConfig, vars, localVars, cacheVars, lockVars,
       MutualExclusion, InSetup, InSegment, Format, SegmentLock
<1>4. ASSUME NEW c \in Clients, Serve(c) PROVE MutualExclusion'
    BY <1>4, ExclusionServe
<1> QED BY <1>1, <1>2, <1>3, <1>4 DEF Next

\* Request coalescing: at most one client is inside the setup of a format, at
\* most one inside the production of a segment number, and it holds the lock.
THEOREM Exclusion == Spec => []MutualExclusion
<1>1. Init => MutualExclusion
    BY DEF Init, MutualExclusion, InSetup, InSegment, SetupSection, SetupWork,
       SetupPublish, SetupRelease, SegmentSection, SegmentWork
<1>2. TypeOK /\ MutualExclusion /\ [Next]_vars => MutualExclusion'
    BY ExclusionStep
<1> QED BY <1>1, <1>2, TypeCorrect, PTL DEF Spec

-----------------------------------------------------------------------------
(* Publication.  The inductive invariant says, for the client that holds a  *)
(* setup lock, which entries of its stream are there at each point, and for *)
(* every stream that a setup that has begun to publish ends publishing.     *)

SetupStage(c) ==
    /\ pc[c] \in {"source", "init", "keys", "speke", "params"} =>
          rewriteParams[Stream(c)] = NoSource
    /\ pc[c] \in {"init", "keys", "speke", "params"} \cup SetupPublish =>
          sourceManifest[Format(c)] # NoSource
    /\ pc[c] \in SetupPublish => rewriteParams[Stream(c)] = src[c]
    /\ pc[c] = "writeInit" => initSegment[Stream(c)] = NoSource
    /\ pc[c] \in {"writeManifest", "writeMarker"} => initSegment[Stream(c)] = src[c]
    /\ pc[c] \in {"writeInit", "writeManifest"} => manifestState[Stream(c)] = NoSource
    /\ pc[c] \in {"writeMarker", "dropKeys"} => manifestState[Stream(c)] = src[c]
    /\ pc[c] = "dropKeys" => Format(c) \in setupMarkers

StreamOrder(st) ==
    /\ initSegment[st] # NoSource => rewriteParams[st] = initSegment[st]
    /\ manifestState[st] # NoSource =>
          initSegment[st] = manifestState[st] /\ sourceManifest[st[1]] # NoSource

Published(st)  == manifestState[st] # NoSource /\ st[1] \in setupMarkers
Publishing(st) ==
    /\ st[1] \in setupLocks
    /\ \A c \in Clients : InSetup(c) /\ Format(c) = st[1] =>
            pc[c] \in SetupPublish /\ Stream(c) = st

PublicationInv ==
    /\ \A c \in Clients : SetupStage(c)
    /\ \A st \in Streams : StreamOrder(st)
    /\ \A st \in Streams : rewriteParams[st] # NoSource => Published(st) \/ Publishing(st)

PublicationVars == <<sourceManifest, rewriteParams, initSegment, manifestState,
                     setupMarkers>>

LEMMA StreamFormat ==
    \A c \in Clients : Stream(c)[1] = Format(c)
BY DEF Stream

LEMMA PublicationInit == Init => PublicationInv
<1> SUFFICES ASSUME Init PROVE PublicationInv
    OBVIOUS
<1>1. ASSUME NEW c \in Clients PROVE SetupStage(c)
    BY DEF Init, SetupStage, SetupPublish
<1>2. ASSUME NEW st \in Streams PROVE StreamOrder(st) /\ rewriteParams[st] = NoSource
    BY DEF Init, StreamOrder
<1> QED BY <1>1, <1>2 DEF PublicationInv

\* A client outside the setup section leaves everything published alone.
LEMMA OutsideSetupQuiet ==
    ASSUME NEW c \in Clients, Serve(c), ~InSetup(c)
    PROVE  UNCHANGED PublicationVars
<1> USE DEF InSetup, SetupSection, SetupWork, SetupPublish, SetupRelease,
            PublicationVars, cacheVars, contentVars
<1>1. CASE EnsureSetup(c)
    BY <1>1 DEF EnsureSetup, CheckMarker, AcquireSetupLock, SetupLockTaken,
       RecheckMarker, ResolveSource, ReleaseSetupLock
<1>2. CASE JitSetup(c)
    BY <1>2 DEF JitSetup, CheckIdempotent, ReuseSetup, FetchSourceManifest,
       FetchInitSegment, ReadKeys, RequestKeys, WriteRewriteParams,
       WriteInitSegment, WriteManifestState, WriteMarker, CleanupSensitiveData
<1>3. CASE JitSegment(c)
    BY <1>3 DEF JitSegment, StartSegment, AcquireSegmentLock, SegmentLockTaken,
       RecheckSegment, CheckSegmentCached, LoadSourceManifest,
       LoadRewriteParams, ProduceSegment, ReleaseSegmentLock
<1>4. CASE Retry(c) \/ Lookup(c) \/ LookupOnly(c) \/ ServeManifest(c) \/ ServeInit(c)
    BY <1>4 DEF Retry, Lookup, LookupOnly, ServeManifest, ServeInit
<1> QED BY <1>1, <1>2, <1>3, <1>4 DEF Serve

\* Other clients' locals are not touched.
LEMMA LocalsFrame ==
    ASSUME ThreadsTypeOK, NEW c \in Clients, Serve(c)
    PROVE  \A d \in Clients : d # c => src'[d] = src[d] /\ params'[d] = params[d]
<1> USE DEF ThreadsTypeOK, localVars, Respond
<1>1. CASE EnsureSetup(c)
    BY <1>1 DEF EnsureSetup, CheckMarker, AcquireSetupLock, SetupLockTaken,
       RecheckMarker, ResolveSource, ReleaseSetupLock
<1>2. CASE JitSetup(c)
    BY <1>2 DEF JitSetup, CheckIdempotent, ReuseSetup, FetchSourceManifest,
       FetchInitSegment, ReadKeys, RequestKeys, WriteRewriteParams,
       WriteInitSegment, WriteManifestState, WriteMarker, CleanupSensitiveData
<1>3. CASE JitSegment(c)
    BY <1>3 DEF JitSegment, StartSegment, AcquireSegmentLock, SegmentLockTaken,
       RecheckSegment, CheckSegmentCached, LoadSourceManifest,
       LoadRewriteParams, ProduceSegment, ReleaseSegmentLock
<1>4. CASE Retry(c) \/ Lookup(c) \/ LookupOnly(c) \/ ServeManifest(c) \/ ServeInit(c)
    BY <1>4 DEF Retry, Lookup, LookupOnly, ServeManifest, ServeInit
<1> QED BY <1>1, <1>2, <1>3, <1>4 DEF Serve

\* Nor are the responses other clients were given.
LEMMA ResponseFrame ==
    ASSUME ThreadsTypeOK, NEW c \in Clients, Serve(c)
    PROVE  \A d \in Clients : d # c => response'[d] = response[d]
<1> USE DEF ThreadsTypeOK, localVars, Respond
<1>1. CASE EnsureSetup(c)
    BY <1>1 DEF EnsureSetup, CheckMarker, AcquireSetupLock, SetupLockTaken,
       RecheckMarker, ResolveSource, ReleaseSetupLock
<1>2. CASE JitSetup(c)
    BY <1>2 DEF JitSetup, CheckIdempotent, ReuseSetup, FetchSourceManifest,
       FetchInitSegment, ReadKeys, RequestKeys, WriteRewriteParams,
       WriteInitSegment, WriteManifestState, WriteMarker, CleanupSensitiveData
<1>3. CASE JitSegment(c)
    BY <1>3 DEF JitSegment, StartSegment, AcquireSegmentLock, SegmentLockTaken,
       RecheckSegment, CheckSegmentCached, LoadSourceManifest,
       LoadRewriteParams, ProduceSegment, ReleaseSegmentLock
<1>4. CASE Retry(c) \/ Lookup(c) \/ LookupOnly(c) \/ ServeManifest(c) \/ ServeInit(c)
    BY <1>4 DEF Retry, Lookup, LookupOnly, ServeManifest, ServeInit
<1> QED BY <1>1, <1>2, <1>3, <1>4 DEF Serve

\* What one setup step writes: only cells of its own stream and format, and a
\* write at most fills what the stage before it left empty.
LEMMA SetupWrites ==
    ASSUME TypeOK, SourceLoaded, NEW c \in Clients, Serve(c), InSetup(c), SetupStage(c)
    PROVE  /\ \A st \in Streams : st # Stream(c) =>
                /\ rewriteParams'[st] = rewriteParams[st]
                /\ initSegment'[st] = initSegment[st]
                /\ manifestState'[st] = manifestState[st]
           /\ \A f \in Formats : f # Format(c) => sourceManifest'[f] = sourceManifest[f]
           /\ sourceManifest[Format(c)] # NoSource => sourceManifest'[Format(c)] # NoSource
           /\ setupMarkers \subseteq setupMarkers'
<1>0. Stream(c) \in Streams /\ Format(c) \in Formats
    BY ServingClient, ClientParts DEF TypeOK
<1>1. CASE UNCHANGED PublicationVars
    BY <1>1 DEF PublicationVars
<1>2. CASE FetchSourceManifest(c)
    BY <1>2, <1>0, SourcesAssumption DEF FetchSourceManifest, TypeOK, CacheTypeOK, SourceLoaded, SetupWork
<1>3. CASE WriteRewriteParams(c)
    BY <1>3, <1>0 DEF WriteRewriteParams, TypeOK, CacheTypeOK, lockVars
<1>4. CASE WriteInitSegment(c) \/ WriteManifestState(c)
    BY <1>4, <1>0 DEF WriteInitSegment, WriteManifestState, TypeOK, CacheTypeOK, lockVars
<1>5. CASE WriteMarker(c)
    BY <1>5 DEF WriteMarker, contentVars
<1> QED
    BY <1>1, <1>2, <1>3, <1>4, <1>5
    DEF Serve, Retry, Lookup, LookupOnly, EnsureSetup, JitSetup, JitSegment,
        CheckMarker, AcquireSetupLock, SetupLockTaken, RecheckMarker,
        ResolveSource, ReleaseSetupLock, CheckIdempotent, ReuseSetup,
        FetchInitSegment, ReadKeys, RequestKeys, CleanupSensitiveData,
        ServeManifest, ServeInit, StartSegment, AcquireSegmentLock,
        SegmentLockTaken, RecheckSegment, CheckSegmentCached,
        LoadSourceManifest, LoadRewriteParams, ProduceSegment,
        ReleaseSegmentLock, PublicationVars, cacheVars, contentVars

\* A setup that has not begun to publish finds its stream empty or complete.
LEMMA EmptyOrPublished ==
    ASSUME TypeOK, PublicationInv, NEW c \in Clients, InSetup(c), pc[c] \notin SetupPublish
    PROVE  rewriteParams[Stream(c)] = NoSource \/ Published(Stream(c))
<1>1. Stream(c) \in Streams
    BY ClientParts DEF TypeOK, InSetup, SetupSection, SetupWork, SetupPublish, SetupRelease
<1>2. ~Publishing(Stream(c))
    BY StreamFormat DEF Publishing
<1> QED BY <1>1, <1>2 DEF PublicationInv

\* The stage of the client that takes the step.
LEMMA OwnStage ==
    ASSUME TypeOK, SourceLoaded, PublicationInv, NEW c \in Clients, Serve(c)
    PROVE  SetupStage(c)'
<1>0. /\ Stream(c) \in Streams /\ Format(c) \in Formats /\ SetupStage(c)
      /\ StreamOrder(Stream(c)) /\ Stream(c)[1] = Format(c)
      /\ Stream(c)' = Stream(c) /\ Format(c)' = Format(c)
    BY ServingClient, ClientParts, StreamFormat, ServeFrame DEF TypeOK, PublicationInv
<1> USE <1>0 DEF SetupStage, SetupPublish, TypeOK, ThreadsTypeOK, CacheTypeOK, Goto, localVars
<1>1. CASE EnsureSetup(c)
    BY <1>1 DEF EnsureSetup, CheckMarker, AcquireSetupLock, SetupLockTaken,
       RecheckMarker, ResolveSource, ReleaseSetupLock, Respond
<1>2. CASE CheckIdempotent(c)
  <2>1. InSetup(c) /\ pc[c] \notin SetupPublish
      BY <1>2 DEF CheckIdempotent, InSetup, SetupSection, SetupWork
  <2>2. Format(c) \notin setupMarkers => rewriteParams[Stream(c)] = NoSource
      BY <2>1, EmptyOrPublished DEF Published
  <2> QED BY <1>2, <2>2 DEF CheckIdempotent, cacheVars, contentVars
<1>3. CASE ReuseSetup(c)
  <2>1. InSetup(c) /\ pc[c] \notin SetupPublish
      BY <1>3 DEF ReuseSetup, InSetup, SetupSection, SetupWork
  <2>2. manifestState[Stream(c)] = NoSource \/ initSegment[Stream(c)] = NoSource
            => rewriteParams[Stream(c)] = NoSource
      BY <2>1, EmptyOrPublished DEF Published, StreamOrder
  <2> QED BY <1>3, <2>2 DEF ReuseSetup, cacheVars, contentVars
<1>4. CASE FetchSourceManifest(c)
    BY <1>4, SourcesAssumption DEF FetchSourceManifest, SourceLoaded, SetupWork
<1>5. CASE FetchInitSegment(c) \/ ReadKeys(c) \/ RequestKeys(c)
    BY <1>5 DEF FetchInitSegment, ReadKeys, RequestKeys, cacheVars, contentVars
<1>6. CASE WriteRewriteParams(c)
    BY <1>6 DEF WriteRewriteParams, StreamOrder
<1>7. CASE WriteInitSegment(c) \/ WriteManifestState(c)
    BY <1>7 DEF WriteInitSegment, WriteManifestState
<1>8. CASE WriteMarker(c) \/ CleanupSensitiveData(c)
    BY <1>8 DEF WriteMarker, CleanupSensitiveData, contentVars
<1>9. CASE JitSegment(c)
    BY <1>9 DEF JitSegment, StartSegment, AcquireSegmentLock, SegmentLockTaken,
       RecheckSegment, CheckSegmentCached, LoadSourceManifest,
       LoadRewriteParams, ProduceSegment, ReleaseSegmentLock, Respond
<1>10. CASE Retry(c) \/ Lookup(c) \/ LookupOnly(c) \/ ServeManifest(c) \/ ServeInit(c)
    BY <1>10 DEF Retry, Lookup, LookupOnly, ServeManifest, ServeInit, Respond
<1> QED BY <1>1, <1>2, <1>3, <1>4, <1>5, <1>6, <1>7, <1>8, <1>9, <1>10 DEF Serve, JitSetup

\* Another client in a setup is in the setup of another format.
LEMMA OtherStage ==
    ASSUME TypeOK, SourceLoaded, MutualExclusion, PublicationInv,
           NEW c \in Clients, Serve(c), NEW d \in Clients, d # c
    PROVE  SetupStage(d)'
<1>1. /\ pc'[d] = pc[d] /\ src'[d] = src[d] /\ SetupStage(d)
      /\ Stream(d)' = Stream(d) /\ Format(d)' = Format(d)
    BY ServeFrame, LocalsFrame DEF TypeOK, PublicationInv
<1>2. CASE ~InSetup(d)
    BY <1>1, <1>2 DEF SetupStage, InSetup, SetupSection, SetupWork, SetupPublish
<1>3. CASE InSetup(d) /\ ~InSetup(c)
    BY <1>1, <1>3, OutsideSetupQuiet DEF SetupStage, PublicationVars
<1>4. CASE InSetup(d) /\ InSetup(c)
  <2>1. Format(d) # Format(c) /\ Format(d) \in Formats /\ Stream(d) \in Streams
      BY <1>4, ClientParts DEF MutualExclusion, TypeOK, InSetup, SetupSection,
         SetupWork, SetupPublish, SetupRelease
  <2>2. Stream(d) # Stream(c)
      BY <2>1 DEF Stream
  <2>3. SetupStage(c)
      BY DEF PublicationInv
  <2> QED BY <1>1, <1>4, <2>1, <2>2, <2>3, SetupWrites DEF SetupStage
<1> QED BY <1>2, <1>3, <1>4

LEMMA OrderServe ==
    ASSUME TypeOK, SourceLoaded, PublicationInv, NEW c \in Clients, Serve(c),
           NEW st \in Streams
    PROVE  StreamOrder(st)'
<1>0. /\ StreamOrder(st) /\ SetupStage(c) /\ Stream(c) \in Streams
      /\ Format(c) \in Formats /\ Stream(c)[1] = Format(c) /\ st[1] \in Formats
    BY ServingClient, ClientParts, StreamFormat DEF TypeOK, PublicationInv, Streams
<1>1. CASE UNCHANGED PublicationVars
    BY <1>0, <1>1 DEF PublicationVars, StreamOrder
<1> USE <1>0 DEF StreamOrder, SetupStage, SetupPublish, TypeOK, CacheTypeOK
<1>2. CASE FetchSourceManifest(c)
    BY <1>2, SourcesAssumption DEF FetchSourceManifest, SourceLoaded, SetupWork
<1>3. CASE WriteRewriteParams(c)
    BY <1>3 DEF WriteRewriteParams, lockVars
<1>4. CASE WriteInitSegment(c)
    BY <1>4 DEF WriteInitSegment, lockVars
<1>5. CASE WriteManifestState(c)
    BY <1>5 DEF WriteManifestState, lockVars
<1>6. CASE WriteMarker(c)
    BY <1>6 DEF WriteMarker, contentVars
<1> QED
    BY <1>1, <1>2, <1>3, <1>4, <1>5, <1>6
    DEF Serve, Retry, Lookup, LookupOnly, EnsureSetup, JitSetup, JitSegment,
        CheckMarker, AcquireSetupLock, SetupLockTaken, RecheckMarker,
        ResolveSource, ReleaseSetupLock, CheckIdempotent, ReuseSetup,
        FetchInitSegment, ReadKeys, RequestKeys, CleanupSensitiveData,
        ServeManifest, ServeInit, StartSegment, AcquireSegmentLock,
        SegmentLockTaken, RecheckSegment, CheckSegmentCached,
        LoadSourceManifest, LoadRewriteParams, ProduceSegment,
        ReleaseSegmentLock, PublicationVars, cacheVars, contentVars

\* What is published stays published: manifests are never emptied.
LEMMA PublishedStays ==
    ASSUME TypeOK, SourceLoaded, PublicationInv, NEW c \in Clients, Serve(c),
           NEW st \in Streams, Published(st)
    PROVE  Published(st)'
<1>0. SetupStage(c) /\ Stream(c) \in Streams
    BY ServingClient, ClientParts DEF TypeOK, PublicationInv
<1>1. CASE ~InSetup(c)
    BY <1>1, OutsideSetupQuiet DEF PublicationVars, Published
<1>2. CASE InSetup(c) /\ WriteManifestState(c)
    BY <1>0, <1>2 DEF WriteManifestState, Published, SetupStage, TypeOK, CacheTypeOK, SetupPublish
<1>3. CASE InSetup(c) /\ ~WriteManifestState(c)
  <2>1. manifestState' = manifestState
      BY <1>3 DEF Serve, Retry, Lookup, LookupOnly, EnsureSetup, JitSetup, JitSegment,
        CheckMarker, AcquireSetupLock, SetupLockTaken, RecheckMarker,
        ResolveSource, ReleaseSetupLock, CheckIdempotent, ReuseSetup,
        FetchSourceManifest, WriteRewriteParams, WriteInitSegment, WriteMarker,
        FetchInitSegment, ReadKeys, RequestKeys, CleanupSensitiveData,
        ServeManifest, ServeInit, StartSegment, AcquireSegmentLock,
        SegmentLockTaken, RecheckSegment, CheckSegmentCached,
        LoadSourceManifest, LoadRewriteParams, ProduceSegment,
        ReleaseSegmentLock, cacheVars, contentVars
  <2> QED BY <1>0, <1>3, <2>1, SetupWrites DEF Published
<1> QED BY <1>1, <1>2, <1>3

\* A setup that has begun to publish goes on to complete its stream.
LEMMA SettledServe ==
    ASSUME TypeOK, SourceLoaded, MutualExclusion, PublicationInv,
           NEW c \in Clients, Serve(c), NEW st \in Streams,
           rewriteParams'[st] # NoSource
    PROVE  Published(st)' \/ Publishing(st)'
<1>0. /\ SetupStage(c) /\ Stream(c) \in Streams /\ Format(c) \in Formats
      /\ Stream(c)[1] = Format(c)
      /\ InSetup(c) => Format(c) \in setupLocks
      /\ st[1] \in Formats
    BY ServingClient, ClientParts, StreamFormat
    DEF TypeOK, PublicationInv, MutualExclusion, Streams
<1>1. \A d \in Clients : d # c => (InSetup(d)' <=> InSetup(d)) /\ pc'[d] = pc[d]
    BY ServeFrame DEF TypeOK, InSetup
<1>2. \A d \in Clients : Format(d)' = Format(d) /\ Stream(d)' = Stream(d)
    BY ServeFrame DEF TypeOK
<1>3. CASE WriteRewriteParams(c) /\ st = Stream(c)
  <2>1. InSetup(c) /\ setupLocks' = setupLocks /\ (pc'[c] \in SetupPublish \/ rewriteParams' = rewriteParams)
      BY <1>3 DEF WriteRewriteParams, Goto, TypeOK, ThreadsTypeOK, SetupPublish, InSetup,
         SetupSection, SetupWork, lockVars
  <2>2. rewriteParams[st] = NoSource
      BY <1>0, <1>3 DEF SetupStage, WriteRewriteParams
  <2>3. pc'[c] \in SetupPublish
      BY <1>3, <2>1, <2>2
  <2>4. \A d \in Clients : InSetup(d)' /\ Format(d)' = st[1] => d = c
      BY <1>0, <1>1, <1>2, <1>3, <2>1 DEF MutualExclusion
  <2>5. st[1] \in setupLocks' /\ Stream(c)' = st
      BY <1>0, <1>2, <1>3, <2>1
  <2> QED BY <2>3, <2>4, <2>5 DEF Publishing
<1>4. CASE ~(WriteRewriteParams(c) /\ st = Stream(c))
  <2>1. rewriteParams[st] # NoSource
    <3>1. CASE WriteRewriteParams(c)
        BY <1>0, <1>4, <3>1 DEF WriteRewriteParams, TypeOK, CacheTypeOK
    <3>2. CASE ~WriteRewriteParams(c)
        BY <3>2 DEF Serve, Retry, Lookup, LookupOnly, EnsureSetup, JitSetup, JitSegment,
           CheckMarker, AcquireSetupLock, SetupLockTaken, RecheckMarker,
           ResolveSource, ReleaseSetupLock, CheckIdempotent, ReuseSetup,
           FetchSourceManifest, WriteManifestState, WriteInitSegment, WriteMarker,
           FetchInitSegment, ReadKeys, RequestKeys, CleanupSensitiveData,
           ServeManifest, ServeInit, StartSegment, AcquireSegmentLock,
           SegmentLockTaken, RecheckSegment, CheckSegmentCached,
           LoadSourceManifest, LoadRewriteParams, ProduceSegment,
           ReleaseSegmentLock, cacheVars, contentVars
    <3> QED BY <3>1, <3>2
  <2>2. CASE Published(st)
      BY <2>2, PublishedStays
  <2>3. CASE Publishing(st) /\ ~Published(st)
    <3>1. CASE InSetup(c) /\ Format(c) = st[1]
      <4>1. pc[c] \in SetupPublish /\ Stream(c) = st
          BY <2>3, <3>1 DEF Publishing
      <4>2. pc[c] # "dropKeys"
        <5> SUFFICES ASSUME pc[c] = "dropKeys" PROVE FALSE
            OBVIOUS
        <5>1. manifestState[st] = src[c] /\ rewriteParams[st] = src[c] /\ st[1] \in setupMarkers
            BY <1>0, <4>1 DEF SetupStage
        <5> QED BY <2>1, <2>3, <5>1 DEF Published
      <4>3. /\ pc'[c] \in SetupPublish /\ setupLocks' = setupLocks
          BY <4>1, <4>2 DEF Serve, Retry, Lookup, LookupOnly, EnsureSetup, JitSetup, JitSegment,
             CheckMarker, AcquireSetupLock, SetupLockTaken, RecheckMarker,
             ResolveSource, ReleaseSetupLock, CheckIdempotent, ReuseSetup,
             FetchSourceManifest, WriteRewriteParams, WriteManifestState, WriteInitSegment, WriteMarker,
             FetchInitSegment, ReadKeys, RequestKeys, CleanupSensitiveData,
             ServeManifest, ServeInit, StartSegment, AcquireSegmentLock,
             SegmentLockTaken, RecheckSegment, CheckSegmentCached,
             LoadSourceManifest, LoadRewriteParams, ProduceSegment,
             ReleaseSegmentLock, cacheVars, lockVars, Goto, SetupPublish, SetupRelease,
             TypeOK, ThreadsTypeOK
      <4> QED BY <1>1, <1>2, <2>3, <3>1, <4>1, <4>3 DEF Publishing, MutualExclusion
    <3>2. CASE ~InSetup(c) \/ Format(c) # st[1]
      <4>1. st[1] \in setupLocks' /\ ~(InSetup(c)' /\ Format(c) = st[1])
          BY <2>3, <3>2, SetupLockSteps DEF Publishing, TypeOK, EntersSetup, LeavesSetup
      <4> QED BY <1>1, <1>2, <2>3, <4>1 DEF Publishing
    <3> QED BY <3>1, <3>2
  <2> QED BY <2>1, <2>2, <2>3 DEF PublicationInv
<1> QED BY <1>3, <1>4

\* Arriving, dying and reconfiguring publish nothing and enter no stage.
LEMMA PublicationOther ==
    ASSUME TypeOK, MutualExclusion, PublicationInv,
           NEW c \in Clients, Arrive(c) \/ Crash(c)
    PROVE  PublicationInv'
<1>1. /\ \A d \in Clients : d # c =>
            /\ pc'[d] = pc[d] /\ req'[d] = req[d] /\ src'[d] = src[d]
            /\ Format(d)' = Format(d) /\ Stream(d)' = Stream(d)
      /\ ~InSetup(c)' /\ UNCHANGED <<PublicationVars, setupLocks>>
    BY DEF Arrive, Crash, TypeOK, ThreadsTypeOK, Goto, localVars, cacheVars,
       contentVars, PublicationVars, Format, Scheme, Stream, InSetup,
       SetupSection, SetupWork, SetupPublish, SetupRelease
<1>2. ASSUME NEW d \in Clients PROVE SetupStage(d)'
  <2>1. CASE d = c
      BY <1>1, <2>1 DEF SetupStage, InSetup, SetupSection, SetupWork, SetupPublish
  <2>2. CASE d # c
      BY <1>1, <2>2 DEF SetupStage, PublicationInv, PublicationVars
  <2> QED BY <2>1, <2>2
<1>3. ASSUME NEW st \in Streams PROVE StreamOrder(st)'
    BY <1>1 DEF StreamOrder, PublicationInv, PublicationVars
<1>4. ASSUME NEW st \in Streams, rewriteParams'[st] # NoSource
      PROVE  Published(st)' \/ Publishing(st)'
  <2>1. Published(st) \/ Publishing(st)
      BY <1>1, <1>4 DEF PublicationInv, PublicationVars
  <2>2. Published(st) => Published(st)'
      BY <1>1 DEF Published, PublicationVars
  <2>3. \A d \in Clients : InSetup(d)' => d # c /\ InSetup(d)
      BY <1>1 DEF InSetup
  <2>4. Publishing(st) => Publishing(st)'
      BY <1>1, <2>3 DEF Publishing
  <2> QED BY <2>1, <2>2, <2>4
<1> QED BY <1>2, <1>3, <1>4 DEF PublicationInv

LEMMA PublicationStep ==
    ASSUME TypeOK, SourceLoaded, MutualExclusion, PublicationInv, [Next]_vars
    PROVE  PublicationInv'
<1>1. ASSUME NEW c \in Clients, Serve(c) PROVE PublicationInv'
  <2>1. ASSUME NEW d \in Clients PROVE SetupStage(d)'
      BY <1>1, OwnStage, OtherStage
  <2>2. ASSUME NEW st \in Streams PROVE StreamOrder(st)'
      BY <1>1, OrderServe
  <2>3. ASSUME NEW st \in Streams, rewriteParams'[st] # NoSource
        PROVE  Published(st)' \/ Publishing(st)'
      BY <1>1, <2>3, SettledServe
  <2> QED BY <2>1, <2>2, <2>3 DEF PublicationInv
<1>2. ASSUME NEW c \in Clients, Arrive(c) \/ Crash(c) PROVE PublicationInv'
    BY <1>2, PublicationOther
<1>3. CASE SetSourceConfig \/ UNCHANGED vars
    BY <1>3 DEF SetSourceConfig, vars, localVars, cacheVars, lockVars, contentVars,
       PublicationInv, SetupStage, StreamOrder, Published, Publishing, InSetup,
       Format, Scheme, Stream
<1> QED BY <1>1, <1>2, <1>3 DEF Next

\* The inductive invariant behind the publication and segment properties.
THEOREM Publication == Spec => []PublicationInv
<1>1. TypeOK /\ SourceLoaded /\ MutualExclusion /\ PublicationInv /\ [Next]_vars
        => PublicationInv'
    BY PublicationStep
<1> QED BY <1>1, PublicationInit, TypeCorrect, Exclusion, PTL DEF Spec

\* A published manifest can be served whole: init segment and rewrite params
\* of the same setup are there, and the source manifest of its format.
THEOREM ManifestsServable == Spec => []ManifestServable
<1>1. PublicationInv => ManifestServable
    BY DEF PublicationInv, StreamOrder, ManifestServable, Streams
<1> QED BY <1>1, Publication, PTL

\* No setup replaces the init segment, manifest or rewrite params of a stream.
THEOREM SetupsWriteOnce == Spec => SetupWrittenOnce
<1> DEFINE Kept(st) ==
        /\ initSegment[st] # NoSource => initSegment'[st] = initSegment[st]
        /\ manifestState[st] # NoSource => manifestState'[st] = manifestState[st]
        /\ rewriteParams[st] # NoSource => rewriteParams'[st] = rewriteParams[st]
<1>1. ASSUME TypeOK, SourceLoaded, PublicationInv, [Next]_vars, NEW st \in Streams
      PROVE  Kept(st)
  <2>1. CASE UNCHANGED PublicationVars
      BY <2>1 DEF PublicationVars
  <2>2. ASSUME NEW c \in Clients, Arrive(c) \/ Crash(c) PROVE UNCHANGED PublicationVars
      BY <2>2 DEF Arrive, Crash, cacheVars, contentVars, PublicationVars
  <2>3. CASE SetSourceConfig \/ UNCHANGED vars
      BY <2>3 DEF SetSourceConfig, vars, cacheVars, contentVars, PublicationVars
  <2>4. ASSUME NEW c \in Clients, Serve(c), InSetup(c) PROVE Kept(st)
    <3>0. SetupStage(c) /\ Stream(c) \in Streams /\ StreamOrder(Stream(c))
        BY <1>1, <2>4, ServingClient, ClientParts DEF TypeOK, PublicationInv
    <3>1. CASE st # Stream(c)
        BY <1>1, <2>4, <3>0, <3>1, SetupWrites
    <3>2. CASE WriteRewriteParams(c) \/ WriteInitSegment(c) \/ WriteManifestState(c)
        BY <1>1, <3>0, <3>2 DEF WriteRewriteParams, WriteInitSegment, WriteManifestState,
           SetupStage, StreamOrder, TypeOK, CacheTypeOK, SetupPublish
    <3>3. CASE FetchSourceManifest(c) \/ WriteMarker(c)
        BY <3>3 DEF FetchSourceManifest, WriteMarker, contentVars
    <3> QED
        BY <2>1, <2>4, <3>1, <3>2, <3>3
        DEF Serve, Retry, Lookup, LookupOnly, EnsureSetup, JitSetup, JitSegment,
            CheckMarker, AcquireSetupLock, SetupLockTaken, RecheckMarker,
            ResolveSource, ReleaseSetupLock, CheckIdempotent, ReuseSetup,
            FetchInitSegment, ReadKeys, RequestKeys, CleanupSensitiveData,
            ServeManifest, ServeInit, StartSegment, AcquireSegmentLock,
            SegmentLockTaken, RecheckSegment, CheckSegmentCached,
            LoadSourceManifest, LoadRewriteParams, ProduceSegment,
            ReleaseSegmentLock, PublicationVars, cacheVars, contentVars
  <2>5. ASSUME NEW c \in Clients, Serve(c), ~InSetup(c) PROVE UNCHANGED PublicationVars
      BY <2>5, OutsideSetupQuiet
  <2> QED BY <1>1, <2>1, <2>2, <2>3, <2>4, <2>5 DEF Next
<1>2. TypeOK /\ SourceLoaded /\ PublicationInv /\ [Next]_vars => [\A st \in Streams : Kept(st)]_vars
    BY <1>1
<1> QED BY <1>2, TypeCorrect, Publication, PTL DEF Spec, SetupWrittenOnce

-----------------------------------------------------------------------------
(* Media segments.                                                          *)

SegmentStage(c) ==
    /\ pc[c] \in {"segSource", "segParams", "segFetch"} =>
          mediaSegment[SegmentKey(c)] = NoSegment
    /\ pc[c] = "segFetch" => rewriteParams[Stream(c)] = params[c]
    /\ pc[c] = "segDone" => mediaSegment[SegmentKey(c)] # NoSegment

\* A cached segment was made with the rewrite params of its stream.
SegmentOrigin(st, n) ==
    mediaSegment[<<st, n>>] # NoSegment =>
        /\ rewriteParams[st] # NoSource
        /\ mediaSegment[<<st, n>>].params = rewriteParams[st]

SegmentInv ==
    /\ \A c \in Clients : SegmentStage(c)
    /\ \A st \in Streams, n \in Segments : SegmentOrigin(st, n)

LEMMA SegmentInit == Init => SegmentInv
<1> SUFFICES ASSUME Init PROVE SegmentInv
    OBVIOUS
<1>1. ASSUME NEW c \in Clients PROVE SegmentStage(c)
    BY DEF Init, SegmentStage
<1>2. ASSUME NEW st \in Streams, NEW n \in Segments PROVE SegmentOrigin(st, n)
    BY DEF Init, SegmentOrigin
<1> QED BY <1>1, <1>2 DEF SegmentInv

\* Only ProduceSegment writes segments, and only into its own empty cell.
LEMMA SegmentWrites ==
    ASSUME TypeOK, SourceLoaded, SegmentInv, NEW c \in Clients, Serve(c)
    PROVE  \/ UNCHANGED mediaSegment
           \/ /\ pc[c] = "segFetch" /\ pc'[c] = "segDone"
              /\ InSegment(c)
              /\ mediaSegment[SegmentKey(c)] = NoSegment
              /\ mediaSegment' = [mediaSegment EXCEPT ![SegmentKey(c)] =
                                     [source |-> src[c], params |-> params[c]]]
              /\ mediaSegment'[SegmentKey(c)] # NoSegment
              /\ mediaSegment'[SegmentKey(c)].params = params[c]
<1>1. CASE ProduceSegment(c)
  <2>1. SegmentKey(c) \in Streams \X Segments /\ [source |-> src[c], params |-> params[c]] # NoSegment
      BY <1>1, ServingClient, ClientParts, SourcesAssumption DEF TypeOK, ProduceSegment, SourceLoaded
  <2> QED BY <1>1, <2>1 DEF ProduceSegment, SegmentInv, SegmentStage, TypeOK, CacheTypeOK, ThreadsTypeOK,
        Goto, InSegment, SegmentSection, SegmentWork
<1>2. CASE ~ProduceSegment(c)
    BY <1>2 DEF Serve, Retry, Lookup, LookupOnly, EnsureSetup, JitSetup, JitSegment,
        CheckMarker, AcquireSetupLock, SetupLockTaken, RecheckMarker,
        ResolveSource, ReleaseSetupLock, CheckIdempotent, ReuseSetup,
        FetchSourceManifest, WriteRewriteParams, WriteManifestState, WriteInitSegment, WriteMarker,
        FetchInitSegment, ReadKeys, RequestKeys, CleanupSensitiveData,
        ServeManifest, ServeInit, StartSegment, AcquireSegmentLock,
        SegmentLockTaken, RecheckSegment, CheckSegmentCached,
        LoadSourceManifest, LoadRewriteParams, ReleaseSegmentLock, cacheVars, contentVars
<1> QED BY <1>1, <1>2

\* Rewrite params are written once, seen from one step.
LEMMA ParamsKept ==
    ASSUME TypeOK, SourceLoaded, PublicationInv, NEW c \in Clients, Serve(c),
           NEW st \in Streams, rewriteParams[st] # NoSource
    PROVE  rewriteParams'[st] = rewriteParams[st]
<1>1. CASE WriteRewriteParams(c)
  <2>1. rewriteParams[Stream(c)] = NoSource
      BY <1>1 DEF PublicationInv, SetupStage, WriteRewriteParams
  <2> QED BY <1>1, <2>1 DEF WriteRewriteParams, TypeOK, CacheTypeOK
<1>2. CASE ~WriteRewriteParams(c)
    BY <1>2 DEF Serve, Retry, Lookup, LookupOnly, EnsureSetup, JitSetup, JitSegment,
        CheckMarker, AcquireSetupLock, SetupLockTaken, RecheckMarker,
        ResolveSource, ReleaseSetupLock, CheckIdempotent, ReuseSetup,
        FetchSourceManifest, WriteManifestState, WriteInitSegment, WriteMarker,
        FetchInitSegment, ReadKeys, RequestKeys, CleanupSensitiveData,
        ServeManifest, ServeInit, StartSegment, AcquireSegmentLock,
        SegmentLockTaken, RecheckSegment, CheckSegmentCached,
        LoadSourceManifest, LoadRewriteParams, ProduceSegment,
        ReleaseSegmentLock, cacheVars, contentVars
<1> QED BY <1>1, <1>2

LEMMA SegmentStageOwn ==
    ASSUME TypeOK, SourceLoaded, SegmentInv, NEW c \in Clients, Serve(c)
    PROVE  SegmentStage(c)'
<1>0. SegmentKey(c)' = SegmentKey(c) /\ Stream(c)' = Stream(c) /\ SegmentStage(c)
    BY ServeFrame DEF TypeOK, SegmentInv
<1> USE <1>0 DEF SegmentStage, TypeOK, ThreadsTypeOK, Goto, localVars, Respond
<1>1. CASE EnsureSetup(c)
    BY <1>1 DEF EnsureSetup, CheckMarker, AcquireSetupLock, SetupLockTaken,
       RecheckMarker, ResolveSource, ReleaseSetupLock
<1>2. CASE JitSetup(c)
    BY <1>2 DEF JitSetup, CheckIdempotent, ReuseSetup, FetchSourceManifest,
       FetchInitSegment, ReadKeys, RequestKeys, WriteRewriteParams,
       WriteInitSegment, WriteManifestState, WriteMarker, CleanupSensitiveData
<1>3. CASE StartSegment(c) \/ AcquireSegmentLock(c) \/ SegmentLockTaken(c) \/ RecheckSegment(c)
    BY <1>3 DEF StartSegment, AcquireSegmentLock, SegmentLockTaken, RecheckSegment
<1>4. CASE CheckSegmentCached(c) \/ LoadSourceManifest(c)
    BY <1>4 DEF CheckSegmentCached, LoadSourceManifest, cacheVars, contentVars
<1>5. CASE LoadRewriteParams(c)
    BY <1>5 DEF LoadRewriteParams, cacheVars, contentVars
<1>6. CASE ProduceSegment(c)
  <2>1. pc'[c] \in {"segDone", "segFailed"} /\ SegmentKey(c) \in Streams \X Segments
      BY <1>6, ClientParts DEF ProduceSegment
  <2>2. pc'[c] = "segDone" => mediaSegment'[SegmentKey(c)] = [source |-> src[c], params |-> params[c]]
      BY <1>6, <2>1 DEF ProduceSegment, CacheTypeOK
  <2>3. src[c] \in Sources /\ params[c] \in Sources
      BY <1>6, SourcesAssumption DEF ProduceSegment, SourceLoaded
  <2>4. [source |-> src[c], params |-> params[c]] # NoSegment
      BY <2>3, SourcesAssumption
  <2> QED BY <1>0, <2>1, <2>2, <2>4
<1>7. CASE ReleaseSegmentLock(c)
    BY <1>7 DEF ReleaseSegmentLock
<1>8. CASE Retry(c) \/ Lookup(c) \/ LookupOnly(c) \/ ServeManifest(c) \/ ServeInit(c)
    BY <1>8 DEF Retry, Lookup, LookupOnly, ServeManifest, ServeInit
<1> QED BY <1>1, <1>2, <1>3, <1>4, <1>5, <1>6, <1>7, <1>8 DEF Serve, JitSegment

LEMMA SegmentStageOther ==
    ASSUME TypeOK, SourceLoaded, MutualExclusion, PublicationInv, SegmentInv,
           NEW c \in Clients, Serve(c), NEW d \in Clients, d # c
    PROVE  SegmentStage(d)'
<1>1. /\ pc'[d] = pc[d] /\ params'[d] = params[d] /\ SegmentStage(d)
      /\ Stream(d)' = Stream(d) /\ SegmentKey(d)' = SegmentKey(d)
    BY ServeFrame, LocalsFrame DEF TypeOK, SegmentInv
<1>2. CASE pc[d] \in {"segSource", "segParams", "segFetch", "segDone"}
  <2>1. InSegment(d) /\ SegmentKey(d) \in Streams \X Segments /\ Stream(d) \in Streams
      BY <1>2, ClientParts DEF TypeOK, InSegment, SegmentSection, SegmentWork
  <2>2. pc[d] = "segFetch" => rewriteParams[Stream(d)] # NoSource
      BY <1>1, SourcesAssumption DEF SegmentStage, SourceLoaded
  <2>3. pc[d] = "segFetch" => rewriteParams'[Stream(d)] = rewriteParams[Stream(d)]
      BY <2>1, <2>2, ParamsKept
  <2>4. InSegment(c) => SegmentLock(c) # SegmentLock(d)
      BY <2>1 DEF MutualExclusion
  <2>5. SegmentKey(c) = SegmentKey(d) => SegmentLock(c) = SegmentLock(d)
      BY DEF SegmentKey, SegmentLock, Stream
  <2>6. mediaSegment'[SegmentKey(d)] = mediaSegment[SegmentKey(d)]
      BY <2>1, <2>4, <2>5, SegmentWrites DEF TypeOK, CacheTypeOK
  <2> QED BY <1>1, <2>3, <2>6 DEF SegmentStage
<1>3. CASE pc[d] \notin {"segSource", "segParams", "segFetch", "segDone"}
    BY <1>1, <1>3 DEF SegmentStage
<1> QED BY <1>2, <1>3

LEMMA SegmentOriginServe ==
    ASSUME TypeOK, SourceLoaded, PublicationInv, SegmentInv,
           NEW c \in Clients, Serve(c), NEW st \in Streams, NEW n \in Segments
    PROVE  SegmentOrigin(st, n)'
<1>0. SegmentOrigin(st, n) /\ SegmentStage(c) /\ <<st, n>> \in Streams \X Segments
    BY DEF SegmentInv
<1>1. rewriteParams[st] # NoSource => rewriteParams'[st] = rewriteParams[st]
    BY ParamsKept
<1>2. CASE mediaSegment'[<<st, n>>] = mediaSegment[<<st, n>>]
    BY <1>0, <1>1, <1>2 DEF SegmentOrigin
<1>3. CASE mediaSegment'[<<st, n>>] # mediaSegment[<<st, n>>]
  <2>1. /\ pc[c] = "segFetch" /\ <<st, n>> = SegmentKey(c)
        /\ mediaSegment'[SegmentKey(c)].params = params[c]
      BY <1>0, <1>3, SegmentWrites DEF TypeOK, CacheTypeOK
  <2>2. st = Stream(c)
      BY <2>1 DEF SegmentKey
  <2>3. rewriteParams[st] = params[c] /\ rewriteParams[st] # NoSource
      BY <1>0, <2>1, <2>2, SourcesAssumption DEF SegmentStage, SourceLoaded
  <2> QED BY <1>1, <2>1, <2>3 DEF SegmentOrigin
<1> QED BY <1>2, <1>3

LEMMA SegmentStep ==
    ASSUME TypeOK, SourceLoaded, MutualExclusion, PublicationInv, SegmentInv, [Next]_vars
    PROVE  SegmentInv'
<1>1. ASSUME NEW c \in Clients, Serve(c) PROVE SegmentInv'
    BY <1>1, SegmentStageOwn, SegmentStageOther, SegmentOriginServe DEF SegmentInv
<1>2. ASSUME NEW c \in Clients, Arrive(c) \/ Crash(c) PROVE SegmentInv'
  <2>1. /\ \A d \in Clients : d # c =>
            /\ pc'[d] = pc[d] /\ params'[d] = params[d]
            /\ Stream(d)' = Stream(d) /\ SegmentKey(d)' = SegmentKey(d)
        /\ pc'[c] \in {"lookup", "done", "dead"}
        /\ UNCHANGED <<rewriteParams, mediaSegment>>
      BY <1>2 DEF Arrive, Crash, TypeOK, ThreadsTypeOK, Goto, localVars, cacheVars,
         contentVars, Format, Scheme, Stream, SegmentKey
  <2>2. ASSUME NEW d \in Clients PROVE SegmentStage(d)'
    <3>1. CASE d = c BY <2>1, <3>1 DEF SegmentStage
    <3>2. CASE d # c BY <2>1, <3>2 DEF SegmentStage, SegmentInv
    <3> QED BY <3>1, <3>2
  <2>3. ASSUME NEW st \in Streams, NEW n \in Segments PROVE SegmentOrigin(st, n)'
      BY <2>1 DEF SegmentOrigin, SegmentInv
  <2> QED BY <2>2, <2>3 DEF SegmentInv
<1>3. CASE SetSourceConfig \/ UNCHANGED vars
    BY <1>3 DEF SetSourceConfig, vars, localVars, cacheVars, contentVars,
       SegmentInv, SegmentStage, SegmentOrigin, Format, Scheme, Stream, SegmentKey
<1> QED BY <1>1, <1>2, <1>3 DEF Next

\* A cached segment was made with the rewrite params of its own stream, and a
\* request past its lookup has what it will answer with: the code behaviour is
\* the cached rewrite params that every segment request reads.
THEOREM SegmentInvariant == Spec => []SegmentInv
<1>1. TypeOK /\ SourceLoaded /\ MutualExclusion /\ PublicationInv /\ SegmentInv /\ [Next]_vars
        => SegmentInv'
    BY SegmentStep
<1> QED BY <1>1, SegmentInit, TypeCorrect, Exclusion, Publication, PTL DEF Spec

\* A cached segment and the init segment of its stream come from one setup.
THEOREM SegmentsMatchInit == Spec => []SegmentMatchesInit
<1>1. PublicationInv /\ SegmentInv => SegmentMatchesInit
    BY DEF PublicationInv, StreamOrder, SegmentInv, SegmentOrigin, SegmentMatchesInit
<1> QED BY <1>1, Publication, SegmentInvariant, PTL

\* Concurrent requests for an uncached segment fetch it from the origin once.
THEOREM FetchesNotDuplicated == Spec => []NoDuplicateFetch
<1>1. MutualExclusion /\ SegmentInv => NoDuplicateFetch
  <2> SUFFICES ASSUME MutualExclusion, SegmentInv, NEW c \in Clients, pc[c] = "segFetch"
               PROVE  /\ mediaSegment[SegmentKey(c)] = NoSegment
                      /\ \A d \in Clients : pc[d] = "segFetch" /\ SegmentKey(d) = SegmentKey(c) => d = c
      BY DEF NoDuplicateFetch
  <2>1. mediaSegment[SegmentKey(c)] = NoSegment
      BY DEF SegmentInv, SegmentStage
  <2>2. ASSUME NEW d \in Clients, pc[d] = "segFetch", SegmentKey(d) = SegmentKey(c) PROVE d = c
    <3>1. SegmentLock(d) = SegmentLock(c)
        BY <2>2 DEF SegmentKey, SegmentLock, Stream
    <3> QED BY <2>2, <3>1 DEF MutualExclusion, InSegment, SegmentSection, SegmentWork
  <2> QED BY <2>1, <2>2
<1> QED BY <1>1, Exclusion, SegmentInvariant, PTL

\* Segments never change once written.
THEOREM SegmentsWriteOnce == Spec => SegmentWrittenOnce
<1> DEFINE Kept == \A k \in Streams \X Segments :
                      mediaSegment[k] # NoSegment => mediaSegment'[k] = mediaSegment[k]
<1>1. ASSUME TypeOK, SourceLoaded, SegmentInv, [Next]_vars
      PROVE  Kept
  <2>1. CASE SetSourceConfig \/ UNCHANGED vars
      BY <2>1 DEF SetSourceConfig, vars, cacheVars, contentVars
  <2>2. ASSUME NEW c \in Clients, Arrive(c) \/ Crash(c) PROVE Kept
      BY <2>2 DEF Arrive, Crash, cacheVars, contentVars
  <2>3. ASSUME NEW c \in Clients, Serve(c) PROVE Kept
      BY <1>1, <2>3, SegmentWrites DEF TypeOK, CacheTypeOK
  <2> QED BY <1>1, <2>1, <2>2, <2>3 DEF Next
<1>2. TypeOK /\ SourceLoaded /\ SegmentInv /\ [Next]_vars => [Kept]_vars
    BY <1>1
<1> QED BY <1>2, TypeCorrect, SegmentInvariant, PTL DEF Spec, SegmentWrittenOnce

-----------------------------------------------------------------------------
(* Locks, markers and keys.                                                 *)

\* The holder of a setup lock: a client in its section, or a dead one.
HoldsSetup(c, f)   == Format(c) = f /\ (InSetup(c) \/ pc[c] = "dead")
HoldsSegment(c, l) == SegmentLock(c) = l /\ (InSegment(c) \/ pc[c] = "dead")

LEMMA LocksServe ==
    ASSUME TypeOK, LocksReleased, NEW c \in Clients, Serve(c)
    PROVE  LocksReleased'
<1>0. /\ pc[c] # "dead" /\ ThreadsTypeOK
      /\ \A d \in Clients : Format(d)' = Format(d) /\ SegmentLock(d)' = SegmentLock(d)
      /\ \A d \in Clients : d # c => (HoldsSetup(d, Format(d)) <=> HoldsSetup(d, Format(d))')
      /\ \A d \in Clients : d # c => (HoldsSegment(d, SegmentLock(d)) <=> HoldsSegment(d, SegmentLock(d))')
  <2>1. pc[c] # "dead"
      BY DEF Serve, Retry, Lookup, LookupOnly, EnsureSetup, JitSetup, JitSegment,
        CheckMarker, AcquireSetupLock, SetupLockTaken, RecheckMarker,
        ResolveSource, ReleaseSetupLock, CheckIdempotent, ReuseSetup,
        FetchSourceManifest, WriteManifestState, WriteInitSegment, WriteMarker,
        WriteRewriteParams, FetchInitSegment, ReadKeys, RequestKeys,
        CleanupSensitiveData, ServeManifest, ServeInit, StartSegment,
        AcquireSegmentLock, SegmentLockTaken, RecheckSegment, CheckSegmentCached,
        LoadSourceManifest, LoadRewriteParams, ProduceSegment,
        ReleaseSegmentLock, SetupRelease
  <2> QED BY <2>1, ServeFrame DEF TypeOK, HoldsSetup, HoldsSegment, InSetup, InSegment
<1>1. ASSUME NEW f \in setupLocks'
      PROVE  \E d \in Clients : Format(d)' = f /\ (InSetup(d)' \/ pc'[d] = "dead")
  <2>1. CASE f \in setupLocks
    <3>1. PICK d \in Clients : Format(d) = f /\ (InSetup(d) \/ pc[d] = "dead")
        BY <2>1 DEF LocksReleased
    <3>2. CASE d # c
        BY <1>0, <3>1, <3>2 DEF HoldsSetup
    <3>3. CASE d = c
        BY <1>0, <1>1, <3>1, <3>3, SetupLockSteps DEF EntersSetup, LeavesSetup
    <3> QED BY <3>2, <3>3
  <2>2. CASE f \notin setupLocks
      BY <1>0, <1>1, <2>2, SetupLockSteps DEF EntersSetup, LeavesSetup
  <2> QED BY <2>1, <2>2
<1>2. ASSUME NEW l \in segmentLocks'
      PROVE  \E d \in Clients : SegmentLock(d)' = l /\ (InSegment(d)' \/ pc'[d] = "dead")
  <2>1. CASE l \in segmentLocks
    <3>1. PICK d \in Clients : SegmentLock(d) = l /\ (InSegment(d) \/ pc[d] = "dead")
        BY <2>1 DEF LocksReleased
    <3>2. CASE d # c
        BY <1>0, <3>1, <3>2 DEF HoldsSegment
    <3>3. CASE d = c
        BY <1>0, <1>2, <3>1, <3>3, SegmentLockSteps DEF EntersSegment, LeavesSegment
    <3> QED BY <3>2, <3>3
  <2>2. CASE l \notin segmentLocks
      BY <1>0, <1>2, <2>2, SegmentLockSteps DEF EntersSegment, LeavesSegment
  <2> QED BY <2>1, <2>2
<1> QED BY <1>1, <1>2 DEF LocksReleased

\* A lock is in the cache only while its holder is in its section or has died.
THEOREM LocksAreReleased == Spec => []LocksReleased
<1>1. Init => LocksReleased
    BY DEF Init, LocksReleased
<1>2. ASSUME TypeOK, LocksReleased, [Next]_vars PROVE LocksReleased'
  <2>1. ASSUME NEW c \in Clients, Arrive(c) \/ Crash(c) PROVE LocksReleased'
    <3>1. /\ \A d \in Clients : d # c =>
              pc'[d] = pc[d] /\ Format(d)' = Format(d) /\ SegmentLock(d)' = SegmentLock(d)
          /\ setupLocks' = setupLocks /\ segmentLocks' = segmentLocks
        BY <1>2, <2>1 DEF Arrive, Crash, TypeOK, ThreadsTypeOK, Goto, localVars,
           cacheVars, lockVars, Format, SegmentLock
    <3>2. CASE Arrive(c)
      <4>1. ~InSetup(c) /\ ~InSegment(c) /\ pc[c] # "dead"
          BY <3>2 DEF Arrive, InSetup, InSegment, SetupSection, SetupWork, SetupPublish,
             SetupRelease, SegmentSection, SegmentWork
      <4> QED BY <1>2, <3>1, <4>1 DEF LocksReleased, InSetup, InSegment
    <3>3. CASE Crash(c)
      <4>1. pc'[c] = "dead" /\ Format(c)' = Format(c) /\ SegmentLock(c)' = SegmentLock(c)
          BY <1>2, <3>3 DEF Crash, TypeOK, ThreadsTypeOK, Goto, localVars, Format, SegmentLock
      <4> QED BY <1>2, <3>1, <4>1 DEF LocksReleased, InSetup, InSegment
    <3> QED BY <2>1, <3>2, <3>3
  <2>2. CASE SetSourceConfig \/ UNCHANGED vars
      BY <1>2, <2>2 DEF SetSourceConfig, vars, localVars, cacheVars, lockVars,
         LocksReleased, InSetup, InSegment, Format, SegmentLock
  <2>3. ASSUME NEW c \in Clients, Serve(c) PROVE LocksReleased'
      BY <1>2, <2>3, LocksServe
  <2> QED BY <1>2, <2>1, <2>2, <2>3 DEF Next
<1>3. TypeOK /\ LocksReleased /\ [Next]_vars => LocksReleased'
    BY <1>2
<1> QED BY <1>1, <1>3, TypeCorrect, PTL DEF Spec

\* The marker of a format means that a setup of one of its schemes finished.
THEOREM MarkersMeanSetup == Spec => []MarkerMeansSetup
<1>1. Init => MarkerMeansSetup
    BY DEF Init, MarkerMeansSetup
<1>2. ASSUME NEW c \in Clients, Serve(c), NEW f \in setupMarkers', f \notin setupMarkers
      PROVE  WriteMarker(c) /\ f = Format(c)
    BY <1>2
    DEF Serve, EnsureSetup, JitSetup, JitSegment, cacheVars,
        Retry, Lookup, LookupOnly, CheckMarker, AcquireSetupLock, SetupLockTaken,
        RecheckMarker, ResolveSource, ReleaseSetupLock, CheckIdempotent,
        ReuseSetup, FetchSourceManifest, FetchInitSegment, ReadKeys,
        RequestKeys, WriteRewriteParams, WriteInitSegment,
        WriteManifestState, WriteMarker, CleanupSensitiveData,
        ServeManifest, ServeInit, StartSegment, AcquireSegmentLock,
        SegmentLockTaken, RecheckSegment, CheckSegmentCached,
        LoadSourceManifest, LoadRewriteParams, ProduceSegment,
        ReleaseSegmentLock
<1>3. ASSUME TypeOK, SourceLoaded, PublicationInv, MarkerMeansSetup, [Next]_vars,
             \A st \in Streams :
                manifestState[st] # NoSource => manifestState'[st] = manifestState[st]
      PROVE  MarkerMeansSetup'
  <2> SUFFICES ASSUME NEW f \in setupMarkers'
               PROVE  \E s \in Schemes : manifestState'[<<f, s>>] # NoSource
      BY DEF MarkerMeansSetup
  <2>1. CASE f \in setupMarkers
    <3>1. f \in Formats /\ \E s \in Schemes : manifestState[<<f, s>>] # NoSource
        BY <1>3, <2>1 DEF MarkerMeansSetup, TypeOK, CacheTypeOK
    <3> QED BY <1>3, <3>1 DEF Streams
  <2>2. CASE f \notin setupMarkers
    <3>1. PICK c \in Clients : Serve(c)
        BY <1>3, <2>2 DEF Next, Arrive, Crash, SetSourceConfig, vars, cacheVars
    <3>2. WriteMarker(c) /\ f = Format(c)
        BY <1>2, <2>2, <3>1
    <3>3. Stream(c) \in Streams /\ Format(c) \in Formats /\ Scheme(c) \in Schemes
        BY <1>3, <3>1, ServingClient, ClientParts DEF TypeOK
    <3>4. manifestState[Stream(c)] = src[c] /\ rewriteParams[Stream(c)] = src[c]
        BY <1>3, <3>2 DEF PublicationInv, SetupStage, WriteMarker, SetupPublish
    <3>5. src[c] # NoSource
        BY <1>3, <3>2, SourcesAssumption DEF SourceLoaded, WriteMarker, SetupPublish
    <3> QED BY <1>3, <3>2, <3>3, <3>4, <3>5 DEF Stream
  <2> QED BY <2>1, <2>2
<1>4. TypeOK /\ SourceLoaded /\ PublicationInv /\ MarkerMeansSetup /\ [Next]_vars
      /\ [\A st \in Streams :
            /\ initSegment[st] # NoSource => initSegment'[st] = initSegment[st]
            /\ manifestState[st] # NoSource => manifestState'[st] = manifestState[st]
            /\ rewriteParams[st] # NoSource => rewriteParams'[st] = rewriteParams[st]]_vars
        => MarkerMeansSetup'
    BY <1>3 DEF vars, cacheVars, contentVars
<1> QED BY <1>1, <1>4, TypeCorrect, Publication, SetupsWriteOnce, PTL DEF Spec, SetupWrittenOnce

\* Raw keys leave the cache with the setup that fetched or found them.
THEOREM KeysAreTransient == Spec => []KeysTransient
<1>1. Init => KeysTransient
    BY DEF Init, KeysTransient
<1>2. ASSUME TypeOK, KeysTransient, NEW c \in Clients, Serve(c) PROVE KeysTransient'
  <2>0. /\ \A d \in Clients : d # c => pc'[d] = pc[d]
        /\ faults \in Nat /\ crashes' = crashes
        /\ faults' = faults \/ faults' = faults + 1
      BY <1>2, ServeFrame, CountsServe, BoundsAssumption
         DEF TypeOK, CountsTypeOK, Fault
  <2>1. CASE RequestKeys(c)
    <3>1. pc'[c] = "params" \/ faults' = faults + 1
        BY <1>2, <2>1 DEF RequestKeys, Fault, Goto, TypeOK, ThreadsTypeOK
    <3>2. pc[c] \notin KeyHolding
        BY <2>1 DEF RequestKeys, KeyHolding
    <3> QED BY <1>2, <2>0, <3>1, <3>2 DEF KeysTransient, KeyHolding
  <2>2. CASE CleanupSensitiveData(c)
      BY <2>2 DEF CleanupSensitiveData, KeysTransient
  <2>3. CASE WriteRewriteParams(c) \/ WriteInitSegment(c) \/ WriteManifestState(c) \/ WriteMarker(c)
    <3>1. pc'[c] \in KeyHolding \/ faults' = faults + 1
        BY <1>2, <2>3 DEF WriteRewriteParams, WriteInitSegment, WriteManifestState,
           WriteMarker, Fault, Goto, KeyHolding, TypeOK, ThreadsTypeOK
    <3> QED BY <1>2, <2>0, <3>1 DEF KeysTransient
  <2>4. CASE pc[c] \notin KeyHolding /\ drmKeys' = drmKeys
      BY <1>2, <2>0, <2>4 DEF KeysTransient
  <2> QED
      BY <1>2, <2>1, <2>2, <2>3, <2>4
      DEF Serve, EnsureSetup, JitSetup, JitSegment, KeyHolding, cacheVars, SetupRelease,
          Retry, Lookup, LookupOnly, CheckMarker, AcquireSetupLock, SetupLockTaken,
          RecheckMarker, ResolveSource, ReleaseSetupLock, CheckIdempotent,
          ReuseSetup, FetchSourceManifest, FetchInitSegment, ReadKeys,
          ServeManifest, ServeInit, StartSegment, AcquireSegmentLock,
          SegmentLockTaken, RecheckSegment, CheckSegmentCached,
          LoadSourceManifest, LoadRewriteParams, ProduceSegment,
          ReleaseSegmentLock
<1>3. ASSUME TypeOK, KeysTransient, NEW c \in Clients, Arrive(c) \/ Crash(c)
      PROVE  KeysTransient'
  <2>1. CASE Arrive(c)
    <3>1. pc[c] \notin KeyHolding /\ \A d \in Clients : d # c => pc'[d] = pc[d]
        BY <1>3, <2>1 DEF Arrive, KeyHolding, Goto, TypeOK, ThreadsTypeOK
    <3> QED BY <1>3, <2>1, <3>1 DEF Arrive, KeysTransient, cacheVars
  <2>2. CASE Crash(c)
    <3>1. crashes' > 0
        BY <1>3, <2>2, BoundsAssumption DEF Crash, TypeOK, CountsTypeOK
    <3> QED BY <3>1 DEF KeysTransient
  <2> QED BY <1>3, <2>1, <2>2
<1>4. ASSUME KeysTransient, SetSourceConfig \/ UNCHANGED vars PROVE KeysTransient'
    BY <1>4 DEF SetSourceConfig, vars, cacheVars, countVars, KeysTransient
<1>5. TypeOK /\ KeysTransient /\ [Next]_vars => KeysTransient'
    BY <1>2, <1>3, <1>4 DEF Next
<1> QED BY <1>1, <1>5, TypeCorrect, PTL DEF Spec

-----------------------------------------------------------------------------
(* Policy.  The format is checked when a request is routed, the scheme also *)
(* when its setup starts, which is where the JIT default is first checked.  *)

Answered(c) == pc[c] = "done" /\ response[c] = 200
Refused(c)  == pc[c] = "done" /\ response[c] \in {403, 404}

PolicyStage(c) ==
    /\ pc[c] \notin {"idle", "dead"} /\ ~Refused(c) => Format(c) \in AllowedFormats
    /\ pc[c] \in SetupSection \ {"resolve", "setupFailed"} => Scheme(c) \in AllowedSchemes
    /\ Answered(c) => Scheme(c) \in AllowedSchemes

StreamAllowed(st) ==
    rewriteParams[st] # NoSource => st[1] \in AllowedFormats /\ st[2] \in AllowedSchemes

PolicyInv ==
    /\ \A c \in Clients : PolicyStage(c)
    /\ \A st \in Streams : StreamAllowed(st)

\* Whatever a request is served from was cached by a setup of its stream.
LEMMA ServedStreams ==
    ASSUME TypeOK, PublicationInv, SegmentInv, PolicyInv, NEW c \in Clients, pc[c] # "idle",
           \/ manifestState[Stream(c)] # NoSource
           \/ initSegment[Stream(c)] # NoSource
           \/ mediaSegment[SegmentKey(c)] # NoSegment
    PROVE  Scheme(c) \in AllowedSchemes
<1>1. /\ Stream(c) \in Streams /\ SegmentKey(c) \in Streams \X Segments
      /\ req[c].segment \in Segments /\ StreamOrder(Stream(c))
    BY ClientParts, RequestParts DEF TypeOK, ThreadsTypeOK, PublicationInv
<1>2. SegmentOrigin(Stream(c), req[c].segment)
    BY <1>1 DEF SegmentInv
<1>3. rewriteParams[Stream(c)] # NoSource
    BY <1>1, <1>2, SourcesAssumption DEF StreamOrder, SegmentOrigin, SegmentKey
<1> QED BY <1>1, <1>3 DEF PolicyInv, StreamAllowed, Stream

LEMMA PolicyOwn ==
    ASSUME TypeOK, PublicationInv, SegmentInv, PolicyInv, NEW c \in Clients, Serve(c)
    PROVE  PolicyStage(c)'
<1>0. Format(c)' = Format(c) /\ Scheme(c)' = Scheme(c) /\ PolicyStage(c) /\ ThreadsTypeOK
    BY ServeFrame DEF TypeOK, PolicyInv
<1> USE <1>0 DEF PolicyStage, ThreadsTypeOK, Goto, Respond, Answered, Refused, localVars
<1>1. CASE CheckMarker(c) \/ AcquireSetupLock(c) \/ SetupLockTaken(c) \/ RecheckMarker(c)
    BY <1>1 DEF CheckMarker, AcquireSetupLock, SetupLockTaken, RecheckMarker,
       SetupSection, SetupWork, SetupPublish, SetupRelease
<1>2. CASE ResolveSource(c) \/ ReleaseSetupLock(c)
    BY <1>2 DEF ResolveSource, SetupPermitted, ReleaseSetupLock, SetupSection,
       SetupWork, SetupPublish, SetupRelease
<1>3. CASE JitSetup(c)
  <2>1. /\ pc[c] \in SetupSection \ {"resolve", "setupFailed"}
        /\ pc'[c] \in SetupSection
      BY <1>3 DEF JitSetup, CheckIdempotent, ReuseSetup, FetchSourceManifest,
         FetchInitSegment, ReadKeys, RequestKeys, WriteRewriteParams, WriteInitSegment,
         WriteManifestState, WriteMarker, CleanupSensitiveData, SetupSection,
         SetupWork, SetupPublish, SetupRelease
  <2> QED BY <2>1 DEF SetupSection, SetupWork, SetupPublish, SetupRelease
<1>4. CASE Retry(c)
    BY <1>4 DEF Retry, SetupSection, SetupWork, SetupPublish, SetupRelease
<1>5. CASE Lookup(c)
  <2>1. LookupHits(c) => Scheme(c) \in AllowedSchemes
      BY <1>5, ServedStreams DEF Lookup, LookupHits
  <2> QED BY <1>5, <2>1 DEF Lookup, SetupSection, SetupWork, SetupPublish, SetupRelease
<1>6. CASE LookupOnly(c)
    BY <1>6 DEF LookupOnly, SetupSection, SetupWork, SetupPublish, SetupRelease
<1>7. CASE ServeManifest(c) \/ ServeInit(c)
    BY <1>7, ServedStreams DEF ServeManifest, ServeInit, SetupSection, SetupWork,
       SetupPublish, SetupRelease
<1>8. CASE RecheckSegment(c) \/ ReleaseSegmentLock(c)
  <2>1. response'[c] = 200 => Scheme(c) \in AllowedSchemes
      BY <1>8, ServedStreams DEF RecheckSegment, ReleaseSegmentLock, SegmentInv, SegmentStage
  <2> QED BY <1>8, <2>1 DEF RecheckSegment, ReleaseSegmentLock, SetupSection, SetupWork,
             SetupPublish, SetupRelease
<1>9. CASE StartSegment(c) \/ AcquireSegmentLock(c) \/ SegmentLockTaken(c)
    BY <1>9 DEF StartSegment, AcquireSegmentLock, SegmentLockTaken, SetupSection,
       SetupWork, SetupPublish, SetupRelease
<1>10. CASE CheckSegmentCached(c) \/ LoadSourceManifest(c) \/ LoadRewriteParams(c) \/ ProduceSegment(c)
    BY <1>10 DEF CheckSegmentCached, LoadSourceManifest, LoadRewriteParams,
       ProduceSegment, SetupSection, SetupWork, SetupPublish, SetupRelease
<1> QED BY <1>1, <1>2, <1>3, <1>4, <1>5, <1>6, <1>7, <1>8, <1>9, <1>10
        DEF Serve, EnsureSetup, JitSegment

LEMMA PolicyServe ==
    ASSUME TypeOK, SourceLoaded, PublicationInv, SegmentInv, PolicyInv,
           NEW c \in Clients, Serve(c)
    PROVE  PolicyInv'
<1>1. ASSUME NEW d \in Clients, d # c PROVE PolicyStage(d)'
  <2>1. /\ pc'[d] = pc[d] /\ Format(d)' = Format(d) /\ Scheme(d)' = Scheme(d)
        /\ response'[d] = response[d]
      BY <1>1, ServeFrame, ResponseFrame DEF TypeOK
  <2> QED BY <2>1 DEF PolicyInv, PolicyStage, Answered, Refused
<1>2. ASSUME NEW st \in Streams PROVE StreamAllowed(st)'
  <2>1. CASE WriteRewriteParams(c)
    <3>1. Stream(c) \in Streams
        BY ServingClient, ClientParts DEF TypeOK
    <3>2. Format(c) \in AllowedFormats /\ Scheme(c) \in AllowedSchemes
        BY <2>1 DEF WriteRewriteParams, PolicyInv, PolicyStage, Refused, SetupSection, SetupWork
    <3>3. CASE st = Stream(c)
        BY <3>2, <3>3 DEF StreamAllowed, Stream
    <3>4. CASE st # Stream(c)
        BY <2>1, <3>1, <3>4 DEF WriteRewriteParams, StreamAllowed, PolicyInv, TypeOK, CacheTypeOK
    <3> QED BY <3>3, <3>4
  <2>2. CASE UNCHANGED rewriteParams
      BY <2>2 DEF StreamAllowed, PolicyInv
  <2> QED
      BY <2>1, <2>2
      DEF Serve, EnsureSetup, JitSetup, JitSegment, cacheVars, contentVars,
          Retry, Lookup, LookupOnly, CheckMarker, AcquireSetupLock,
          SetupLockTaken, RecheckMarker, ResolveSource, ReleaseSetupLock,
          CheckIdempotent, ReuseSetup, FetchSourceManifest, FetchInitSegment,
          ReadKeys, RequestKeys, WriteInitSegment, WriteManifestState,
          WriteMarker, CleanupSensitiveData, ServeManifest, ServeInit,
          StartSegment, AcquireSegmentLock, SegmentLockTaken, RecheckSegment,
          CheckSegmentCached, LoadSourceManifest, LoadRewriteParams,
          ProduceSegment, ReleaseSegmentLock
<1> QED BY <1>1, <1>2, PolicyOwn DEF PolicyInv

LEMMA PolicyOther ==
    ASSUME TypeOK, PolicyInv, NEW c \in Clients, Arrive(c) \/ Crash(c)
    PROVE  PolicyInv'
<1>1. rewriteParams' = rewriteParams
    BY DEF Arrive, Crash, cacheVars, contentVars
<1>2. ASSUME NEW d \in Clients, d # c PROVE PolicyStage(d)'
  <2>1. pc'[d] = pc[d] /\ req'[d] = req[d] /\ response'[d] = response[d]
      BY <1>2 DEF Arrive, Crash, Goto, localVars, TypeOK, ThreadsTypeOK
  <2> QED BY <2>1 DEF PolicyInv, PolicyStage, Answered, Refused, Format, Scheme
<1>3. PolicyStage(c)'
  <2>1. CASE Crash(c)
      BY <2>1 DEF Crash, Goto, TypeOK, ThreadsTypeOK, PolicyStage, Answered,
         Refused, SetupSection, SetupWork, SetupPublish, SetupRelease
  <2>2. CASE Arrive(c)
    <3>1. PICK q \in Requests :
            /\ req'[c] = q
            /\ IF RoutePermits(q) THEN pc'[c] = "lookup" ELSE pc'[c] = "done" /\ response'[c] = 403
        BY <2>2 DEF Arrive, Goto, TypeOK, ThreadsTypeOK
    <3> QED BY <3>1 DEF RoutePermits, PolicyStage, Answered, Refused, Format,
               SetupSection, SetupWork, SetupPublish, SetupRelease
  <2> QED BY <2>1, <2>2
<1> QED BY <1>1, <1>2, <1>3 DEF PolicyInv, StreamAllowed

\* What the threads work on and what is cached comes from permitted sources.
SourcePolicyInv ==
    /\ \A c \in Clients : src[c] \in PermittedSources \cup {NoSource}
    /\ FromPermittedSources

\* A thread takes a source that the policy permits, or one that is cached.
LEMMA SourcesTaken ==
    ASSUME TypeOK, SourcePolicyInv, NEW c \in Clients, Serve(c)
    PROVE  \A d \in Clients : src'[d] \in PermittedSources \cup {NoSource}
<1> USE DEF SourcePolicyInv, TypeOK, ThreadsTypeOK, localVars
<1>1. CASE EnsureSetup(c) /\ ~ResolveSource(c)
    BY <1>1 DEF EnsureSetup, CheckMarker, AcquireSetupLock, SetupLockTaken,
       RecheckMarker, ReleaseSetupLock, Respond
<1>2. CASE ResolveSource(c)
    BY <1>2 DEF ResolveSource, SetupPermitted
<1>3. CASE JitSetup(c)
    BY <1>3 DEF JitSetup, CheckIdempotent, ReuseSetup, FetchSourceManifest,
       FetchInitSegment, ReadKeys, RequestKeys, WriteRewriteParams,
       WriteInitSegment, WriteManifestState, WriteMarker, CleanupSensitiveData
<1>4. CASE JitSegment(c) /\ ~LoadSourceManifest(c)
    BY <1>4 DEF JitSegment, StartSegment, AcquireSegmentLock, SegmentLockTaken,
       RecheckSegment, CheckSegmentCached, LoadRewriteParams, ProduceSegment,
       ReleaseSegmentLock, Respond
<1>5. CASE LoadSourceManifest(c)
    BY <1>5, ServingClient, ClientParts DEF LoadSourceManifest, FromPermittedSources
<1>6. CASE Retry(c) \/ Lookup(c) \/ LookupOnly(c) \/ ServeManifest(c) \/ ServeInit(c)
    BY <1>6 DEF Retry, Lookup, LookupOnly, ServeManifest, ServeInit, Respond
<1> QED BY <1>1, <1>2, <1>3, <1>4, <1>5, <1>6 DEF Serve

\* What it writes was made from the source it took.
LEMMA SourcesCached ==
    ASSUME TypeOK, SourceLoaded, SourcePolicyInv, NEW c \in Clients, Serve(c)
    PROVE  FromPermittedSources'
<1>0. /\ Format(c) \in Formats /\ Stream(c) \in Streams /\ SegmentKey(c) \in Streams \X Segments
      /\ src[c] \in PermittedSources \cup {NoSource} /\ FromPermittedSources /\ CacheTypeOK
    BY ServingClient, ClientParts DEF TypeOK, SourcePolicyInv
<1>1. CASE UNCHANGED contentVars
    BY <1>0, <1>1 DEF contentVars, FromPermittedSources
<1>2. CASE FetchSourceManifest(c)
    BY <1>0, <1>2 DEF FetchSourceManifest, CacheTypeOK, FromPermittedSources
<1>3. CASE WriteRewriteParams(c)
    BY <1>0, <1>3 DEF WriteRewriteParams, CacheTypeOK, FromPermittedSources
<1>4. CASE WriteInitSegment(c)
    BY <1>0, <1>4 DEF WriteInitSegment, CacheTypeOK, FromPermittedSources
<1>5. CASE WriteManifestState(c)
    BY <1>0, <1>5 DEF WriteManifestState, CacheTypeOK, FromPermittedSources
<1>6. CASE ProduceSegment(c)
  <2>1. src[c] \in PermittedSources
      BY <1>0, <1>6, SourcesAssumption DEF ProduceSegment, SourceLoaded
  <2> QED BY <1>0, <1>6, <2>1 DEF ProduceSegment, CacheTypeOK, FromPermittedSources
<1> QED
    BY <1>1, <1>2, <1>3, <1>4, <1>5, <1>6
    DEF Serve, Retry, Lookup, LookupOnly, EnsureSetup, JitSetup, JitSegment, cacheVars,
        CheckMarker, AcquireSetupLock, SetupLockTaken, RecheckMarker, ResolveSource,
        ReleaseSetupLock, CheckIdempotent, ReuseSetup, FetchInitSegment, ReadKeys,
        RequestKeys, WriteMarker, CleanupSensitiveData, ServeManifest, ServeInit,
        StartSegment, AcquireSegmentLock, SegmentLockTaken, RecheckSegment,
        CheckSegmentCached, LoadSourceManifest, LoadRewriteParams, ReleaseSegmentLock

\* Neither a request nor a change of configuration brings a forbidden source in.
LEMMA SourcePolicyStep ==
    ASSUME TypeOK, SourceLoaded, SourcePolicyInv, [Next]_vars
    PROVE  SourcePolicyInv'
<1>1. ASSUME NEW c \in Clients, Serve(c) PROVE SourcePolicyInv'
    BY <1>1, SourcesTaken, SourcesCached DEF SourcePolicyInv
<1>2. ASSUME UNCHANGED <<src, contentVars>> PROVE SourcePolicyInv'
    BY <1>2 DEF contentVars, SourcePolicyInv, FromPermittedSources
<1>3. (\E c \in Clients : Arrive(c) \/ Crash(c)) \/ SetSourceConfig \/ UNCHANGED vars
      => UNCHANGED <<src, contentVars>>
    BY DEF Arrive, Crash, SetSourceConfig, vars, localVars, cacheVars
<1> QED BY <1>1, <1>2, <1>3 DEF Next

\* Nothing of a stream the operator forbids is cached or served, and nothing is
\* cached that was made from a source of a forbidden container format.
THEOREM PolicyHolds == Spec => []PolicyFailsClosed
<1>1. Init => PolicyInv
    BY DEF Init, PolicyInv, PolicyStage, StreamAllowed, Answered, Refused,
       SetupSection, SetupWork, SetupPublish, SetupRelease
<1>2. ASSUME TypeOK, PolicyInv, SetSourceConfig \/ UNCHANGED vars PROVE PolicyInv'
    BY <1>2 DEF SetSourceConfig, vars, localVars, cacheVars, contentVars, PolicyInv,
       PolicyStage, StreamAllowed, Answered, Refused, Format, Scheme
<1>3. TypeOK /\ SourceLoaded /\ PublicationInv /\ SegmentInv /\ PolicyInv /\ [Next]_vars
        => PolicyInv'
    BY <1>2, PolicyServe, PolicyOther DEF Next
<1>4. PublicationInv /\ PolicyInv /\ SourcePolicyInv => PolicyFailsClosed
  <2> SUFFICES ASSUME PublicationInv, PolicyInv, SourcePolicyInv PROVE PolicyFailsClosed
      OBVIOUS
  <2>1. ASSUME NEW f \in Formats, NEW s \in Schemes, f \notin AllowedFormats \/ s \notin AllowedSchemes
        PROVE  /\ rewriteParams[<<f, s>>] = NoSource
               /\ initSegment[<<f, s>>] = NoSource
               /\ manifestState[<<f, s>>] = NoSource
    <3>1. StreamAllowed(<<f, s>>) /\ StreamOrder(<<f, s>>)
        BY DEF PolicyInv, PublicationInv, Streams
    <3> QED BY <2>1, <3>1 DEF StreamAllowed, StreamOrder
  <2>2. ASSUME NEW c \in Clients, pc[c] = "done", response[c] = 200
        PROVE  Format(c) \in AllowedFormats /\ Scheme(c) \in AllowedSchemes
      BY <2>2 DEF PolicyInv, PolicyStage, Answered, Refused
  <2> QED BY <2>1, <2>2 DEF PolicyFailsClosed, SourcePolicyInv
<1>5. Init => SourcePolicyInv
    BY DEF Init, SourcePolicyInv, FromPermittedSources
<1> QED BY <1>1, <1>3, <1>4, <1>5, SourcePolicyStep, TypeCorrect, Publication, SegmentInvariant, PTL DEF Spec

-----------------------------------------------------------------------------
(* Refinement of ContentStore.                                              *)

StoreVars == <<rewriteParams, manifestState, mediaSegment>>

LEMMA StoreServe ==
    ASSUME TypeOK, SourceLoaded, PublicationInv, SegmentInv, NEW c \in Clients, Serve(c)
    PROVE  Store!StoreNext \/ UNCHANGED StoreVars
<1>0. /\ Stream(c) \in Streams /\ req[c].segment \in Segments
      /\ SetupStage(c) /\ SegmentStage(c)
    BY ServingClient, ClientParts, RequestParts
    DEF TypeOK, ThreadsTypeOK, PublicationInv, SegmentInv
<1>1. CASE WriteRewriteParams(c)
  <2>1. src[c] \in Sources /\ rewriteParams[Stream(c)] = NoSource
      BY <1>0, <1>1 DEF WriteRewriteParams, SourceLoaded, SetupWork, SetupStage
  <2>2. UNCHANGED <<manifestState, mediaSegment>>
      BY <1>1 DEF WriteRewriteParams
  <2>3. CASE rewriteParams' = [rewriteParams EXCEPT ![Stream(c)] = src[c]]
    <3>1. Store!ChoosePackaging(Stream(c))
        BY <2>1, <2>2, <2>3 DEF Store!ChoosePackaging
    <3> QED BY <1>0, <3>1 DEF Store!StoreNext
  <2>4. CASE UNCHANGED rewriteParams
      BY <2>2, <2>4 DEF StoreVars
  <2> QED BY <1>1, <2>3, <2>4 DEF WriteRewriteParams
<1>2. CASE WriteManifestState(c)
  <2>1. /\ src[c] \in Sources /\ rewriteParams[Stream(c)] = src[c]
        /\ manifestState[Stream(c)] = NoSource
      BY <1>0, <1>2 DEF WriteManifestState, SourceLoaded, SetupPublish, SetupStage
  <2>2. Store!PublishManifest(Stream(c))
      BY <1>2, <2>1, SourcesAssumption DEF WriteManifestState, Store!PublishManifest
  <2> QED BY <1>0, <2>2 DEF Store!StoreNext
<1>3. CASE ProduceSegment(c)
  <2>1. /\ src[c] \in Sources /\ params[c] \in Sources
        /\ rewriteParams[Stream(c)] = params[c]
        /\ mediaSegment[SegmentKey(c)] = NoSegment
      BY <1>0, <1>3 DEF ProduceSegment, SourceLoaded, SegmentStage
  <2>2. UNCHANGED <<rewriteParams, manifestState>>
      BY <1>3 DEF ProduceSegment
  <2>3. CASE mediaSegment' = [mediaSegment EXCEPT ![SegmentKey(c)] =
                                [source |-> src[c], params |-> params[c]]]
    <3>1. Store!StoreSegment(Stream(c), req[c].segment)
        BY <2>1, <2>2, <2>3, SourcesAssumption DEF Store!StoreSegment, SegmentKey
    <3> QED BY <1>0, <3>1 DEF Store!StoreNext
  <2>4. CASE UNCHANGED mediaSegment
      BY <2>2, <2>4 DEF StoreVars
  <2> QED BY <1>3, <2>3, <2>4 DEF ProduceSegment
<1> QED
    BY <1>1, <1>2, <1>3
    DEF Serve, EnsureSetup, JitSetup, JitSegment, StoreVars, cacheVars,
        contentVars, Retry, Lookup, LookupOnly, CheckMarker, AcquireSetupLock,
        SetupLockTaken, RecheckMarker, ResolveSource, ReleaseSetupLock,
        CheckIdempotent, ReuseSetup, FetchSourceManifest, FetchInitSegment,
        ReadKeys, RequestKeys, WriteInitSegment, WriteMarker,
        CleanupSensitiveData, ServeManifest, ServeInit, StartSegment,
        AcquireSegmentLock, SegmentLockTaken, RecheckSegment,
        CheckSegmentCached, LoadSourceManifest, LoadRewriteParams,
        ReleaseSegmentLock

\* On-demand packaging implements the write-once content store.
THEOREM StoreImplemented == Spec => ImplementsContentStore
<1>1. Init => Store!StoreInit
    BY DEF Init, Store!StoreInit
<1>2. ASSUME TypeOK, SourceLoaded, PublicationInv, SegmentInv, [Next]_vars
      PROVE  Store!StoreNext \/ UNCHANGED StoreVars
  <2>1. ASSUME NEW c \in Clients, Arrive(c) \/ Crash(c) PROVE UNCHANGED StoreVars
      BY <2>1 DEF Arrive, Crash, StoreVars, cacheVars, contentVars
  <2>2. CASE SetSourceConfig \/ UNCHANGED vars
      BY <2>2 DEF SetSourceConfig, StoreVars, vars, cacheVars, contentVars
  <2> QED BY <1>2, <2>1, <2>2, StoreServe DEF Next
<1>3. TypeOK /\ SourceLoaded /\ PublicationInv /\ SegmentInv /\ [Next]_vars
        => [Store!StoreNext]_(Store!storeVars)
    BY <1>2 DEF StoreVars, Store!storeVars
<1> QED BY <1>1, <1>3, TypeCorrect, Publication, SegmentInvariant, PTL
        DEF Spec, ImplementsContentStore, Store!StoreSpec
=============================================================================
