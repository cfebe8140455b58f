----------------------------- MODULE ContentStore -----------------------------
(***************************************************************************)
(* What on-demand packaging promises the players and CDNs behind it: a     *)
(* store that is written once.  For every output stream one packaging (the *)
(* source and the keys it was encrypted with) is chosen, for good; its     *)
(* manifest may then be published and its segments stored, each once and   *)
(* each for that packaging.  JitPackaging implements it: see Store there.  *)
(***************************************************************************)
EXTENDS Naturals

CONSTANTS Streams, Sources, Segments, NoSource, NoSegment

VARIABLES
    packaging,   \* the packaging each stream was given, or NoSource
    manifest,    \* the packaging its published manifest announces, or NoSource
    segments     \* what each of its segments was made from, or NoSegment

storeVars == <<packaging, manifest, segments>>

StoreInit ==
    /\ packaging = [st \in Streams |-> NoSource]
    /\ manifest = [st \in Streams |-> NoSource]
    /\ segments = [k \in Streams \X Segments |-> NoSegment]

ChoosePackaging(st) ==
    /\ packaging[st] = NoSource
    /\ \E source \in Sources : packaging' = [packaging EXCEPT ![st] = source]
    /\ UNCHANGED <<manifest, segments>>

PublishManifest(st) ==
    /\ packaging[st] # NoSource
    /\ manifest[st] = NoSource
    /\ manifest' = [manifest EXCEPT ![st] = packaging[st]]
    /\ UNCHANGED <<packaging, segments>>

StoreSegment(st, n) ==
    /\ packaging[st] # NoSource
    /\ segments[<<st, n>>] = NoSegment
    /\ \E source \in Sources :
        segments' = [segments EXCEPT ![<<st, n>>] =
                        [source |-> source, params |-> packaging[st]]]
    /\ UNCHANGED <<packaging, manifest>>

StoreNext ==
    \E st \in Streams :
        \/ ChoosePackaging(st)
        \/ PublishManifest(st)
        \/ \E n \in Segments : StoreSegment(st, n)

StoreSpec == StoreInit /\ [][StoreNext]_storeVars
=============================================================================
