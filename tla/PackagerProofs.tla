--------------------------- MODULE PackagerProofs ---------------------------
(***************************************************************************)
(* Proofs about Packager, for any sources and requests that are well       *)
(* formed, any number of jobs and any answers of the key server.           *)
(*                                                                         *)
(* First the job: its invariant, and what each output, manifest and key    *)
(* is.  Then samples: what the ciphers promise for every key, IV, pattern, *)
(* sample and subsample map (decryption undoes encryption, the bytes       *)
(* outside a map's protected ranges stay as they are, CENC puts no         *)
(* keystream position on two bytes of a track), what rewrite_segment makes *)
(* of it, and what is read of the outputs, each fragment from the start of *)
(* its mdat payload (SegmentRewrite), over any number of jobs of           *)
(* which each takes an output of the one before for its source.            *)
(***************************************************************************)
EXTENDS Packager, DataLemmas, SequenceTheorems

-----------------------------------------------------------------------------
(* The inductive invariant *)

\* A job works on a well-formed source and a request that clients send.
SourceInv == WellFormed(source) /\ request \in Requests

\* Past its first step the segments can be read, past its second one the
\* request has been validated.
Readable ==
    IF source.ts THEN CanDemux(source.segments[1]) ELSE SchemeKnown(ParseProtectionInfo(source.init))

GateInv ==
    /\ phase \in {"fetched", "validated", "keyed", "processing", "done"} => Readable
    /\ phase \in {"validated", "keyed", "processing", "done"} =>
           ValidRequest(Targets, SourceTracks)

\* Keys outlive a job only if it failed, and no job fails for keys that
\* are neither left over nor its own.
CacheInv ==
    /\ keyCache.present => stale \/ phase \in {"keyed", "processing"}
    /\ failure = "nokey" => phase = "failed"
    /\ NoKeyForCause

\* The key of a key id is written as the key id.
SelfKeyed(keys) == \A x \in 1 .. Len(keys) : keys[x].key = keys[x].kid

KeysTyped(keys) == IsList(keys.keys) /\ IsList(keys.systems) /\ SelfKeyed(keys.keys)

PsshOfKeys(keys) ==
    \A d \in 1..Len(keys.systems) :
        keys.systems[d].pssh = "pssh" /\ HasKey(keys, keys.systems[d].kid)

KeysInv == KeysTyped(keySet) /\ KeysTyped(keyCache.set)

PsshInv == PsshOfKeys(keySet) /\ PsshOfKeys(keyCache.set)

IsOutput(o) ==
    /\ o = [ts |-> o.ts, init |-> o.init, drm |-> o.drm, segments |-> o.segments, parts |-> o.parts,
            iframes |-> o.iframes, adBreaks |-> o.adBreaks, ended |-> o.ended]
    /\ IsList(o.segments) /\ IsList(o.parts) /\ IsList(o.iframes) /\ IsList(o.adBreaks)

\* An output with so many segments, fit to be the source of another job.
OutputFits(o, container, count) ==
    /\ IsOutput(o)
    /\ o.ts = (container = "ts")
    /\ Len(o.segments) = count
    /\ \A i \in 1 .. count : IF o.ts THEN TsWellFormed(o.segments[i])
                           ELSE SegmentWellFormed(o.segments[i])
    /\ ~o.ts => InitWellFormed(o.init)
    /\ \A p \in 1 .. Len(o.parts) : o.parts[p].segment \in 0 .. count - 1
    /\ \A b \in 1 .. Len(o.adBreaks) : o.adBreaks[b].segment \in 0 .. count - 1

\* Each target has its output once the job has begun to process segments, with
\* as many of them as were processed.
OutputInv(s) == OutputFits(outputs[s], request.container, next)

OutputsInv ==
    /\ DOMAIN outputs \in {{}, Targets}
    /\ phase \in {"idle", "fetched", "validated", "keyed"} => DOMAIN outputs = {}
    /\ phase \in {"processing", "done"} => DOMAIN outputs = Targets
    /\ phase = "done" => next = Len(source.segments)
    /\ \A s \in DOMAIN outputs : OutputInv(s)

JobInv ==
    TypeOK /\ SourceInv /\ GateInv /\ CacheInv /\ KeysInv /\ OutputsInv

-----------------------------------------------------------------------------
(* Segments *)

\* A moof and its mdat are a segment, which is what every rewrite builds.
LEMMA PairWellFormed ==
    ASSUME NEW a, NEW b, a.type = "moof", b.type = "mdat"
    PROVE  SegmentWellFormed(<<a, b>>)
<1> DEFINE s == <<a, b>>
<1>1. s \in Seq({a, b}) /\ Len(s) = 2 /\ s[1] = a /\ s[2] = b
    OBVIOUS
<1> HIDE DEF s
<1>2. IsList(s)
    BY <1>1, SeqIsList, Zenon
<1>3. \A i \in 1 .. Len(s) : i = 1 \/ i = 2
    BY <1>1
<1>4. s[1].type = "moof" /\ s[1 + 1].type = "mdat" /\ s[2].type = "mdat" /\ s[2 - 1].type = "moof"
    BY <1>1
<1>5. SegmentWellFormed(s)
    BY <1>1, <1>2, <1>3, <1>4 DEF SegmentWellFormed
<1> QED BY <1>5 DEF s

Rewrites(result) ==
    result = ErrSegment \/ \E a, b : a.type = "moof" /\ b.type = "mdat" /\ result = OkSegment(<<a, b>>)

\* A rewriter answers with one moof and its mdat, or with an error: the code
\* behaviour is the three rewriters of media/segment.rs.
LEMMA RewritesFit ==
    ASSUME NEW segment, NEW params
    PROVE  /\ Rewrites(RewriteEncryptedToEncrypted(segment, params))
           /\ Rewrites(RewriteClearToEncrypted(segment, params))
           /\ Rewrites(RewriteEncryptedToClear(segment, params))
<1>1. \A trafs : Moof(trafs).type = "moof"
    BY DEF Moof
<1>2. \A data : Mdat(data).type = "mdat"
    BY DEF Mdat
<1>3. \A moof, senc : RebuildMoof(moof, senc).type = "moof"
    BY <1>1 DEF RebuildMoof
<1>4. \A moof, senc : RebuildMoofInjectSenc(moof, senc).type = "moof"
    BY <1>1 DEF RebuildMoofInjectSenc
<1>5. \A moof : RebuildMoofStripSenc(moof).type = "moof"
    BY <1>1 DEF RebuildMoofStripSenc
<1>6. Rewrites(RewriteEncryptedToEncrypted(segment, params))
    BY <1>2, <1>3, Zenon DEF Rewrites, RewriteEncryptedToEncrypted
<1>7. Rewrites(RewriteClearToEncrypted(segment, params))
    BY <1>2, <1>4, Zenon DEF Rewrites, RewriteClearToEncrypted
<1>8. Rewrites(RewriteEncryptedToClear(segment, params))
    BY <1>2, <1>5, Zenon DEF Rewrites, RewriteEncryptedToClear
<1> QED BY <1>6, <1>7, <1>8

\* A rewritten segment is fit to be rewritten again.
LEMMA RewritesWellFormed ==
    ASSUME NEW segment, NEW params, SegmentWellFormed(segment), RewriteSegment(segment, params).ok
    PROVE  SegmentWellFormed(RewriteSegment(segment, params).boxes)
<1> DEFINE result == RewriteSegment(segment, params)
<1>1. result = OkSegment(segment) \/ Rewrites(result)
    BY RewritesFit, Zenon DEF RewriteSegment
<1> HIDE DEF result
<1>2. CASE result = OkSegment(segment)
    BY <1>2 DEF OkSegment, result
<1>3. CASE Rewrites(result)
  <2>1. result # ErrSegment
      BY DEF ErrSegment, result
  <2>2. PICK a, b : a.type = "moof" /\ b.type = "mdat" /\ result = OkSegment(<<a, b>>)
      BY <1>3, <2>1 DEF Rewrites
  <2>3. result.boxes = <<a, b>>
      BY <2>2 DEF OkSegment
  <2> QED BY <2>2, <2>3, PairWellFormed DEF result
<1> QED BY <1>1, <1>2, <1>3

\* Well-formed segments joined are well formed: no moof loses its mdat.
LEMMA JoinedWellFormed ==
    ASSUME NEW x, NEW y, SegmentWellFormed(x), SegmentWellFormed(y)
    PROVE  SegmentWellFormed(Joined(x, y))
<1> DEFINE z == Joined(x, y)
           n == Len(x)
           m == Len(y)
<1>1. IsList(x) /\ IsList(y)
    BY DEF SegmentWellFormed
<1>2. /\ IsList(z) /\ Len(z) = n + m /\ n \in Nat /\ m \in Nat
      /\ \A i \in 1 .. n : z[i] = x[i]
      /\ \A i \in 1 .. m : z[n + i] = y[i]
    BY <1>1, JoinedIsList DEF IsJoin
<1> HIDE DEF z
<1>3. ASSUME NEW b \in 1 .. Len(z)
      PROVE  /\ z[b].type = "moof" => b < Len(z) /\ z[b + 1].type = "mdat"
             /\ z[b].type = "mdat" => b > 1 /\ z[b - 1].type = "moof"
  <2>1. CASE b <= n
    <3>1. b \in 1 .. n /\ z[b] = x[b]
        BY <1>2, <2>1
    <3>2. z[b].type = "moof" => b < n /\ x[b + 1].type = "mdat"
        BY <3>1 DEF SegmentWellFormed
    <3>3. z[b].type = "mdat" => b > 1 /\ x[b - 1].type = "moof"
        BY <3>1 DEF SegmentWellFormed
    <3>4. b < n => z[b + 1] = x[b + 1]
        BY <1>2, <3>1
    <3>5. b > 1 => z[b - 1] = x[b - 1]
        BY <1>2, <3>1
    <3> QED BY <1>2, <3>1, <3>2, <3>3, <3>4, <3>5
  <2>2. CASE ~ (b <= n)
    <3>1. PICK c \in 1 .. m : b = n + c
      <4>1. b - n \in 1 .. m /\ b = n + (b - n)
          BY <1>2, <2>2
      <4> QED BY <4>1
    <3>2. z[b] = y[c]
        BY <1>2, <3>1
    <3>3. z[b].type = "moof" => c < m /\ y[c + 1].type = "mdat"
        BY <3>1, <3>2 DEF SegmentWellFormed
    <3>4. z[b].type = "mdat" => c > 1 /\ y[c - 1].type = "moof"
        BY <3>1, <3>2 DEF SegmentWellFormed
    <3>5. c < m => z[b + 1] = y[c + 1]
      <4>1. SUFFICES ASSUME c < m PROVE z[b + 1] = y[c + 1]
          OBVIOUS
      <4>2. c + 1 \in 1 .. m /\ b + 1 = n + (c + 1)
          BY <1>2, <3>1, <4>1
      <4> QED BY <1>2, <4>2
    <3>6. c > 1 => z[b - 1] = y[c - 1]
      <4>1. SUFFICES ASSUME c > 1 PROVE z[b - 1] = y[c - 1]
          OBVIOUS
      <4>2. c - 1 \in 1 .. m /\ b - 1 = n + (c - 1)
          BY <1>2, <3>1, <4>1
      <4> QED BY <1>2, <4>2
    <3> QED BY <1>2, <3>1, <3>3, <3>4, <3>5, <3>6
  <2> QED BY <2>1, <2>2
<1>4. SegmentWellFormed(z)
    BY <1>2, <1>3 DEF SegmentWellFormed
<1> QED BY <1>4 DEF z

\* A segment of no boxes is well formed.
LEMMA EmptyWellFormed == SegmentWellFormed(<<>>)
<1>1. Len(<<>>) = 0
    OBVIOUS
<1> QED BY <1>1, EmptyIsList DEF SegmentWellFormed

\* A transport stream becomes a fragment for each of its streams.
LEMMA TransmuxWellFormed ==
    ASSUME NEW segment, TsWellFormed(segment)
    PROVE  SegmentWellFormed(TransmuxToCmaf(segment))
<1> DEFINE streams == segment[1].streams
           piece(s) == Fragment(streams[s].track, streams[s].samples, "absent")
           pieces == [s \in 1 .. Len(streams) |-> piece(s)]
           S == UNION {{piece(s)[1], piece(s)[2]} : s \in 1 .. Len(streams)}
           E == {piece(s) : s \in 1 .. Len(streams)}
           T == {x \in Seq(S) : SegmentWellFormed(x)}
<1>1. Len(streams) \in Nat
    BY DEF TsWellFormed, IsList
<1>2. ASSUME NEW s \in 1 .. Len(streams) PROVE piece(s) \in Seq(S) /\ SegmentWellFormed(piece(s))
  <2>1. PICK a, b : piece(s) = <<a, b>> /\ a.type = "moof" /\ b.type = "mdat"
    <3>1. \A trafs : Moof(trafs).type = "moof"
        BY DEF Moof
    <3>2. \A data : Mdat(data).type = "mdat"
        BY DEF Mdat
    <3> QED BY <3>1, <3>2, Zenon DEF Fragment
  <2> HIDE DEF piece
  <2>2. a \in S /\ b \in S
      BY <2>1
  <2>3. piece(s) \in Seq(S)
    <3> HIDE DEF S
    <3> QED BY <2>1, <2>2
  <2>4. SegmentWellFormed(piece(s))
      BY <2>1, PairWellFormed
  <2> QED BY <2>3, <2>4
<1>3. E \subseteq Seq(S)
  <2> HIDE DEF piece, S
  <2> QED BY <1>2
<1>4. pieces \in Seq(E)
  <2> HIDE DEF piece, streams
  <2> QED BY <1>1
<1>5. <<>> \in T
    BY EmptyWellFormed
<1>6. ASSUME NEW x \in Seq(S), NEW e \in E, x \in T PROVE Joined(x, e) \in T
  <2>1. e \in Seq(S) /\ SegmentWellFormed(e)
    <3> HIDE DEF piece, S
    <3> QED BY <1>2
  <2> HIDE DEF S, E
  <2>2. Joined(x, e) \in Seq(S)
      BY <2>1, JoinedType, Zenon
  <2>3. SegmentWellFormed(x)
      BY <1>6
  <2>4. SegmentWellFormed(Joined(x, e))
      BY <2>1, <2>3, JoinedWellFormed
  <2> QED BY <2>2, <2>4
<1>7. FlattenSeq(pieces) \in T
  <2> HIDE DEF pieces, S, E, T
  <2> QED BY <1>3, <1>4, <1>5, <1>6, FlattenInvariant
<1>8. TransmuxToCmaf(segment) = FlattenSeq(pieces)
    BY Zenon DEF TransmuxToCmaf
<1> QED BY <1>7, <1>8

\* A segment of the TS muxer is well formed if its streams are video and audio.
LEMMA TsSegmentWellFormed ==
    ASSUME NEW streams, NEW cipher, IsList(streams),
           \A s \in 1 .. Len(streams) : streams[s].track \in {"video", "audio"}
    PROVE  TsWellFormed(TsSegment(streams, cipher))
<1>1. TsSegment(streams, cipher)[1].streams = streams
    BY DEF TsSegment
<1> QED BY <1>1 DEF TsWellFormed

\* A muxed segment has the one stream of its configuration.
LEMMA MuxFits ==
    ASSUME NEW segment, NEW track \in {"video", "audio"}
    PROVE  /\ IsList(MuxToTs(segment, track))
           /\ \A s \in 1 .. Len(MuxToTs(segment, track)) :
                  MuxToTs(segment, track)[s].track \in {"video", "audio"}
<1>1. \E x : MuxToTs(segment, track) = <<x>> /\ x.track = track
  <2>1. \A samples : Stream(track, samples).track = track
      BY DEF Stream
  <2> QED BY <2>1, Zenon DEF MuxToTs
<1>2. PICK x : MuxToTs(segment, track) = <<x>> /\ x.track = track
    BY <1>1
<1>3. <<x>> \in Seq({x}) /\ Len(<<x>>) = 1
    OBVIOUS
<1>4. IsList(<<x>>)
    BY <1>3, SeqIsList, Zenon
<1> QED BY <1>2, <1>3, <1>4

\* The TS muxer writes one stream, of video or of audio.
LEMMA MuxTrackFits == ASSUME NEW init PROVE MuxTrack(init) \in {"video", "audio"}
BY DEF MuxTrack

\* What the job reads of a segment, transmuxed or not, is well formed.
LEMMA SegmentDataFits ==
    ASSUME WellFormed(source), NEW i \in 1 .. Len(source.segments)
    PROVE  SegmentWellFormed(SegmentData(i))
<1>1. CASE source.ts
  <2>1. TsWellFormed(source.segments[i])
      BY <1>1 DEF WellFormed
  <2> QED BY <1>1, <2>1, TransmuxWellFormed DEF SegmentData, DataOfSource
<1>2. CASE ~source.ts
    BY <1>2 DEF WellFormed, SegmentData, DataOfSource
<1> QED BY <1>1, <1>2

\* What an output gets is fit to be the source of another job.
LEMMA RewrittenFits ==
    ASSUME WellFormed(source), NEW i \in 1 .. Len(source.segments), NEW s, Rewritten(s, i).ok
    PROVE  IF request.container = "ts" THEN TsWellFormed(Rewritten(s, i).boxes)
           ELSE SegmentWellFormed(Rewritten(s, i).boxes)
<1>1. CASE request.container = "ts"
  <2> DEFINE result == TsOutput(s, i)
  <2>1. \E boxes, cipher, init :
            result \in {ErrSegment, OkSegment(TsSegment(MuxToTs(boxes, MuxTrack(init)), cipher))}
      BY Zenon DEF TsOutput
  <2> HIDE DEF result
  <2>2. PICK boxes, cipher, init :
            result \in {ErrSegment, OkSegment(TsSegment(MuxToTs(boxes, MuxTrack(init)), cipher))}
      BY <2>1
  <2>3. Rewritten(s, i) = result /\ result.ok
      BY <1>1 DEF Rewritten, result
  <2>4. result # ErrSegment
      BY <2>3 DEF ErrSegment
  <2>5. result.boxes = TsSegment(MuxToTs(boxes, MuxTrack(init)), cipher)
      BY <2>2, <2>4 DEF OkSegment
  <2>6. TsWellFormed(result.boxes)
      BY <2>5, MuxTrackFits, MuxFits, TsSegmentWellFormed
  <2> QED BY <1>1, <2>3, <2>6
<1>2. CASE request.container # "ts"
  <2>1. Rewritten(s, i) = RewriteSegment(SegmentData(i), Params(s, i))
      BY <1>2 DEF Rewritten
  <2>2. SegmentWellFormed(SegmentData(i))
      BY SegmentDataFits
  <2> QED BY <1>2, <2>1, <2>2, RewritesWellFormed
<1> QED BY <1>1, <1>2

-----------------------------------------------------------------------------
(* Init segments *)

EntryOf(init, t) == init.tracks[t].entries[1]
Protected(init, t) == EntryOf(init, t).sinf.present

\* What is read out of a well-formed init segment: the sinf of its first
\* protected track stands for all.
LEMMA SinfsOfInit ==
    ASSUME NEW init, InitWellFormed(init)
    PROVE  LET n == Len(init.tracks)
               sinfs == [t \in 1 .. n |-> EntryOf(init, t).sinf]
           IN  /\ n \in Nat \ {0}
               /\ IsList(sinfs) /\ Len(sinfs) = n
               /\ Sinfs(init) = Chosen(sinfs, {t \in 1 .. n : Protected(init, t)})
<1> DEFINE n == Len(init.tracks)
           es == [t \in 1 .. n |-> EntryOf(init, t)]
           sinfs == [t \in 1 .. n |-> EntryOf(init, t).sinf]
<1>1. n \in Nat \ {0} /\ \A t \in 1 .. n : init.tracks[t].entries = <<EntryOf(init, t)>>
  <2>1. \A t \in 1 .. n : init.tracks[t] =
            [type |-> init.tracks[t].type, entries |-> <<init.tracks[t].entries[1]>>]
      BY DEF InitWellFormed
  <2>2. n \in Nat \ {0}
      BY DEF InitWellFormed, IsList
  <2>3. ASSUME NEW t \in 1 .. n PROVE init.tracks[t].entries = <<EntryOf(init, t)>>
    <3> DEFINE y == <<init.tracks[t].entries[1]>>
    <3>1. init.tracks[t] = [type |-> init.tracks[t].type, entries |-> y]
        BY <2>1
    <3> HIDE DEF y
    <3>2. init.tracks[t].entries = y
        BY <3>1
    <3> QED BY <3>2 DEF y, EntryOf
  <2> QED BY <2>2, <2>3
<1>2. es \in Seq(Range(es)) /\ Len(es) = n
    BY <1>1, FunctionIsList DEF IsList
<1>3. [t \in 1 .. n |-> init.tracks[t].entries] = [t \in 1 .. Len(es) |-> <<es[t]>>]
    BY <1>1, <1>2
<1>4. Entries(init) = es
  <2> HIDE DEF es
  <2> QED BY <1>2, <1>3, FlattenOfSingles DEF Entries
<1>5. IsList(sinfs) /\ Len(sinfs) = n
    BY <1>1, FunctionIsList
<1>6. [e \in 1 .. Len(Entries(init)) |-> Entries(init)[e].sinf] = sinfs
    BY <1>2, <1>4
<1>7. {t \in 1 .. n : sinfs[t].present} = {t \in 1 .. n : Protected(init, t)}
    BY DEF Protected
<1>8. Sinfs(init) = Chosen(sinfs, {t \in 1 .. n : sinfs[t].present})
  <2> HIDE DEF sinfs
  <2> QED BY <1>5, <1>6 DEF Sinfs
<1> QED BY <1>1, <1>5, <1>7, <1>8

\* The first protected track gives the protection info, and without one there is none.
LEMMA InfoOfInit ==
    ASSUME NEW init, InitWellFormed(init)
    PROVE  /\ \A m \in 1 .. Len(init.tracks) :
                  Protected(init, m) /\ (\A t \in 1 .. m - 1 : ~Protected(init, t))
                      => ParseProtectionInfo(init) = EntryOf(init, m).sinf
           /\ (\A t \in 1 .. Len(init.tracks) : ~Protected(init, t))
                  => ParseProtectionInfo(init) = NoSinf
           /\ \A k \in 1 .. Len(Sinfs(init)) :
                  \E t \in 1 .. Len(init.tracks) :
                      Protected(init, t) /\ Sinfs(init)[k] = EntryOf(init, t).sinf
<1> DEFINE n == Len(init.tracks)
           sinfs == [t \in 1 .. n |-> EntryOf(init, t).sinf]
           I == {t \in 1 .. n : Protected(init, t)}
<1>1. n \in Nat \ {0} /\ IsList(sinfs) /\ Len(sinfs) = n /\ Sinfs(init) = Chosen(sinfs, I)
    BY SinfsOfInit
<1>2. \A t \in 1 .. n : sinfs[t] = EntryOf(init, t).sinf
    OBVIOUS
<1>3. sinfs \in Seq(Range(sinfs))
    BY <1>1 DEF IsList
<1> HIDE DEF sinfs
<1>4. ASSUME NEW m \in 1 .. n, Protected(init, m), \A t \in 1 .. m - 1 : ~Protected(init, t)
      PROVE  ParseProtectionInfo(init) = EntryOf(init, m).sinf
  <2>1. m \in 1 .. Len(sinfs) /\ m \in I /\ \A t \in 1 .. m - 1 : t \notin I
      BY <1>1, <1>4
  <2> HIDE DEF I, n
  <2>2. Chosen(sinfs, I) # <<>> /\ Chosen(sinfs, I)[1] = sinfs[m]
      BY <1>3, <2>1, ChosenFirst
  <2> QED BY <1>1, <1>2, <2>2 DEF ParseProtectionInfo
<1>5. ASSUME \A t \in 1 .. n : ~Protected(init, t) PROVE ParseProtectionInfo(init) = NoSinf
  <2>1. \A t \in 1 .. Len(sinfs) : t \notin I
      BY <1>1, <1>5
  <2> HIDE DEF I, n
  <2>2. Chosen(sinfs, I) = <<>>
      BY <1>3, <2>1, ChosenNone
  <2> QED BY <1>1, <2>2 DEF ParseProtectionInfo
<1>6. ASSUME NEW k \in 1 .. Len(Sinfs(init))
      PROVE  \E t \in 1 .. n : Protected(init, t) /\ Sinfs(init)[k] = EntryOf(init, t).sinf
  <2>1. k \in 1 .. Len(Chosen(sinfs, I))
      BY <1>1
  <2>2. PICK i \in 1 .. Len(sinfs) : i \in I /\ sinfs[i] = Chosen(sinfs, I)[k]
    <3> HIDE DEF I, n
    <3> QED BY <1>3, <2>1, ChosenFrom
  <2> QED BY <1>1, <1>2, <2>2
<1> QED BY <1>4, <1>5, <1>6

\* An entry has a sinf exactly if its type says so.
LEMMA EntryKinds ==
    ASSUME NEW entry, EntryWellFormed(entry)
    PROVE  /\ entry.sinf.present <=> IsEncryptedEntry(entry.format)
           /\ entry.sinf.present => SinfWellFormed(entry.sinf)
           /\ ~entry.sinf.present =>
                  entry.format \in VideoFormats \union AudioFormats \union TextFormats
                  /\ entry.sinf = NoSinf
<1>1. SinfWellFormed(entry.sinf) => entry.sinf.present
  <2>1. SUFFICES ASSUME SinfWellFormed(entry.sinf) PROVE entry.sinf.present
      OBVIOUS
  <2> DEFINE p == entry.sinf.frma
             q == entry.sinf.schm
             r == entry.sinf.tenc
  <2>2. entry.sinf = [present |-> TRUE, frma |-> p, schm |-> q, tenc |-> r]
      BY <2>1 DEF SinfWellFormed
  <2> HIDE DEF p, q, r
  <2> QED BY <2>2
<1>2. entry.sinf = NoSinf => ~entry.sinf.present
    BY DEF NoSinf
<1>3. entry.format \in VideoFormats \union AudioFormats \union TextFormats
          => ~IsEncryptedEntry(entry.format)
    BY DEF VideoFormats, AudioFormats, TextFormats, IsEncryptedEntry
<1> QED BY <1>1, <1>2, <1>3 DEF EntryWellFormed

\* Every track has one well-formed sample entry.
LEMMA EntriesOfInit ==
    ASSUME NEW init, InitWellFormed(init), NEW t \in 1 .. Len(init.tracks)
    PROVE  EntryWellFormed(EntryOf(init, t))
BY DEF InitWellFormed, EntryOf

\* What the tracks of a job say of key ids: those of the protected ones.
LEMMA TracksOfInit ==
    ASSUME NEW init, InitWellFormed(init)
    PROVE  LET tracks == ExtractTracks(init)
               n == Len(init.tracks)
           IN  /\ n \in Nat \ {0} /\ Len(tracks) = n
               /\ \A t \in 1 .. n :
                    /\ tracks[t].type = init.tracks[t].type
                    /\ Protected(init, t) => tracks[t].kid = EntryOf(init, t).sinf.tenc.kid
                                             /\ tracks[t].kid # NoKid
                    /\ ~Protected(init, t) => tracks[t].kid = NoKid
                                              /\ tracks[t].codec = EntryOf(init, t).format
<1> DEFINE tracks == ExtractTracks(init)
           n == Len(init.tracks)
<1>1. n \in Nat \ {0}
    BY SinfsOfInit
<1>2. Len(tracks) = n /\ \A t \in 1 .. n : tracks[t] = TrackInfo(init.tracks[t])
    BY <1>1 DEF ExtractTracks
<1> HIDE DEF tracks, n
<1>3. ASSUME NEW t \in 1 .. n
      PROVE  /\ tracks[t].type = init.tracks[t].type
             /\ Protected(init, t) => tracks[t].kid = EntryOf(init, t).sinf.tenc.kid
                                      /\ tracks[t].kid # NoKid
             /\ ~Protected(init, t) => tracks[t].kid = NoKid
                                       /\ tracks[t].codec = EntryOf(init, t).format
  <2> DEFINE entry == EntryOf(init, t)
             info == TrackInfo(init.tracks[t])
  <2>1. EntryWellFormed(entry)
      BY EntriesOfInit DEF n
  <2>2. /\ entry.sinf.present <=> IsEncryptedEntry(entry.format)
        /\ entry.sinf.present => SinfWellFormed(entry.sinf)
    <3> HIDE DEF entry
    <3> QED BY <2>1, EntryKinds
  <2>3. /\ info.type = init.tracks[t].type
        /\ info.codec = IF IsEncryptedEntry(entry.format) /\ entry.sinf.present
                        THEN entry.sinf.frma ELSE entry.format
        /\ info.kid = IF IsEncryptedEntry(entry.format) /\ entry.sinf.present
                      THEN entry.sinf.tenc.kid ELSE NoKid
      BY DEF TrackInfo, EntryOf
  <2>4. SinfWellFormed(entry.sinf) => entry.sinf.tenc.kid # NoKid
      BY DEF SinfWellFormed
  <2>5. Protected(init, t) <=> entry.sinf.present
      BY DEF Protected
  <2> HIDE DEF entry, info
  <2>6. tracks[t] = info
      BY <1>2 DEF info
  <2> QED BY <2>2, <2>3, <2>4, <2>5, <2>6 DEF entry
<1> QED BY <1>1, <1>2, <1>3 DEF tracks, n

\* The mapping of a job: its first entry is that of the first protected track,
\* and without one every track has the key id of the content.
LEMMA MappingOfInit ==
    ASSUME NEW init, InitWellFormed(init)
    PROVE  LET mapping == BuildTrackKeyMapping(ExtractTracks(init), ParseProtectionInfo(init))
           IN  /\ IsList(mapping) /\ Len(mapping) \in Nat \ {0}
               /\ \A i \in 1 .. Len(mapping) : mapping[i].kid # NoKid
               /\ \A m \in 1 .. Len(init.tracks) :
                      Protected(init, m) /\ (\A t \in 1 .. m - 1 : ~Protected(init, t)) =>
                          /\ mapping[1].type = init.tracks[m].type
                          /\ mapping[1].kid = EntryOf(init, m).sinf.tenc.kid
               /\ (\A t \in 1 .. Len(init.tracks) : ~Protected(init, t))
                      => \A i \in 1 .. Len(mapping) : mapping[i].kid = ContentKid
<1> DEFINE tracks == ExtractTracks(init)
           info == ParseProtectionInfo(init)
           mapping == BuildTrackKeyMapping(tracks, info)
           n == Len(init.tracks)
           all == [t \in 1 .. n |-> [type |-> tracks[t].type, kid |-> tracks[t].kid]]
           first(t) == tracks[t].kid # NoKid
                       /\ \A u \in 1 .. t - 1 :
                              tracks[u].kid = NoKid \/ tracks[u].type # tracks[t].type
           I == {t \in 1 .. n : first(t)}
<1>1. /\ n \in Nat \ {0} /\ Len(tracks) = n
      /\ \A t \in 1 .. n :
           /\ tracks[t].type = init.tracks[t].type
           /\ Protected(init, t) => tracks[t].kid = EntryOf(init, t).sinf.tenc.kid
                                    /\ tracks[t].kid # NoKid
           /\ ~Protected(init, t) => tracks[t].kid = NoKid
    BY TracksOfInit
<1>2. FromTracks(tracks) = Chosen(all, I)
  <2> HIDE DEF tracks
  <2> QED BY <1>1 DEF FromTracks
<1> HIDE DEF tracks, info
<1>3. IsList(all) /\ Len(all) = n /\ all \in Seq(Range(all))
      /\ \A t \in 1 .. n : all[t].type = tracks[t].type /\ all[t].kid = tracks[t].kid
  <2>1. n \in Nat
      BY <1>1
  <2>2. IsList(all) /\ Len(all) = n
      BY <2>1, FunctionIsList
  <2> QED BY <2>1, <2>2 DEF IsList
<1> HIDE DEF all
<1>4. CASE \E t \in 1 .. n : Protected(init, t)
  <2> DEFINE P == {t \in 1 .. n : Protected(init, t)}
  <2>1. PICK m \in P : \A k \in P : m <= k
    <3>1. P \subseteq Nat /\ P # {}
        BY <1>1, <1>4
    <3> HIDE DEF P
    <3> QED BY <3>1, LeastNatural
  <2>2. m \in 1 .. n /\ Protected(init, m) /\ \A t \in 1 .. m - 1 : ~Protected(init, t)
      BY <1>1, <2>1
  <2>3. m \in I /\ \A t \in 1 .. m - 1 : t \notin I
    <3>1. \A t \in 1 .. m - 1 : t \in 1 .. n /\ tracks[t].kid = NoKid
        BY <1>1, <2>2
    <3> QED BY <1>1, <2>2, <3>1
  <2> HIDE DEF I
  <2>4. Chosen(all, I) # <<>> /\ Chosen(all, I)[1] = all[m] /\ Chosen(all, I) \in Seq(Range(all))
      BY <1>3, <2>2, <2>3, ChosenFirst, ChosenType
  <2>5. mapping = Chosen(all, I)
      BY <1>2, <2>4 DEF BuildTrackKeyMapping
  <2> HIDE DEF mapping
  <2>6. IsList(mapping) /\ Len(mapping) \in Nat \ {0}
    <3>1. IsList(mapping)
        BY <2>4, <2>5, SeqIsList, Zenon
    <3> QED BY <2>4, <2>5, <3>1
  <2>7. ASSUME NEW i \in 1 .. Len(mapping) PROVE mapping[i].kid # NoKid
    <3>1. i \in 1 .. Len(Chosen(all, I))
        BY <2>5
    <3>2. PICK t \in 1 .. Len(all) : t \in I /\ all[t] = Chosen(all, I)[i]
        BY <1>3, <3>1, ChosenFrom
    <3>3. tracks[t].kid # NoKid
        BY <3>2 DEF I
    <3> QED BY <1>3, <2>5, <3>2, <3>3
  <2>8. ASSUME NEW l \in 1 .. n, Protected(init, l), \A t \in 1 .. l - 1 : ~Protected(init, t)
        PROVE  mapping[1].type = init.tracks[l].type
               /\ mapping[1].kid = EntryOf(init, l).sinf.tenc.kid
    <3>1. l = m
      <4>1. ~ (l < m)
          BY <1>1, <2>2, <2>8
      <4>2. ~ (m < l)
          BY <1>1, <2>2, <2>8
      <4> QED BY <1>1, <2>2, <4>1, <4>2
    <3>2. mapping[1] = all[m]
        BY <2>4, <2>5
    <3> QED BY <1>1, <1>3, <2>2, <3>1, <3>2
  <2> QED BY <1>4, <2>6, <2>7, <2>8 DEF mapping, tracks, info
<1>5. CASE \A t \in 1 .. n : ~Protected(init, t)
  <2>1. \A t \in 1 .. Len(all) : t \notin I
      BY <1>1, <1>3, <1>5
  <2> HIDE DEF I
  <2>2. FromTracks(tracks) = <<>>
      BY <1>2, <1>3, <2>1, ChosenNone
  <2>3. ~info.present
      BY <1>5, InfoOfInit DEF info, NoSinf
  <2>4. mapping = SingleKid(ContentKid)
      BY <2>2, <2>3 DEF BuildTrackKeyMapping
  <2>5. IsList(mapping) /\ Len(mapping) = 3 /\ \A i \in 1 .. 3 : mapping[i].kid = ContentKid
    <3> DEFINE single == SingleKid(ContentKid)
    <3>1. single = [i \in 1 .. 3 |-> single[i]] /\ \A i \in 1 .. 3 : single[i].kid = ContentKid
        BY DEF SingleKid
    <3> HIDE DEF single
    <3>2. IsList(single) /\ Len(single) = 3
        BY <3>1, FunctionIsList
    <3> QED BY <2>4, <3>1, <3>2 DEF single
  <2>6. \A m \in 1 .. n : ~Protected(init, m)
      BY <1>5
  <2> HIDE DEF mapping
  <2> QED BY <2>5, <2>6, ContentKidAssumption DEF mapping, tracks, info
<1> QED BY <1>4, <1>5

\* The key id of a track is one of the mapping, and the first one for a track
\* of the first entry's type.
LEMMA KidsOfMapping ==
    ASSUME NEW mapping, IsList(mapping), Len(mapping) \in Nat \ {0}, NEW type
    PROVE  /\ PrimaryKid(mapping) = mapping[1].kid
           /\ mapping[1].type = type => KidForTrack(mapping, type) = mapping[1].kid
           /\ \E i \in 1 .. Len(mapping) : KidForTrack(mapping, type) = mapping[i].kid
<1> DEFINE n == Len(mapping)
           kids == [i \in 1 .. n |-> mapping[i].kid]
           I == {i \in 1 .. Len(kids) : \A j \in 1 .. i - 1 : kids[j] # kids[i]}
           J == {i \in 1 .. n : mapping[i].type = type}
           own == Chosen(mapping, J)
<1>1. n \in Nat /\ 1 \in 1 .. n /\ mapping \in Seq(Range(mapping))
    BY DEF IsList
<1>2. PrimaryKid(mapping) = mapping[1].kid
  <2>1. IsList(kids) /\ Len(kids) = n
      BY <1>1, FunctionIsList
  <2>2. kids \in Seq(Range(kids)) /\ kids[1] = mapping[1].kid
      BY <1>1, <2>1 DEF IsList
  <2>3. 1 \in I /\ 1 \in 1 .. Len(kids) /\ \A i \in 1 .. 1 - 1 : i \notin I
      BY <1>1, <2>1
  <2>4. KidList(mapping) = Chosen(kids, I)
      BY DEF KidList
  <2> HIDE DEF I, kids
  <2>5. Chosen(kids, I)[1] = kids[1]
      BY <2>2, <2>3, ChosenFirst
  <2> QED BY <2>2, <2>4, <2>5 DEF PrimaryKid
<1>3. KidForTrack(mapping, type) = IF own # <<>> THEN own[1].kid ELSE mapping[1].kid
  <2>1. mapping # <<>>
      OBVIOUS
  <2> QED BY <2>1 DEF KidForTrack
<1>4. own \in Seq(Range(mapping))
  <2> HIDE DEF J
  <2> QED BY <1>1, ChosenType
<1>5. mapping[1].type = type => own # <<>> /\ own[1] = mapping[1]
  <2>1. SUFFICES ASSUME mapping[1].type = type PROVE own # <<>> /\ own[1] = mapping[1]
      OBVIOUS
  <2>2. 1 \in 1 .. Len(mapping) /\ 1 \in J /\ \A i \in 1 .. 1 - 1 : i \notin J
      BY <1>1, <2>1
  <2> HIDE DEF J
  <2> QED BY <1>1, <2>2, ChosenFirst
<1>6. own # <<>> => \E i \in 1 .. n : own[1] = mapping[i]
  <2>1. SUFFICES ASSUME own # <<>> PROVE \E i \in 1 .. n : own[1] = mapping[i]
      OBVIOUS
  <2> HIDE DEF J
  <2>2. 1 \in 1 .. Len(own)
    <3> HIDE DEF own
    <3> QED BY <1>4, <2>1
  <2>3. \E i \in 1 .. Len(mapping) : i \in J /\ mapping[i] = own[1]
      BY <1>1, <2>2, ChosenFrom
  <2> QED BY <2>3
<1> HIDE DEF own, n
<1> QED BY <1>1, <1>2, <1>3, <1>5, <1>6 DEF n

\* An init segment whose t-th track has the type and the one entry that are given.
BuiltInit(brands, pssh, n, types, entries) ==
    [brands |-> brands, pssh |-> pssh,
     tracks |-> [t \in 1 .. n |-> [type |-> types[t], entries |-> <<entries[t]>>]]]

HasTracks(init, n, types, entries) ==
    /\ Len(init.tracks) = n
    /\ \A t \in 1 .. n : EntryOf(init, t) = entries[t] /\ init.tracks[t].type = types[t]

\* An init segment built of well-formed entries is well formed, and its tracks
\* are the ones that were put into it.
LEMMA BuiltWellFormed ==
    ASSUME NEW brands, NEW pssh, NEW n \in Nat \ {0}, NEW types, NEW entries,
           \A t \in 1 .. n : EntryWellFormed(entries[t]),
           pssh = {} \/ \E t \in 1 .. n : entries[t].sinf.present
    PROVE  LET init == BuiltInit(brands, pssh, n, types, entries)
           IN  InitWellFormed(init) /\ init.pssh = pssh /\ HasTracks(init, n, types, entries)
<1> DEFINE init == BuiltInit(brands, pssh, n, types, entries)
           track(t) == [type |-> types[t], entries |-> <<entries[t]>>]
           tracks == [t \in 1 .. n |-> track(t)]
<1>1. init = [brands |-> brands, pssh |-> pssh, tracks |-> tracks]
    BY DEF BuiltInit
<1>2. IsList(tracks) /\ Len(tracks) = n /\ tracks # <<>>
  <2>1. IsList(tracks) /\ Len(tracks) = n
      BY FunctionIsList
  <2> HIDE DEF tracks
  <2>2. Len(<<>>) = 0
      OBVIOUS
  <2> QED BY <2>1, <2>2
<1>3. \A t \in 1 .. n : tracks[t] = track(t) /\ track(t).type = types[t]
                        /\ track(t).entries[1] = entries[t]
                        /\ track(t) = [type |-> track(t).type, entries |-> <<track(t).entries[1]>>]
    OBVIOUS
<1> HIDE DEF init, tracks, track
<1>4. init = [brands |-> init.brands, pssh |-> init.pssh, tracks |-> init.tracks]
      /\ init.tracks = tracks /\ init.pssh = pssh
    BY <1>1
<1>5. \A t \in 1 .. n : EntryOf(init, t) = entries[t] /\ init.tracks[t].type = types[t]
    BY <1>3, <1>4 DEF EntryOf
<1>6. ASSUME NEW t \in 1 .. n
      PROVE  /\ init.tracks[t] = [type |-> init.tracks[t].type,
                                  entries |-> <<init.tracks[t].entries[1]>>]
             /\ init.tracks[t].entries[1] = entries[t]
    BY <1>3, <1>4, Zenon
<1>7. InitWellFormed(init)
    BY <1>2, <1>4, <1>6 DEF InitWellFormed
<1>8. HasTracks(init, n, types, entries)
    BY <1>2, <1>4, <1>5 DEF HasTracks
<1> QED BY <1>4, <1>7, <1>8 DEF init

OneEntry(type, entry) == [type |-> type, entries |-> <<entry>>]

\* A track that is rewritten keeps its type, and its entry is rewritten.
LEMMA TrakRewrites ==
    ASSUME NEW type, NEW entry, NEW mapping, NEW target
    PROVE  LET track == OneEntry(type, entry)
               kid == KidForTrack(mapping, type)
           IN  /\ RewriteTrak(track, mapping, target) =
                      OneEntry(type, RewriteSampleEntry(entry, kid, target))
               /\ InjectProtectionTrak(track, mapping, target) =
                      OneEntry(type, InjectProtection(entry, kid, target))
               /\ StripProtectionTrak(track) = OneEntry(type, StripProtection(entry))
<1> DEFINE track == [type |-> type, entries |-> <<entry>>]
           kid == KidForTrack(mapping, type)
<1>1. track.type = type /\ track.entries = <<entry>> /\ Len(<<entry>>) = 1
    OBVIOUS
<1>2. \A new : [track EXCEPT !.entries = new] = [type |-> type, entries |-> new]
    OBVIOUS
<1>3. \A x : [e \in 1 .. 1 |-> x] = <<x>>
    OBVIOUS
<1> HIDE DEF track
<1>4. RewriteTrak(track, mapping, target) =
          [type |-> type, entries |-> <<RewriteSampleEntry(entry, kid, target)>>]
  <2> DEFINE new == [e \in 1 .. Len(track.entries) |->
                        RewriteSampleEntry(track.entries[e], KidForTrack(mapping, track.type), target)]
  <2>1. RewriteTrak(track, mapping, target) = [track EXCEPT !.entries = new]
      BY DEF RewriteTrak
  <2>2. new = [e \in 1 .. 1 |-> RewriteSampleEntry(entry, kid, target)]
      BY <1>1
  <2> HIDE DEF new
  <2> QED BY <1>2, <1>3, <2>1, <2>2
<1>5. InjectProtectionTrak(track, mapping, target) =
          [type |-> type, entries |-> <<InjectProtection(entry, kid, target)>>]
  <2> DEFINE new == [e \in 1 .. Len(track.entries) |->
                        InjectProtection(track.entries[e], KidForTrack(mapping, track.type), target)]
  <2>1. InjectProtectionTrak(track, mapping, target) = [track EXCEPT !.entries = new]
      BY DEF InjectProtectionTrak
  <2>2. new = [e \in 1 .. 1 |-> InjectProtection(entry, kid, target)]
      BY <1>1
  <2> HIDE DEF new
  <2> QED BY <1>2, <1>3, <2>1, <2>2
<1>6. StripProtectionTrak(track) = [type |-> type, entries |-> <<StripProtection(entry)>>]
  <2> DEFINE new == [e \in 1 .. Len(track.entries) |-> StripProtection(track.entries[e])]
  <2>1. StripProtectionTrak(track) = [track EXCEPT !.entries = new]
      BY DEF StripProtectionTrak
  <2>2. new = [e \in 1 .. 1 |-> StripProtection(entry)]
      BY <1>1
  <2> HIDE DEF new
  <2> QED BY <1>2, <1>3, <2>1, <2>2
<1> QED BY <1>4, <1>5, <1>6 DEF track, OneEntry

\* The tenc that a rewrite for the target puts in.
TargetTenc(kid, target) == BuildTenc(kid, DefaultIvSize(target), DefaultVideoPattern(target))

\* What the three rewrites make of an entry.
LEMMA RewrittenEntry ==
    ASSUME NEW entry, EntryWellFormed(entry), NEW kid, kid # NoKid, NEW target
    PROVE  LET new == RewriteSampleEntry(entry, kid, target)
           IN  /\ EntryWellFormed(new)
               /\ new.sinf.present <=> entry.sinf.present
               /\ entry.sinf.present => new.sinf.schm = target /\ new.sinf.tenc.kid = kid
                                        /\ new.sinf.tenc = TargetTenc(kid, target)
               /\ new.format = entry.format
               /\ entry.sinf.present => new.sinf.frma = entry.sinf.frma
<1> DEFINE new == RewriteSampleEntry(entry, kid, target)
           tenc == BuildTenc(kid, DefaultIvSize(target), DefaultVideoPattern(target))
           f == entry.format
           x == entry.sinf
<1>1. entry = [format |-> f, sinf |-> x]
    BY DEF EntryWellFormed
<1>2. tenc = [ivSize |-> tenc.ivSize, kid |-> tenc.kid, pattern |-> tenc.pattern,
              constantIv |-> tenc.constantIv] /\ tenc.kid = kid
  <2>1. \A a, b, c, d : LET r == [ivSize |-> a, kid |-> b, pattern |-> c, constantIv |-> d]
                        IN  r = [ivSize |-> r.ivSize, kid |-> r.kid, pattern |-> r.pattern,
                                 constantIv |-> r.constantIv] /\ r.kid = b
      OBVIOUS
  <2>2. \E a, c, d : tenc = [ivSize |-> a, kid |-> kid, pattern |-> c, constantIv |-> d]
      BY DEF BuildTenc
  <2> HIDE DEF tenc
  <2> QED BY <2>1, <2>2
<1>3. new = [entry EXCEPT !.sinf = IF x.present THEN [x EXCEPT !.schm = target, !.tenc = tenc]
                                   ELSE x]
    BY DEF RewriteSampleEntry
<1> HIDE DEF new, tenc, f, x
<1> SUFFICES /\ EntryWellFormed(new)
             /\ new.sinf.present <=> entry.sinf.present
             /\ entry.sinf.present => new.sinf.schm = target /\ new.sinf.tenc.kid = kid
                                      /\ new.sinf.tenc = tenc
             /\ new.format = entry.format
             /\ entry.sinf.present => new.sinf.frma = entry.sinf.frma
    BY DEF new, tenc, TargetTenc
<1>4. CASE x.present
  <2>1. SinfWellFormed(x) /\ IsEncryptedEntry(f)
      BY <1>4, EntryKinds DEF x, f
  <2> DEFINE a == x.frma
             b == x.schm
             c == x.tenc
             y == [present |-> TRUE, frma |-> a, schm |-> target, tenc |-> tenc]
  <2>2. x = [present |-> TRUE, frma |-> a, schm |-> b, tenc |-> c]
        /\ a \in VideoFormats \union AudioFormats \union TextFormats
      BY <2>1 DEF SinfWellFormed
  <2> HIDE DEF a, b, c
  <2>3. [x EXCEPT !.schm = target, !.tenc = tenc] = y
    <3> DEFINE z == [x EXCEPT !.schm = target]
    <3>1. PICK p : p = TRUE
        OBVIOUS
    <3>2. x = [present |-> p, frma |-> a, schm |-> b, tenc |-> c]
        BY <2>2, <3>1
    <3>3. z = [present |-> p, frma |-> a, schm |-> target, tenc |-> c]
        BY <3>2
    <3> HIDE DEF z
    <3>4. [z EXCEPT !.tenc = tenc] = [present |-> p, frma |-> a, schm |-> target, tenc |-> tenc]
        BY <3>3
    <3> QED BY <3>1, <3>4 DEF z
  <2>4. /\ SinfWellFormed(y) /\ y.present /\ y.schm = target /\ y.tenc.kid = kid
        /\ y.tenc = tenc /\ y.frma = a
    <3>1. y.present = TRUE /\ y.frma = a /\ y.schm = target /\ y.tenc = tenc
        OBVIOUS
    <3>2. y = [present |-> TRUE, frma |-> y.frma, schm |-> y.schm, tenc |-> y.tenc]
        BY <3>1
    <3> HIDE DEF y
    <3> QED BY <1>2, <2>2, <3>1, <3>2 DEF SinfWellFormed
  <2> HIDE DEF y
  <2>5. new = [format |-> f, sinf |-> y]
      BY <1>1, <1>3, <1>4, <2>3
  <2>6. new.format = f /\ new.sinf = y
      BY <2>5
  <2>7. new = [format |-> new.format, sinf |-> new.sinf] /\ IsEncryptedEntry(new.format)
        /\ SinfWellFormed(new.sinf)
      BY <2>1, <2>4, <2>5, <2>6
  <2>8. EntryWellFormed(new)
      BY <2>7 DEF EntryWellFormed
  <2>9. new.sinf.present /\ new.sinf.schm = target /\ new.sinf.tenc.kid = kid
        /\ new.sinf.tenc = tenc
      BY <2>4, <2>6
  <2>10. x.present = entry.sinf.present
      BY DEF x
  <2>11. new.format = entry.format /\ new.sinf.frma = entry.sinf.frma
      BY <2>4, <2>6 DEF f, a, x
  <2> QED BY <1>4, <2>8, <2>9, <2>10, <2>11
<1>5. CASE ~x.present
  <2>1. [entry EXCEPT !.sinf = x] = entry
      BY <1>1
  <2>2. new = entry
      BY <1>3, <1>5, <2>1
  <2>3. x.present = entry.sinf.present
      BY DEF x
  <2> QED BY <1>5, <2>2, <2>3
<1> QED BY <1>4, <1>5

\* A sample entry that gets a sinf is protected under the scheme and the key
\* id asked for: inject_protection_stsd.
LEMMA InjectedEntry ==
    ASSUME NEW entry, entry.format \in VideoFormats \union AudioFormats,
           NEW kid, kid # NoKid, NEW target
    PROVE  LET new == InjectProtection(entry, kid, target)
           IN  /\ EntryWellFormed(new)
               /\ new.sinf.present /\ new.sinf.schm = target /\ new.sinf.tenc.kid = kid
               /\ new.sinf.tenc = TargetTenc(kid, target)
<1> DEFINE new == InjectProtection(entry, kid, target)
           f == EncryptedType(entry.format)
           tenc == BuildTenc(kid, DefaultIvSize(target), DefaultVideoPattern(target))
           y == [present |-> TRUE, frma |-> entry.format, schm |-> target, tenc |-> tenc]
<1>1. tenc = [ivSize |-> tenc.ivSize, kid |-> tenc.kid, pattern |-> tenc.pattern,
              constantIv |-> tenc.constantIv] /\ tenc.kid = kid
  <2>1. \A a, b, c, d : LET r == [ivSize |-> a, kid |-> b, pattern |-> c, constantIv |-> d]
                        IN  r = [ivSize |-> r.ivSize, kid |-> r.kid, pattern |-> r.pattern,
                                 constantIv |-> r.constantIv] /\ r.kid = b
      OBVIOUS
  <2>2. \E a, c, d : tenc = [ivSize |-> a, kid |-> kid, pattern |-> c, constantIv |-> d]
      BY DEF BuildTenc
  <2> HIDE DEF tenc
  <2> QED BY <2>1, <2>2
<1>2. new = [format |-> f, sinf |-> y]
    BY DEF InjectProtection, HasEncryptedType, BuildSinf
<1>3. IsEncryptedEntry(f)
    BY DEF EncryptedType, IsEncryptedEntry
<1> HIDE DEF new, f, tenc
<1>4. SinfWellFormed(y) /\ y.present /\ y.schm = target /\ y.tenc.kid = kid /\ y.tenc = tenc
  <2>1. y.present = TRUE /\ y.frma = entry.format /\ y.schm = target /\ y.tenc = tenc
      OBVIOUS
  <2>2. y = [present |-> TRUE, frma |-> y.frma, schm |-> y.schm, tenc |-> y.tenc]
      BY <2>1
  <2> HIDE DEF y
  <2> QED BY <1>1, <2>1, <2>2 DEF SinfWellFormed
<1> HIDE DEF y
<1>5. new.format = f /\ new.sinf = y
    BY <1>2
<1> QED BY <1>2, <1>3, <1>4, <1>5 DEF EntryWellFormed, new, tenc, TargetTenc

\* A sample entry that loses its sinf is a clear one: strip_protection_stsd.
LEMMA StrippedEntry ==
    ASSUME NEW entry, EntryWellFormed(entry)
    PROVE  EntryWellFormed(StripProtection(entry)) /\ ~StripProtection(entry).sinf.present
<1> DEFINE new == StripProtection(entry)
           Clear == VideoFormats \union AudioFormats \union TextFormats
<1>1. ASSUME NEW f \in Clear, new = [format |-> f, sinf |-> NoSinf]
      PROVE  EntryWellFormed(new) /\ ~new.sinf.present
  <2> HIDE DEF new
  <2>1. new.format = f /\ new.sinf = NoSinf /\ ~NoSinf.present
      BY <1>1 DEF NoSinf
  <2> QED BY <1>1, <2>1 DEF EntryWellFormed
<1>2. /\ entry.sinf.present <=> IsEncryptedEntry(entry.format)
      /\ entry.sinf.present => SinfWellFormed(entry.sinf)
      /\ ~entry.sinf.present => entry.format \in Clear /\ entry.sinf = NoSinf
    BY EntryKinds
<1>3. CASE entry.sinf.present
  <2>1. new = [format |-> entry.sinf.frma, sinf |-> NoSinf]
      BY <1>2, <1>3 DEF StripProtection
  <2>2. entry.sinf.frma \in Clear
      BY <1>2, <1>3 DEF SinfWellFormed
  <2> HIDE DEF new, Clear
  <2> QED BY <1>1, <2>1, <2>2 DEF new
<1>4. CASE ~entry.sinf.present
  <2>1. new = entry
      BY <1>2, <1>4 DEF StripProtection
  <2> QED BY <1>4, <2>1
<1> QED BY <1>3, <1>4

\* The init segment a job starts from, the one of its source or the one that
\* the first TS segment makes.
LEMMA SourceInitFits ==
    ASSUME WellFormed(source), Readable
    PROVE  InitWellFormed(SourceInit)
<1>1. CASE source.ts
  <2> DEFINE streams == source.segments[1][1].streams
             n == Len(streams)
             types == [t \in 1 .. n |-> streams[t].track]
             entries == [t \in 1 .. n |-> [format |-> TsFormat(streams[t].track), sinf |-> NoSinf]]
             brands == {"isom", "iso5", "dash", "cmfc"}
  <2>1. 1 \in 1 .. Len(source.segments)
      BY DEF WellFormed, IsList
  <2>2. TsWellFormed(source.segments[1])
      BY <1>1, <2>1 DEF WellFormed
  <2>3. IsList(streams) /\ streams # <<>>
      BY <1>1, <2>2 DEF TsWellFormed, Readable, CanDemux
  <2>4. n \in Nat \ {0}
    <3> HIDE DEF streams
    <3> QED BY <2>3 DEF IsList
  <2>5. ASSUME NEW t \in 1 .. n PROVE EntryWellFormed(entries[t])
    <3> DEFINE e == [format |-> TsFormat(streams[t].track), sinf |-> NoSinf]
    <3>1. e.format \in VideoFormats \union AudioFormats /\ e.sinf = NoSinf
        BY DEF TsFormat, VideoFormats, AudioFormats
    <3>2. e = [format |-> e.format, sinf |-> e.sinf]
        OBVIOUS
    <3>3. entries[t] = e
        OBVIOUS
    <3> HIDE DEF e
    <3>4. EntryWellFormed(e)
        BY <3>1, <3>2 DEF EntryWellFormed
    <3> QED BY <3>3, <3>4
  <2>6. SourceInit = BuiltInit(brands, {}, n, types, entries)
    <3>1. SourceInit = SynthesizeInit(source.segments[1])
        BY <1>1 DEF SourceInit, InitOfSource
    <3>2. \A t \in 1 .. n : <<entries[t]>> = <<[format |-> TsFormat(streams[t].track), sinf |-> NoSinf]>>
                            /\ types[t] = streams[t].track
        OBVIOUS
    <3> HIDE DEF entries, types
    <3> QED BY <3>1, <3>2, Zenon DEF SynthesizeInit, BuiltInit
  <2> HIDE DEF entries, types, n, brands
  <2> QED BY <2>4, <2>5, <2>6, BuiltWellFormed
<1>2. CASE ~source.ts
    BY <1>2 DEF WellFormed, SourceInit, InitOfSource
<1> QED BY <1>1, <1>2

\* A job's source is encrypted exactly if a track of it is protected.
LEMMA SourceIsProtected ==
    ASSUME WellFormed(source), Readable
    PROVE  IsEncrypted(FromScheme)
               <=> \E t \in 1 .. Len(SourceInit.tracks) : Protected(SourceInit, t)
<1> DEFINE init == SourceInit
           n == Len(init.tracks)
<1>1. InitWellFormed(init) /\ n \in Nat \ {0}
    BY SourceInitFits, SinfsOfInit
<1>2. SourceInfo = ParseProtectionInfo(init)
    BY DEF SourceInfo
<1>3. ASSUME \E t \in 1 .. n : Protected(init, t) PROVE IsEncrypted(FromScheme)
  <2> DEFINE P == {t \in 1 .. n : Protected(init, t)}
  <2>1. PICK m \in P : \A k \in P : m <= k
    <3>1. P \subseteq Nat /\ P # {}
        BY <1>1, <1>3
    <3> HIDE DEF P
    <3> QED BY <3>1, LeastNatural
  <2>2. m \in 1 .. n /\ Protected(init, m) /\ \A t \in 1 .. m - 1 : ~Protected(init, t)
      BY <1>1, <2>1
  <2>3. SourceInfo = EntryOf(init, m).sinf
      BY <1>1, <1>2, <2>2, InfoOfInit
  <2>4. SourceInfo.present
      BY <2>2, <2>3 DEF Protected
  <2>5. ~source.ts
    <3>1. SUFFICES ASSUME source.ts PROVE FALSE
        OBVIOUS
    <3>2. init = SynthesizeInit(source.segments[1])
        BY <3>1 DEF SourceInit, InitOfSource
    <3> DEFINE streams == source.segments[1][1].streams
    <3>3. init.tracks = [s \in 1 .. Len(streams) |->
              [type |-> streams[s].track,
               entries |-> <<[format |-> TsFormat(streams[s].track), sinf |-> NoSinf]>>]]
        BY <3>2 DEF SynthesizeInit
    <3>4. Len(streams) \in Nat
      <4>1. 1 \in 1 .. Len(source.segments)
          BY DEF WellFormed, IsList
      <4>2. TsWellFormed(source.segments[1])
          BY <3>1, <4>1 DEF WellFormed
      <4> QED BY <4>2 DEF TsWellFormed, IsList
    <3> HIDE DEF streams
    <3>5. m \in 1 .. Len(streams)
        BY <2>2, <3>3, <3>4
    <3>6. EntryOf(init, m).sinf = NoSinf
        BY <3>3, <3>5 DEF EntryOf
    <3> QED BY <2>2, <3>6 DEF Protected, NoSinf
  <2>6. SourceInfo.schm \in {"cbcs", "cenc"}
      BY <1>2, <2>4, <2>5 DEF Readable, SchemeKnown, SourceInit, InitOfSource
  <2> QED BY <2>4, <2>6 DEF IsEncrypted, FromScheme, SourceScheme
<1>4. ASSUME \A t \in 1 .. n : ~Protected(init, t) PROVE ~IsEncrypted(FromScheme)
  <2>1. SourceInfo = NoSinf
      BY <1>1, <1>2, <1>4, InfoOfInit
  <2> QED BY <2>1 DEF IsEncrypted, FromScheme, SourceScheme, NoSinf
<1> QED BY <1>3, <1>4

\* What an encrypted init segment says of its protection: the scheme, the first
\* key id of the job, and no other key ids than those of the job.
Says(init, mapping, target) ==
    LET info == ParseProtectionInfo(init)
    IN  /\ info.present /\ info.schm = target /\ info.tenc.kid = PrimaryKid(mapping)
        /\ info.tenc = TargetTenc(PrimaryKid(mapping), target)
        /\ \A k \in 1 .. Len(Sinfs(init)) : Sinfs(init)[k].tenc.kid \in AllKids(mapping)

\* An init segment whose protected entries carry the scheme of the target and
\* the key ids of their types says what the job means it to say.
LEMMA BuiltSays ==
    ASSUME NEW brands, NEW pssh, NEW n \in Nat \ {0}, NEW types, NEW entries,
           \A t \in 1 .. n : EntryWellFormed(entries[t]),
           NEW mapping, IsList(mapping), Len(mapping) \in Nat \ {0}, NEW target,
           \A t \in 1 .. n : entries[t].sinf.present =>
               /\ entries[t].sinf.schm = target
               /\ entries[t].sinf.tenc.kid = KidForTrack(mapping, types[t])
               /\ entries[t].sinf.tenc = TargetTenc(KidForTrack(mapping, types[t]), target),
           NEW m \in 1 .. n, entries[m].sinf.present, \A t \in 1 .. m - 1 : ~entries[t].sinf.present,
           KidForTrack(mapping, types[m]) = PrimaryKid(mapping)
    PROVE  LET init == BuiltInit(brands, pssh, n, types, entries)
           IN  InitWellFormed(init) /\ init.pssh = pssh /\ Says(init, mapping, target)
<1> DEFINE init == BuiltInit(brands, pssh, n, types, entries)
<1>1. InitWellFormed(init) /\ init.pssh = pssh /\ HasTracks(init, n, types, entries)
  <2>1. pssh = {} \/ \E t \in 1 .. n : entries[t].sinf.present
      OBVIOUS
  <2> QED BY <2>1, BuiltWellFormed, Zenon
<1> HIDE DEF init
<1>2. Len(init.tracks) = n /\ \A t \in 1 .. n : EntryOf(init, t) = entries[t]
    BY <1>1 DEF HasTracks
<1>3. \A t \in 1 .. n : Protected(init, t) <=> entries[t].sinf.present
    BY <1>2 DEF Protected
<1>4. ParseProtectionInfo(init) = entries[m].sinf
  <2>1. m \in 1 .. Len(init.tracks) /\ Protected(init, m)
        /\ \A t \in 1 .. m - 1 : ~Protected(init, t)
      BY <1>3, <1>2
  <2> QED BY <1>1, <1>2, <2>1, InfoOfInit
<1>5. ASSUME NEW k \in 1 .. Len(Sinfs(init)) PROVE Sinfs(init)[k].tenc.kid \in AllKids(mapping)
  <2>1. PICK t \in 1 .. Len(init.tracks) :
            Protected(init, t) /\ Sinfs(init)[k] = EntryOf(init, t).sinf
      BY <1>1, InfoOfInit
  <2>2. t \in 1 .. n /\ entries[t].sinf.present /\ Sinfs(init)[k] = entries[t].sinf
      BY <1>3, <1>2, <2>1
  <2>3. Sinfs(init)[k].tenc.kid = KidForTrack(mapping, types[t])
      BY <2>2
  <2>4. \E i \in 1 .. Len(mapping) : KidForTrack(mapping, types[t]) = mapping[i].kid
      BY KidsOfMapping
  <2> QED BY <2>3, <2>4 DEF AllKids
<1>6. Says(init, mapping, target)
    BY <1>4, <1>5 DEF Says
<1> QED BY <1>1, <1>6 DEF init

\* The mapping of the job, by what is protected in its source.
LEMMA JobMapping ==
    ASSUME WellFormed(source), Readable
    PROVE  /\ IsList(Mapping) /\ Len(Mapping) \in Nat \ {0}
           /\ \A i \in 1 .. Len(Mapping) : Mapping[i].kid # NoKid
           /\ PrimaryKid(Mapping) = Mapping[1].kid
           /\ \A type : KidForTrack(Mapping, type) # NoKid
           /\ \A m \in 1 .. Len(SourceInit.tracks) :
                  Protected(SourceInit, m) /\ (\A t \in 1 .. m - 1 : ~Protected(SourceInit, t)) =>
                      /\ KidForTrack(Mapping, SourceInit.tracks[m].type) = PrimaryKid(Mapping)
                      /\ PrimaryKid(Mapping) = EntryOf(SourceInit, m).sinf.tenc.kid
           /\ (\A t \in 1 .. Len(SourceInit.tracks) : ~Protected(SourceInit, t))
                  => \A type : KidForTrack(Mapping, type) = PrimaryKid(Mapping)
<1> DEFINE init == SourceInit
           mapping == Mapping
<1>1. InitWellFormed(init)
    BY SourceInitFits
<1>2. mapping = BuildTrackKeyMapping(ExtractTracks(init), ParseProtectionInfo(init))
    BY DEF Mapping, SourceTracks, SourceInfo
<1> HIDE DEF init, mapping
<1>3. /\ IsList(mapping) /\ Len(mapping) \in Nat \ {0}
      /\ \A i \in 1 .. Len(mapping) : mapping[i].kid # NoKid
      /\ \A m \in 1 .. Len(init.tracks) :
             Protected(init, m) /\ (\A t \in 1 .. m - 1 : ~Protected(init, t)) =>
                 mapping[1].type = init.tracks[m].type
                 /\ mapping[1].kid = EntryOf(init, m).sinf.tenc.kid
      /\ (\A t \in 1 .. Len(init.tracks) : ~Protected(init, t))
             => \A i \in 1 .. Len(mapping) : mapping[i].kid = ContentKid
    BY <1>1, <1>2, MappingOfInit
<1>4. 1 \in 1 .. Len(mapping)
    BY <1>3
<1>5. \A type : /\ PrimaryKid(mapping) = mapping[1].kid
                /\ mapping[1].type = type => KidForTrack(mapping, type) = mapping[1].kid
                /\ \E i \in 1 .. Len(mapping) : KidForTrack(mapping, type) = mapping[i].kid
    BY <1>3, KidsOfMapping
<1>6. \A type : KidForTrack(mapping, type) # NoKid
    BY <1>3, <1>5
<1>7. \A m \in 1 .. Len(init.tracks) :
          Protected(init, m) /\ (\A t \in 1 .. m - 1 : ~Protected(init, t)) =>
              /\ KidForTrack(mapping, init.tracks[m].type) = PrimaryKid(mapping)
              /\ PrimaryKid(mapping) = EntryOf(init, m).sinf.tenc.kid
    BY <1>3, <1>5
<1>8. (\A t \in 1 .. Len(init.tracks) : ~Protected(init, t))
          => \A type : KidForTrack(mapping, type) = PrimaryKid(mapping)
    BY <1>3, <1>4, <1>5
<1> QED BY <1>3, <1>5, <1>6, <1>7, <1>8 DEF init, mapping

TypesOf(init) == [t \in 1 .. Len(init.tracks) |-> init.tracks[t].type]
SameEntries(init) == [t \in 1 .. Len(init.tracks) |-> EntryOf(init, t)]
StrippedEntries(init) == [t \in 1 .. Len(init.tracks) |-> StripProtection(EntryOf(init, t))]
RewrittenEntries(init, mapping, target) ==
    [t \in 1 .. Len(init.tracks) |->
        RewriteSampleEntry(EntryOf(init, t), KidForTrack(mapping, init.tracks[t].type), target)]
InjectedEntries(init, mapping, target) ==
    [t \in 1 .. Len(init.tracks) |->
        InjectProtection(EntryOf(init, t), KidForTrack(mapping, init.tracks[t].type), target)]

\* The rewrites of a whole init segment build one of the same tracks.
RewritesTracks(init, keys, mapping, target, container) ==
    LET n == Len(init.tracks)
        boxes == BuildPsshBoxes(keys, mapping, target)
    IN  /\ RewriteInitSegment(init, keys, mapping, target, container) =
               BuiltInit(Brands(container), boxes, n, TypesOf(init),
                         RewrittenEntries(init, mapping, target))
        /\ CreateProtectionInfo(init, keys, mapping, target, container) =
               BuiltInit(Brands(container), init.pssh \union boxes, n, TypesOf(init),
                         InjectedEntries(init, mapping, target))
        /\ StripProtectionInfo(init, container) =
               BuiltInit(Brands(container), {}, n, TypesOf(init), StrippedEntries(init))
        /\ RewriteFtypOnly(init, container) =
               BuiltInit(Brands(container), init.pssh, n, TypesOf(init), SameEntries(init))

\* Each of the four rewrites of an init segment keeps its tracks and changes
\* their entries and boxes alone: the code behaviour is media/init.rs.
LEMMA InitRewrites ==
    ASSUME NEW init, InitWellFormed(init), NEW keys, NEW mapping, NEW target, NEW container
    PROVE  RewritesTracks(init, keys, mapping, target, container)
<1> DEFINE n == Len(init.tracks)
           types == TypesOf(init)
           boxes == BuildPsshBoxes(keys, mapping, target)
           rewritten == RewrittenEntries(init, mapping, target)
           injected == InjectedEntries(init, mapping, target)
           stripped == StrippedEntries(init)
           same == SameEntries(init)
<1>1. ASSUME NEW t \in 1 .. n PROVE init.tracks[t] = OneEntry(types[t], EntryOf(init, t))
  <2>1. init.tracks[t] = [type |-> init.tracks[t].type, entries |-> <<init.tracks[t].entries[1]>>]
      BY DEF InitWellFormed
  <2> QED BY <2>1 DEF EntryOf, OneEntry, TypesOf
<1>2. ASSUME NEW t \in 1 .. n
      PROVE  /\ RewriteTrak(init.tracks[t], mapping, target) = OneEntry(types[t], rewritten[t])
             /\ InjectProtectionTrak(init.tracks[t], mapping, target) = OneEntry(types[t], injected[t])
             /\ StripProtectionTrak(init.tracks[t]) = OneEntry(types[t], stripped[t])
             /\ init.tracks[t] = OneEntry(types[t], same[t])
  <2>1. init.tracks[t] = OneEntry(types[t], EntryOf(init, t))
      BY <1>1
  <2>2. /\ rewritten[t] = RewriteSampleEntry(EntryOf(init, t), KidForTrack(mapping, types[t]), target)
        /\ injected[t] = InjectProtection(EntryOf(init, t), KidForTrack(mapping, types[t]), target)
        /\ stripped[t] = StripProtection(EntryOf(init, t))
        /\ same[t] = EntryOf(init, t)
      BY DEF RewrittenEntries, InjectedEntries, StrippedEntries, SameEntries, TypesOf
  <2> DEFINE type == types[t]
             entry == EntryOf(init, t)
  <2> HIDE DEF rewritten, injected, stripped, same, type, entry
  <2>3. /\ RewriteTrak(OneEntry(type, entry), mapping, target) =
               OneEntry(type, RewriteSampleEntry(entry, KidForTrack(mapping, type), target))
        /\ InjectProtectionTrak(OneEntry(type, entry), mapping, target) =
               OneEntry(type, InjectProtection(entry, KidForTrack(mapping, type), target))
        /\ StripProtectionTrak(OneEntry(type, entry)) = OneEntry(type, StripProtection(entry))
      BY TrakRewrites
  <2> QED BY <2>1, <2>2, <2>3 DEF type, entry
<1> HIDE DEF rewritten, injected, stripped, same, types, boxes
<1>3. RewriteInitSegment(init, keys, mapping, target, container) =
          BuiltInit(Brands(container), boxes, n, types, rewritten)
    BY <1>2, Zenon DEF RewriteInitSegment, BuiltInit, OneEntry, boxes
<1>4. CreateProtectionInfo(init, keys, mapping, target, container) =
          BuiltInit(Brands(container), init.pssh \union boxes, n, types, injected)
    BY <1>2, Zenon DEF CreateProtectionInfo, BuiltInit, OneEntry, boxes
<1>5. StripProtectionInfo(init, container) = BuiltInit(Brands(container), {}, n, types, stripped)
    BY <1>2, Zenon DEF StripProtectionInfo, BuiltInit, OneEntry
<1>6. RewriteFtypOnly(init, container) =
          BuiltInit(Brands(container), init.pssh, n, types, same)
  <2> DEFINE a == init.brands
             b == init.pssh
             c == init.tracks
  <2>1. init = [brands |-> a, pssh |-> b, tracks |-> c]
      BY DEF InitWellFormed
  <2>2. IsList(c)
      BY DEF InitWellFormed
  <2>3. c = [t \in 1 .. n |-> c[t]]
    <3> HIDE DEF c
    <3> QED BY <2>2 DEF IsList, c
  <2>4. c = [t \in 1 .. n |-> OneEntry(types[t], same[t])]
    <3>1. \A t \in 1 .. n : c[t] = OneEntry(types[t], same[t])
        BY <1>2
    <3> HIDE DEF c, n
    <3> QED BY <2>3, <3>1
  <2> DEFINE d == [t \in 1 .. n |-> OneEntry(types[t], same[t])]
             e == Brands(container)
  <2>5. RewriteFtypOnly(init, container) = [init EXCEPT !.brands = e]
      BY DEF RewriteFtypOnly
  <2>6. BuiltInit(e, b, n, types, same) = [brands |-> e, pssh |-> b, tracks |-> d]
      BY Zenon DEF BuiltInit, OneEntry
  <2> HIDE DEF a, b, c, d, e
  <2>7. [init EXCEPT !.brands = e] = [brands |-> e, pssh |-> b, tracks |-> c]
      BY <2>1
  <2>8. c = d
      BY <2>4 DEF d
  <2>9. RewriteFtypOnly(init, container) = BuiltInit(e, b, n, types, same)
      BY <2>5, <2>6, <2>7, <2>8
  <2> QED BY <2>9 DEF e, b
<1> QED BY <1>3, <1>4, <1>5, <1>6 DEF rewritten, injected, stripped, same, types, boxes, RewritesTracks

\* The init segment of an output is as well formed as that of the source, and
\* it says of its protection what the job is to say of it: the code behaviour is
\* the four cases of rewrite_init_segment and its siblings, the key id of every
\* track out of the mapping and the pssh boxes replaced or added.
LEMMA NewInitFits ==
    ASSUME WellFormed(source), Readable, ValidRequest(Targets, SourceTracks), NEW s \in Targets
    PROVE  /\ InitWellFormed(NewInit(s))
           /\ IsEncrypted(s) => /\ Says(NewInit(s), Mapping, s)
                                /\ NewInit(s).pssh = BuildPsshBoxes(keySet, Mapping, s)
           /\ ~IsEncrypted(s) => ~ParseProtectionInfo(NewInit(s)).present
<1> DEFINE init == SourceInit
           mapping == Mapping
           n == Len(init.tracks)
           types == TypesOf(init)
           kid(t) == KidForTrack(mapping, init.tracks[t].type)
           boxes == BuildPsshBoxes(keySet, mapping, s)
           brands == Brands(request.container)
           rewritten == RewrittenEntries(init, mapping, s)
           injected == InjectedEntries(init, mapping, s)
           stripped == StrippedEntries(init)
           same == SameEntries(init)
<1>1. InitWellFormed(init) /\ n \in Nat \ {0}
    BY SourceInitFits, SinfsOfInit
<1>2. /\ RewriteInitSegment(init, keySet, mapping, s, request.container) =
             BuiltInit(brands, boxes, n, types, rewritten)
      /\ CreateProtectionInfo(init, keySet, mapping, s, request.container) =
             BuiltInit(brands, init.pssh \union boxes, n, types, injected)
      /\ StripProtectionInfo(init, request.container) = BuiltInit(brands, {}, n, types, stripped)
      /\ RewriteFtypOnly(init, request.container) = BuiltInit(brands, init.pssh, n, types, same)
  <2>1. RewritesTracks(init, keySet, mapping, s, request.container)
      BY <1>1, InitRewrites
  <2> QED BY <2>1 DEF RewritesTracks
<1>3. IsEncrypted(FromScheme) <=> \E t \in 1 .. n : Protected(init, t)
    BY SourceIsProtected
<1>4. /\ IsList(mapping) /\ Len(mapping) \in Nat \ {0}
      /\ \A type : KidForTrack(mapping, type) # NoKid
      /\ \A m \in 1 .. n :
             Protected(init, m) /\ (\A t \in 1 .. m - 1 : ~Protected(init, t)) =>
                 KidForTrack(mapping, init.tracks[m].type) = PrimaryKid(mapping)
      /\ (\A t \in 1 .. n : ~Protected(init, t))
             => \A type : KidForTrack(mapping, type) = PrimaryKid(mapping)
    BY JobMapping
<1>5. \A t \in 1 .. n : EntryWellFormed(EntryOf(init, t))
    BY <1>1, EntriesOfInit
<1>6. \A t \in 1 .. n : types[t] = init.tracks[t].type /\ kid(t) # NoKid
    BY <1>4 DEF TypesOf
<1>7. NewInit(s) = IF IsEncrypted(FromScheme)
                   THEN IF IsEncrypted(s) THEN BuiltInit(brands, boxes, n, types, rewritten)
                        ELSE BuiltInit(brands, {}, n, types, stripped)
                   ELSE IF IsEncrypted(s)
                        THEN BuiltInit(brands, init.pssh \union boxes, n, types, injected)
                        ELSE BuiltInit(brands, init.pssh, n, types, same)
  <2> HIDE DEF boxes, brands, types, n, rewritten, injected, stripped, same
  <2> QED BY <1>2, Zenon DEF NewInit
<1>8. CASE IsEncrypted(FromScheme) /\ IsEncrypted(s)
  <2> DEFINE P == {t \in 1 .. n : Protected(init, t)}
  <2>1. PICK m \in P : \A k \in P : m <= k
    <3>1. P \subseteq Nat /\ P # {}
        BY <1>1, <1>3, <1>8
    <3> HIDE DEF P
    <3> QED BY <3>1, LeastNatural
  <2>2. m \in 1 .. n /\ Protected(init, m) /\ \A t \in 1 .. m - 1 : ~Protected(init, t)
      BY <1>1, <2>1
  <2>3. ASSUME NEW t \in 1 .. n
        PROVE  /\ EntryWellFormed(rewritten[t])
               /\ rewritten[t].sinf.present <=> Protected(init, t)
               /\ rewritten[t].sinf.present =>
                      /\ rewritten[t].sinf.schm = s
                      /\ rewritten[t].sinf.tenc.kid = KidForTrack(mapping, types[t])
                      /\ rewritten[t].sinf.tenc = TargetTenc(KidForTrack(mapping, types[t]), s)
    <3> DEFINE entry == EntryOf(init, t)
               k == kid(t)
    <3>1. rewritten[t] = RewriteSampleEntry(entry, k, s) /\ EntryWellFormed(entry) /\ k # NoKid
        BY <1>5, <1>6 DEF RewrittenEntries
    <3>2. Protected(init, t) <=> entry.sinf.present
        BY DEF Protected
    <3> HIDE DEF rewritten, entry, k
    <3>3. LET new == RewriteSampleEntry(entry, k, s)
          IN  /\ EntryWellFormed(new)
              /\ new.sinf.present <=> entry.sinf.present
              /\ entry.sinf.present => new.sinf.schm = s /\ new.sinf.tenc.kid = k
                                       /\ new.sinf.tenc = TargetTenc(k, s)
        BY <3>1, RewrittenEntry
    <3> QED BY <1>6, <3>1, <3>2, <3>3 DEF k
  <2>4. KidForTrack(mapping, types[m]) = PrimaryKid(mapping)
      BY <1>4, <1>6, <2>2
  <2>5. rewritten[m].sinf.present /\ \A t \in 1 .. m - 1 : ~rewritten[t].sinf.present
      BY <1>1, <2>2, <2>3
  <2> HIDE DEF rewritten, types, n, boxes, brands, mapping
  <2>6. LET new == BuiltInit(brands, boxes, n, types, rewritten)
        IN  InitWellFormed(new) /\ new.pssh = boxes /\ Says(new, mapping, s)
      BY <1>1, <1>4, <2>2, <2>3, <2>4, <2>5, BuiltSays
  <2> QED BY <1>7, <1>8, <2>6 DEF boxes, mapping
<1>9. CASE ~IsEncrypted(FromScheme) /\ IsEncrypted(s)
  <2>1. \A t \in 1 .. n : ~Protected(init, t)
      BY <1>3, <1>9
  <2>2. init.pssh = {}
      BY <1>1, <2>1 DEF InitWellFormed, Protected, EntryOf
  <2>3. ASSUME NEW t \in 1 .. n PROVE EntryOf(init, t).format \in VideoFormats \union AudioFormats
    <3> DEFINE f == EntryOf(init, t).format
    <3>1. f \in VideoFormats \union AudioFormats \union TextFormats
        BY <1>5, <2>1, EntryKinds DEF Protected
    <3>2. Len(SourceTracks) = n /\ SourceTracks[t].codec = f
        BY <1>1, <2>1, TracksOfInit DEF SourceTracks
    <3>3. CodecAllows(f, s)
        BY <3>2 DEF ValidRequest
    <3> QED BY <1>9, <3>1, <3>3 DEF CodecAllows
  <2>4. ASSUME NEW t \in 1 .. n
        PROVE  /\ EntryWellFormed(injected[t]) /\ injected[t].sinf.present
               /\ injected[t].sinf.schm = s /\ injected[t].sinf.tenc.kid = KidForTrack(mapping, types[t])
               /\ injected[t].sinf.tenc = TargetTenc(KidForTrack(mapping, types[t]), s)
    <3> DEFINE entry == EntryOf(init, t)
               k == kid(t)
    <3>1. injected[t] = InjectProtection(entry, k, s) /\ k # NoKid
          /\ entry.format \in VideoFormats \union AudioFormats
        BY <1>6, <2>3 DEF InjectedEntries
    <3> HIDE DEF injected, entry, k
    <3>2. LET new == InjectProtection(entry, k, s)
          IN  /\ EntryWellFormed(new)
              /\ new.sinf.present /\ new.sinf.schm = s /\ new.sinf.tenc.kid = k
              /\ new.sinf.tenc = TargetTenc(k, s)
        BY <3>1, InjectedEntry
    <3> QED BY <1>6, <3>1, <3>2 DEF k
  <2>5. KidForTrack(mapping, types[1]) = PrimaryKid(mapping)
      BY <1>4, <2>1, Zenon
  <2>6. 1 \in 1 .. n /\ injected[1].sinf.present /\ \A t \in 1 .. 1 - 1 : ~injected[t].sinf.present
      BY <1>1, <2>4
  <2> HIDE DEF injected, types, n, boxes, brands, mapping
  <2>7. LET new == BuiltInit(brands, boxes, n, types, injected)
        IN  InitWellFormed(new) /\ new.pssh = boxes /\ Says(new, mapping, s)
      BY <1>1, <1>4, <2>4, <2>5, <2>6, BuiltSays, Zenon
  <2>8. init.pssh \union boxes = boxes
      BY <2>2
  <2> QED BY <1>7, <1>9, <2>7, <2>8 DEF boxes, mapping
<1>10. CASE IsEncrypted(FromScheme) /\ ~IsEncrypted(s)
  <2>1. \A t \in 1 .. n : EntryWellFormed(stripped[t]) /\ ~stripped[t].sinf.present
      BY <1>5, StrippedEntry DEF StrippedEntries
  <2> DEFINE new == BuiltInit(brands, {}, n, types, stripped)
  <2>2. InitWellFormed(new) /\ HasTracks(new, n, types, stripped)
    <3> HIDE DEF stripped, types, n, brands
    <3> QED BY <1>1, <2>1, BuiltWellFormed
  <2> HIDE DEF new, stripped, n
  <2>3. \A t \in 1 .. Len(new.tracks) : ~Protected(new, t)
      BY <2>1, <2>2 DEF HasTracks, Protected
  <2>4. ~ParseProtectionInfo(new).present
      BY <2>2, <2>3, InfoOfInit DEF NoSinf
  <2> QED BY <1>7, <1>10, <2>2, <2>4 DEF new, stripped
<1>11. CASE ~IsEncrypted(FromScheme) /\ ~IsEncrypted(s)
  <2>1. \A t \in 1 .. n : ~Protected(init, t)
      BY <1>3, <1>11
  <2>2. \A t \in 1 .. n : EntryWellFormed(same[t]) /\ ~same[t].sinf.present
      BY <1>5, <2>1 DEF Protected, SameEntries
  <2>3. init.pssh = {}
      BY <1>1, <2>1 DEF InitWellFormed, Protected, EntryOf
  <2> DEFINE new == BuiltInit(brands, {}, n, types, same)
  <2>4. InitWellFormed(new) /\ HasTracks(new, n, types, same)
    <3> HIDE DEF same, types, n, brands
    <3> QED BY <1>1, <2>2, BuiltWellFormed
  <2>5. NewInit(s) = new
      BY <1>7, <1>11, <2>3
  <2> HIDE DEF new, same, n
  <2>6. \A t \in 1 .. Len(new.tracks) : ~Protected(new, t)
      BY <2>2, <2>4 DEF HasTracks, Protected
  <2>7. ~ParseProtectionInfo(new).present
      BY <2>4, <2>6, InfoOfInit DEF NoSinf
  <2> QED BY <1>11, <2>4, <2>5, <2>7
<1> QED BY <1>8, <1>9, <1>10, <1>11

-----------------------------------------------------------------------------
(* Keys: the parser of the key server's answer *)

Run(p, document) == Reading(ParseEvent, p, document)

\* The states of the parser, one for each event that was read.
IsRun(f, p, document) ==
    /\ DOMAIN f = 0 .. Len(document) /\ f[0] = p
    /\ \A i \in 1 .. Len(document) : f[i] = ParseEvent(f[i - 1], document[i])

\* The parser has a run over every document.
LEMMA RunExists ==
    ASSUME NEW document, Len(document) \in Nat, NEW p
    PROVE  \E f : IsRun(f, p, document)
<1> DEFINE N == Len(document)
           Upto(f, n) == /\ DOMAIN f = 0 .. n /\ f[0] = p
                         /\ \A i \in 1 .. n : f[i] = ParseEvent(f[i - 1], document[i])
           T == {n \in 0 .. N : \E f : Upto(f, n)}
<1>1. 0 \in T
  <2> DEFINE g == [i \in 0 .. 0 |-> p]
  <2>1. Upto(g, 0)
      OBVIOUS
  <2> HIDE DEF g
  <2>2. 0 \in 0 .. N
      OBVIOUS
  <2> QED BY <2>1, <2>2
<1>2. ASSUME NEW n \in 0 .. N, n < N, n \in T PROVE n + 1 \in T
  <2>1. PICK f : Upto(f, n)
      BY <1>2
  <2> DEFINE last == ParseEvent(f[n], document[n + 1])
             g == [i \in 0 .. n + 1 |-> IF i = n + 1 THEN last ELSE f[i]]
  <2>2. n \in Nat /\ n + 1 \in 0 .. N
      BY <1>2
  <2> HIDE DEF last
  <2>3. DOMAIN g = 0 .. n + 1 /\ g[0] = p /\ g[n + 1] = last
      BY <2>1, <2>2
  <2>4. ASSUME NEW k \in 1 .. n + 1 PROVE g[k] = ParseEvent(g[k - 1], document[k])
    <3>1. CASE k = n + 1
      <4>1. g[k - 1] = f[n] /\ g[k] = last
          BY <2>2, <3>1
      <4> QED BY <2>2, <3>1, <4>1 DEF last
    <3>2. CASE k # n + 1
      <4>1. k \in 1 .. n /\ g[k] = f[k] /\ g[k - 1] = f[k - 1]
          BY <2>2, <3>2
      <4> QED BY <2>1, <4>1
    <3> QED BY <3>1, <3>2
  <2> HIDE DEF g
  <2>5. Upto(g, n + 1)
      BY <2>3, <2>4
  <2> QED BY <2>2, <2>5
<1>3. N \in T
  <2> HIDE DEF T, N
  <2>1. \A n \in 0 .. N : n < N /\ n \in T => n + 1 \in T
      BY <1>2
  <2>2. \A n \in 0 .. N : n \in T
      BY <1>1, <2>1, CountUp, Zenon DEF N
  <2> QED BY <2>2 DEF N
<1> QED BY <1>3 DEF IsRun

\* What the document is read to is the last of them.
LEMMA RunIsLast ==
    ASSUME NEW document, Len(document) \in Nat, NEW p, NEW f, IsRun(f, p, document)
    PROVE  Run(p, document) = f[Len(document)]
<1> DEFINE after == CHOOSE g : g = [i \in 0 .. Len(document) |->
                        IF i = 0 THEN p ELSE ParseEvent(g[i - 1], document[i])]
<1>1. f = [i \in 0 .. Len(document) |-> IF i = 0 THEN p ELSE ParseEvent(f[i - 1], document[i])]
  <2> DEFINE r(i) == IF i = 0 THEN p ELSE ParseEvent(f[i - 1], document[i])
  <2>1. f = [i \in 0 .. Len(document) |-> f[i]]
      BY DEF IsRun
  <2>2. ASSUME NEW i \in 0 .. Len(document) PROVE f[i] = r(i)
    <3>1. i = 0 \/ i \in 1 .. Len(document)
        OBVIOUS
    <3> QED BY <3>1 DEF IsRun
  <2> HIDE DEF r
  <2>3. f = [i \in 0 .. Len(document) |-> r(i)]
      BY <2>1, <2>2
  <2> QED BY <2>3 DEF r
<1>2. after = [i \in 0 .. Len(document) |->
                  IF i = 0 THEN p ELSE ParseEvent(after[i - 1], document[i])]
    BY <1>1
<1> HIDE DEF after
<1> DEFINE T == {k \in 0 .. Len(document) : after[k] = f[k]}
<1>3. 0 \in T
    BY <1>2 DEF IsRun
<1>4. ASSUME NEW k \in 0 .. Len(document), k < Len(document), k \in T PROVE k + 1 \in T
  <2>1. k + 1 \in 0 .. Len(document) /\ k + 1 # 0 /\ (k + 1) - 1 = k
        /\ k + 1 \in 1 .. Len(document)
      BY <1>4
  <2>2. after[k + 1] = ParseEvent(after[k], document[k + 1])
      BY <1>2, <2>1
  <2>3. f[k + 1] = ParseEvent(f[k], document[k + 1])
      BY <2>1 DEF IsRun
  <2>4. after[k] = f[k]
      BY <1>4
  <2> QED BY <2>1, <2>2, <2>3, <2>4
<1>5. Len(document) \in T
  <2> HIDE DEF T
  <2>1. \A k \in 0 .. Len(document) : k < Len(document) /\ k \in T => k + 1 \in T
      BY <1>4
  <2>2. \A k \in 0 .. Len(document) : k \in T
      BY <1>3, <2>1, CountUp, Zenon
  <2> QED BY <2>2
<1>6. after[Len(document)] = f[Len(document)]
    BY <1>5
<1> QED BY <1>6 DEF Run, Reading, after

\* A document of no events leaves the parser as it is.
LEMMA RunOfEmpty == ASSUME NEW p PROVE Run(p, <<>>) = p
<1>1. Len(<<>>) = 0
    OBVIOUS
<1>2. PICK f : IsRun(f, p, <<>>)
    BY <1>1, RunExists
<1> QED BY <1>1, <1>2, RunIsLast DEF IsRun

\* A further event is parsed in the state the parser was left in.
LEMMA RunOfAppend ==
    ASSUME NEW S, NEW d \in Seq(S), NEW e \in S, NEW p
    PROVE  Run(p, Append(d, e)) = ParseEvent(Run(p, d), e)
<1> DEFINE r == Append(d, e)
           n == Len(d)
<1>1. /\ n \in Nat /\ Len(r) = n + 1 /\ Len(r) \in Nat /\ r[n + 1] = e
      /\ \A i \in 1 .. n : r[i] = d[i]
    OBVIOUS
<1> HIDE DEF r
<1>2. PICK f : IsRun(f, p, r)
    BY <1>1, RunExists
<1> DEFINE g == [i \in 0 .. n |-> f[i]]
<1>3. IsRun(g, p, d)
    BY <1>1, <1>2 DEF IsRun
<1>4. Run(p, d) = f[n] /\ Run(p, r) = f[n + 1]
  <2>1. Run(p, d) = g[n]
    <3> HIDE DEF g
    <3> QED BY <1>1, <1>3, RunIsLast
  <2>2. Run(p, r) = f[n + 1]
      BY <1>1, <1>2, RunIsLast
  <2> QED BY <1>1, <2>1, <2>2
<1>5. f[n + 1] = ParseEvent(f[n], e)
    BY <1>1, <1>2 DEF IsRun
<1> QED BY <1>4, <1>5 DEF r

\* Of two documents in a row the second is read from where the first ends.
LEMMA RunOfJoined ==
    ASSUME NEW S, NEW a \in Seq(S), NEW b \in Seq(S), NEW p
    PROVE  Run(p, Joined(a, b)) = Run(Run(p, a), b)
<1> DEFINE T == {c \in Seq(S) : Run(p, Joined(a, c)) = Run(Run(p, a), c)}
<1>1. <<>> \in T
  <2>1. Joined(a, <<>>) = a /\ <<>> \in Seq(S)
      BY DEF Joined
  <2> QED BY <2>1, RunOfEmpty
<1>2. ASSUME NEW c \in Seq(S), NEW e \in S, c \in T PROVE Append(c, e) \in T
  <2> DEFINE r == Append(c, e)
             q == Joined(a, c)
  <2>1. r \in Seq(S)
      OBVIOUS
  <2>2. Joined(a, r) = Append(q, e)
    <3>1. AppendsToSecond(a, c, e)
        BY AppendToConcat, Zenon
    <3> QED BY <3>1, Zenon DEF AppendsToSecond, Joined
  <2>3. q \in Seq(S)
      BY JoinedType, Zenon
  <2> HIDE DEF q
  <2>4. Run(p, Append(q, e)) = ParseEvent(Run(p, q), e)
      BY <2>3, RunOfAppend
  <2>5. Run(Run(p, a), r) = ParseEvent(Run(Run(p, a), c), e)
      BY RunOfAppend
  <2>6. Run(p, q) = Run(Run(p, a), c)
      BY <1>2 DEF q
  <2> HIDE DEF r
  <2>7. r \in T
      BY <2>1, <2>2, <2>4, <2>5, <2>6
  <2> QED BY <2>7 DEF r
<1>3. b \in T
  <2> HIDE DEF T
  <2> QED BY <1>1, <1>2, ListInduction
<1> QED BY <1>3

\* The parser over three events, step by step.
LEMMA RunOfThree ==
    ASSUME NEW p, NEW a, NEW b, NEW c
    PROVE  Run(p, <<a, b, c>>) = ParseEvent(ParseEvent(ParseEvent(p, a), b), c)
<1> DEFINE d == <<a, b, c>>
<1>1. Len(d) = 3 /\ d[1] = a /\ d[2] = b /\ d[3] = c
    OBVIOUS
<1> HIDE DEF d
<1>2. PICK f : IsRun(f, p, d)
    BY <1>1, RunExists
<1>3. f[0] = p /\ f[1] = ParseEvent(f[0], a) /\ f[2] = ParseEvent(f[1], b)
      /\ f[3] = ParseEvent(f[2], c)
  <2>1. 1 \in 1 .. Len(d) /\ 2 \in 1 .. Len(d) /\ 3 \in 1 .. Len(d)
      BY <1>1
  <2> QED BY <1>1, <1>2, <2>1 DEF IsRun
<1> QED BY <1>1, <1>2, <1>3, RunIsLast DEF d

\* The parser over one event.
LEMMA RunOfOne == ASSUME NEW p, NEW a PROVE Run(p, <<a>>) = ParseEvent(p, a)
<1> DEFINE d == <<a>>
<1>1. Len(d) = 1 /\ d[1] = a
    OBVIOUS
<1> HIDE DEF d
<1>2. PICK f : IsRun(f, p, d)
    BY <1>1, RunExists
<1>3. f[0] = p /\ f[1] = ParseEvent(f[0], a)
    BY <1>1, <1>2 DEF IsRun
<1> QED BY <1>1, <1>2, <1>3, RunIsLast DEF d

\* The events of an answer about key ids K and systems S, and the states the
\* parser can be in.
EventNames == {"ContentKey", "DRMSystem", "PlainValue", "PSSH", "ContentProtectionData"}
TextsOf(K) == K \union {"pssh", "data"}
EventsOf(K, S) ==
    {e \in [kind : {"start", "empty", "text", "end"}, name : EventNames \union {Unset},
            kid : K \union {Unset}, system : S \union {Unset}, text : TextsOf(K) \union {Unset}] :
        IF e.kind = "text" THEN e.text \in TextsOf(K) ELSE e.name \in EventNames}

KeysOf(K) == Seq([kid : K, key : TextsOf(K)])
SystemsOf(K, S) ==
    Seq([system : S, kid : K, pssh : TextsOf(K), data : TextsOf(K) \union {Unset}])
ParsersOf(K, S) ==
    [kid : K \union {Unset}, system : S \union {Unset},
     inValue : BOOLEAN, inPssh : BOOLEAN, inData : BOOLEAN,
     keys : KeysOf(K), systems : SystemsOf(K, S)]

\* An event changes one field of the parser.
LEMMA ParseKeepsType ==
    ASSUME NEW K, NEW S, NEW p \in ParsersOf(K, S), NEW e \in EventsOf(K, S)
    PROVE  ParseEvent(p, e) \in ParsersOf(K, S)
<1> DEFINE P == ParsersOf(K, S)
<1>1. /\ e.kid \in K \union {Unset} /\ e.system \in S \union {Unset}
      /\ e.kind \in {"start", "empty", "text", "end"}
      /\ e.kind = "text" => e.text \in TextsOf(K)
      /\ e.kind # "text" => e.name \in EventNames
    BY DEF EventsOf
<1>2. CASE e.kind \in {"start", "empty"}
  <2>1. ParseEvent(p, e) = Opened(p, e) /\ e.name \in EventNames
      BY <1>1, <1>2 DEF ParseEvent
  <2>2. Opened(p, e) \in P
      BY <1>1, <2>1 DEF Opened, ParsersOf, EventNames
  <2> QED BY <2>1, <2>2
<1>3. CASE e.kind = "end"
  <2>1. ParseEvent(p, e) = Closed(p, e) /\ e.name \in EventNames
      BY <1>1, <1>3 DEF ParseEvent
  <2>2. Closed(p, e) \in P
      BY <1>1, <2>1 DEF Closed, ParsersOf, EventNames
  <2> QED BY <2>1, <2>2
<1>4. CASE e.kind = "text"
  <2> DEFINE t == e.text
  <2>1. ParseEvent(p, e) = ReadText(p, t) /\ t \in TextsOf(K)
      BY <1>1, <1>4 DEF ParseEvent
  <2> HIDE DEF t
  <2>2. p.kid # Unset => p.kid \in K
      BY DEF ParsersOf
  <2>3. p.system # Unset => p.system \in S
      BY DEF ParsersOf
  <2>4. p.systems \in SystemsOf(K, S) /\ p.keys \in KeysOf(K)
      BY DEF ParsersOf
  <2>5. ASSUME NEW d \in SystemAt(p)
        PROVE  /\ [p EXCEPT !.systems[d].pssh = t] \in P
               /\ [p EXCEPT !.systems[d].data = t] \in P
    <3> DEFINE x == p.systems
               a == [x EXCEPT ![d].pssh = t]
               b == [x EXCEPT ![d].data = t]
    <3>1. d \in 1 .. Len(x) /\ x \in SystemsOf(K, S)
        BY <2>4 DEF SystemAt
    <3> HIDE DEF x
    <3>2. a \in SystemsOf(K, S) /\ b \in SystemsOf(K, S)
      <4> DEFINE R == [system : S, kid : K, pssh : TextsOf(K), data : TextsOf(K) \union {Unset}]
                 y == [x[d] EXCEPT !.pssh = t]
                 z == [x[d] EXCEPT !.data = t]
      <4>1. x \in Seq(R)
          BY <3>1 DEF SystemsOf
      <4>2. x[d] \in R
        <5> HIDE DEF R
        <5> QED BY <3>1, <4>1
      <4>3. y \in R /\ z \in R
          BY <2>1, <4>2
      <4> HIDE DEF R, y, z
      <4>4. [x EXCEPT ![d] = y] \in Seq(R) /\ [x EXCEPT ![d] = z] \in Seq(R)
          BY <3>1, <4>1, <4>3
      <4> QED BY <4>4 DEF SystemsOf, R, y, z
    <3> HIDE DEF a, b
    <3>3. [p EXCEPT !.systems = a] \in P /\ [p EXCEPT !.systems = b] \in P
        BY <3>2 DEF ParsersOf
    <3> QED BY <3>3 DEF a, b, x
  <2>6. p.kid # Unset /\ p.system # Unset => WithPssh(p, t) \in P
    <3>1. SUFFICES ASSUME p.kid # Unset, p.system # Unset PROVE WithPssh(p, t) \in P
        OBVIOUS
    <3>2. CASE SystemAt(p) # {}
      <4>1. PICK d \in SystemAt(p) : WithPssh(p, t) = [p EXCEPT !.systems[d].pssh = t]
          BY <3>2 DEF WithPssh
      <4> QED BY <2>5, <4>1
    <3>3. CASE SystemAt(p) = {}
      <4> DEFINE y == [system |-> p.system, kid |-> p.kid, pssh |-> t, data |-> Unset]
                 z == Append(p.systems, y)
      <4>1. z \in SystemsOf(K, S)
        <5>1. y \in [system : S, kid : K, pssh : TextsOf(K), data : TextsOf(K) \union {Unset}]
            BY <2>1, <2>2, <2>3, <3>1
        <5> HIDE DEF y
        <5> QED BY <2>4, <5>1 DEF SystemsOf
      <4>2. WithPssh(p, t) = [p EXCEPT !.systems = z]
          BY <3>3 DEF WithPssh
      <4> HIDE DEF z
      <4> QED BY <4>1, <4>2 DEF ParsersOf
    <3> QED BY <3>2, <3>3
  <2>7. WithData(p, t) \in P
    <3>1. CASE SystemAt(p) # {}
      <4>1. PICK d \in SystemAt(p) : WithData(p, t) = [p EXCEPT !.systems[d].data = t]
          BY <3>1 DEF WithData
      <4> QED BY <2>5, <4>1
    <3>2. CASE SystemAt(p) = {}
        BY <3>2 DEF WithData
    <3> QED BY <3>1, <3>2
  <2>8. p.kid # Unset => [p EXCEPT !.keys = Append(@, [kid |-> p.kid, key |-> t])] \in P
    <3> DEFINE y == [kid |-> p.kid, key |-> t]
               z == Append(p.keys, y)
    <3>1. SUFFICES ASSUME p.kid # Unset PROVE [p EXCEPT !.keys = z] \in P
        OBVIOUS
    <3>2. y \in [kid : K, key : TextsOf(K)]
        BY <2>1, <2>2, <3>1
    <3>3. z \in KeysOf(K)
      <4> HIDE DEF y
      <4> QED BY <2>4, <3>2 DEF KeysOf
    <3> HIDE DEF z
    <3> QED BY <3>3 DEF ParsersOf
  <2>9. ReadText(p, t) \in P
    <3>1. p.inValue \in BOOLEAN /\ p.inPssh \in BOOLEAN /\ p.inData \in BOOLEAN
        BY DEF ParsersOf
    <3> DEFINE q == [p EXCEPT !.keys = Append(@, [kid |-> p.kid, key |-> t])]
    <3>2. \/ ReadText(p, t) = p
          \/ p.kid # Unset /\ ReadText(p, t) = q
          \/ p.kid # Unset /\ p.system # Unset /\ ReadText(p, t) = WithPssh(p, t)
          \/ ReadText(p, t) = WithData(p, t)
      <4> HIDE DEF P
      <4> QED BY <3>1, Zenon DEF ReadText
    <3> HIDE DEF q
    <3> QED BY <2>6, <2>7, <2>8, <3>2 DEF q
  <2> QED BY <2>1, <2>9
<1> QED BY <1>1, <1>2, <1>3, <1>4

\* Parsing a document of the server's keeps the type of the parser.
LEMMA RunKeepsType ==
    ASSUME NEW K, NEW S, NEW p \in ParsersOf(K, S), NEW d \in Seq(EventsOf(K, S))
    PROVE  Run(p, d) \in ParsersOf(K, S)
<1> DEFINE E == EventsOf(K, S)
           T == {c \in Seq(E) : Run(p, c) \in ParsersOf(K, S)}
<1>1. <<>> \in T
    BY RunOfEmpty
<1>2. ASSUME NEW c \in Seq(E), NEW e \in E, c \in T PROVE Append(c, e) \in T
  <2> HIDE DEF E
  <2>1. Run(p, Append(c, e)) = ParseEvent(Run(p, c), e)
      BY RunOfAppend
  <2>2. Run(p, c) \in ParsersOf(K, S)
      BY <1>2
  <2>3. ParseEvent(Run(p, c), e) \in ParsersOf(K, S)
    <3> DEFINE q == Run(p, c)
    <3> HIDE DEF q
    <3> QED BY <2>2, ParseKeepsType DEF q, E
  <2> QED BY <2>1, <2>3
<1>3. d \in T
  <2> HIDE DEF T, E
  <2> QED BY <1>1, <1>2, ListInduction DEF E
<1> QED BY <1>3

\* The documents of the server are made of such events.
LEMMA ElementEvents ==
    ASSUME NEW K, NEW S, NEW name \in EventNames, NEW text \in TextsOf(K),
           NEW form \in {"filled", "empty", "absent"}
    PROVE  Element(name, text, form) \in Seq(EventsOf(K, S))
<1> DEFINE E == EventsOf(K, S)
<1>1. Event("start", name) \in E /\ Event("empty", name) \in E /\ Event("end", name) \in E
    BY DEF Event, EventsOf
<1>2. Text(text) \in E
    BY DEF Text, Event, EventsOf, TextsOf
<1>3. \A a, b, c \in E : <<>> \in Seq(E) /\ <<a>> \in Seq(E) /\ <<a, b, c>> \in Seq(E)
  <2> HIDE DEF E
  <2> QED OBVIOUS
<1>4. \/ Element(name, text, form) = <<>>
      \/ Element(name, text, form) = <<Event("empty", name)>>
      \/ Element(name, text, form) = <<Event("start", name), Text(text), Event("end", name)>>
    BY Zenon DEF Element
<1> HIDE DEF E
<1>5. Element(name, text, form) \in Seq(E)
    BY <1>1, <1>2, <1>3, <1>4, Zenon
<1> QED BY <1>5 DEF E

\* A ContentKey element is a list of events of the server's.
LEMMA KeyEvents ==
    ASSUME NEW K, NEW S, NEW kid \in K
    PROVE  ContentKeyEvents(kid) \in Seq(EventsOf(K, S))
<1> DEFINE E == EventsOf(K, S)
<1>1. Open("ContentKey", kid, Unset) \in E
    BY DEF Open, Event, EventsOf, EventNames
<1>2. Event("start", "PlainValue") \in E /\ Event("end", "PlainValue") \in E
      /\ Event("end", "ContentKey") \in E
    BY DEF Event, EventsOf, EventNames
<1>3. Text(kid) \in E
    BY DEF Text, Event, EventsOf, TextsOf
<1>4. \A a, b, c, d, e \in E : <<a, b, c, d, e>> \in Seq(E)
  <2> HIDE DEF E
  <2> QED OBVIOUS
<1> HIDE DEF E
<1>5. ContentKeyEvents(kid) \in Seq(E)
    BY <1>1, <1>2, <1>3, <1>4, Zenon DEF ContentKeyEvents
<1> QED BY <1>5 DEF E

\* The four pieces of a DRMSystem element, joined.
SystemPieces(system, kid, pssh, data) ==
    Joined(Joined(Joined(<<Open("DRMSystem", kid, system)>>, Element("PSSH", "pssh", pssh)),
                  Element("ContentProtectionData", "data", data)),
           <<Event("end", "DRMSystem")>>)

\* So is a DRMSystem element, in the four pieces it is written in.
LEMMA SystemEvents ==
    ASSUME NEW K, NEW S, NEW kid \in K, NEW system \in S,
           NEW pssh \in {"filled", "empty", "absent"}, NEW data \in {"filled", "empty", "absent"}
    PROVE  LET E == EventsOf(K, S)
           IN  /\ DrmSystemEvents(system, kid, pssh, data) = SystemPieces(system, kid, pssh, data)
               /\ Element("PSSH", "pssh", pssh) \in Seq(E)
               /\ Element("ContentProtectionData", "data", data) \in Seq(E)
               /\ Open("DRMSystem", kid, system) \in E /\ Event("end", "DRMSystem") \in E
               /\ DrmSystemEvents(system, kid, pssh, data) \in Seq(E)
<1> DEFINE E == EventsOf(K, S)
           a == <<Open("DRMSystem", kid, system)>>
           b == Element("PSSH", "pssh", pssh)
           c == Element("ContentProtectionData", "data", data)
           d == <<Event("end", "DRMSystem")>>
<1>1. Open("DRMSystem", kid, system) \in E
    BY DEF Open, Event, EventsOf, EventNames
<1>2. Event("end", "DRMSystem") \in E
    BY DEF Event, EventsOf, EventNames
<1>3. b \in Seq(E) /\ c \in Seq(E)
  <2>1. "PSSH" \in EventNames /\ "ContentProtectionData" \in EventNames
        /\ "pssh" \in TextsOf(K) /\ "data" \in TextsOf(K)
      BY DEF EventNames, TextsOf
  <2> QED BY <2>1, ElementEvents
<1>4. DrmSystemEvents(system, kid, pssh, data) = Joined(Joined(Joined(a, b), c), d)
    BY Zenon DEF DrmSystemEvents, Joined
<1>5. a \in Seq(E) /\ d \in Seq(E)
  <2>1. \A x \in E : <<x>> \in Seq(E)
    <3> HIDE DEF E
    <3> QED OBVIOUS
  <2> HIDE DEF E
  <2> QED BY <1>1, <1>2, <2>1, Zenon
<1> HIDE DEF E, a, b, c, d
<1>6. Joined(Joined(Joined(a, b), c), d) \in Seq(E)
  <2>1. Joined(a, b) \in Seq(E)
      BY <1>3, <1>5, JoinedType, Zenon
  <2>2. Joined(Joined(a, b), c) \in Seq(E)
      BY <1>3, <2>1, JoinedType, Zenon
  <2> QED BY <1>5, <2>2, JoinedType, Zenon
<1>7. SystemPieces(system, kid, pssh, data) = Joined(Joined(Joined(a, b), c), d)
    BY Zenon DEF SystemPieces, a, b, c, d
<1> QED BY <1>1, <1>2, <1>3, <1>4, <1>6, <1>7 DEF E, b, c

\* A document of the server: its two lists of elements, and their pieces.
LEMMA DocumentEvents ==
    ASSUME NEW kids, IsList(kids),
           NEW pssh \in {"filled", "empty", "absent"}, NEW data \in {"filled", "empty", "absent"}
    PROVE  LET E == EventsOf(Range(kids), Range(Systems))
               keys == [i \in 1 .. Len(kids) |-> ContentKeyEvents(kids[i])]
               ofSystem(s) == [i \in 1 .. Len(kids) |->
                                  DrmSystemEvents(Systems[s], kids[i], pssh, data)]
               systems == [s \in 1 .. Len(Systems) |-> FlattenSeq(ofSystem(s))]
           IN  /\ keys \in Seq(Seq(E)) /\ systems \in Seq(Seq(E))
               /\ \A s \in 1 .. Len(Systems) : ofSystem(s) \in Seq(Seq(E))
               /\ CpixDocument(kids, pssh, data) = Joined(FlattenSeq(keys), FlattenSeq(systems))
               /\ CpixDocument(kids, pssh, data) \in Seq(E)
<1> DEFINE K == Range(kids)
           S == Range(Systems)
           E == EventsOf(K, S)
           keys == [i \in 1 .. Len(kids) |-> ContentKeyEvents(kids[i])]
           ofSystem(s) == [i \in 1 .. Len(kids) |->
                              DrmSystemEvents(Systems[s], kids[i], pssh, data)]
           systems == [s \in 1 .. Len(Systems) |-> FlattenSeq(ofSystem(s))]
<1>1. Len(kids) \in Nat /\ \A i \in 1 .. Len(kids) : kids[i] \in K
    BY DEF IsList
<1>2. Len(Systems) \in Nat /\ \A s \in 1 .. Len(Systems) : Systems[s] \in S
    BY SystemsAssumption DEF IsList
<1> HIDE DEF K, S
<1>3. \A i \in 1 .. Len(kids) : ContentKeyEvents(kids[i]) \in Seq(E)
    BY <1>1, KeyEvents
<1>4. \A s \in 1 .. Len(Systems), i \in 1 .. Len(kids) :
          DrmSystemEvents(Systems[s], kids[i], pssh, data) \in Seq(E)
    BY <1>1, <1>2, SystemEvents
<1> HIDE DEF E
<1>5. keys \in Seq(Seq(E)) /\ \A s \in 1 .. Len(Systems) : ofSystem(s) \in Seq(Seq(E))
    BY <1>1, <1>3, <1>4
<1> HIDE DEF ofSystem
<1>6. \A s \in 1 .. Len(Systems) : FlattenSeq(ofSystem(s)) \in Seq(E)
    BY <1>5, FlattenType
<1>7. systems \in Seq(Seq(E))
    BY <1>2, <1>6
<1>8. FlattenSeq(keys) \in Seq(E) /\ FlattenSeq(systems) \in Seq(E)
  <2> HIDE DEF keys, systems
  <2> QED BY <1>5, <1>7, FlattenType
<1>9. CpixDocument(kids, pssh, data) = Joined(FlattenSeq(keys), FlattenSeq(systems))
    BY Zenon DEF CpixDocument, Joined, ofSystem
<1>10. CpixDocument(kids, pssh, data) \in Seq(E)
  <2> HIDE DEF keys, systems
  <2> QED BY <1>8, <1>9, JoinedType, Zenon
<1> QED BY <1>5, <1>7, <1>9, <1>10 DEF E, K, S, ofSystem

\* The parser outside of a value and of a PSSH, with the keys it had and only
\* what PSSH elements held.
Outside(q, keys) ==
    /\ ~q.inValue /\ ~q.inPssh /\ q.keys = keys
    /\ \A d \in 1 .. Len(q.systems) : q.systems[d].pssh = "pssh" /\ q.systems[d].kid # Unset

\* It stays there over the tags of DRMSystem and ContentProtectionData and over texts.
LEMMA OutsideTags ==
    ASSUME NEW K, NEW S, NEW q \in ParsersOf(K, S), NEW keys, Outside(q, keys), NEW e,
           \/ e.kind = "text"
           \/ e.kind \in {"start", "empty", "end"}
              /\ e.name \in {"DRMSystem", "ContentProtectionData"}
    PROVE  Outside(ParseEvent(q, e), keys)
<1>1. CASE e.kind \in {"start", "empty"} /\ e.name \in {"DRMSystem", "ContentProtectionData"}
  <2>1. ParseEvent(q, e) = Opened(q, e)
      BY <1>1 DEF ParseEvent
  <2>2. Outside(Opened(q, e), keys)
      BY <1>1 DEF Opened, Outside, ParsersOf
  <2> QED BY <2>1, <2>2
<1>2. CASE e.kind = "end" /\ e.name \in {"DRMSystem", "ContentProtectionData"}
  <2>1. ParseEvent(q, e) = Closed(q, e)
      BY <1>2 DEF ParseEvent
  <2>2. Outside(Closed(q, e), keys)
      BY <1>2 DEF Closed, Outside, ParsersOf
  <2> QED BY <2>1, <2>2
<1>3. CASE e.kind = "text"
  <2> DEFINE t == e.text
             r == WithData(q, t)
  <2>1. ParseEvent(q, e) = ReadText(q, t)
      BY <1>3 DEF ParseEvent
  <2>2. ReadText(q, t) = q \/ ReadText(q, t) = r
      BY DEF Outside, ReadText
  <2>3. Outside(r, keys)
    <3>1. CASE SystemAt(q) = {}
        BY <3>1 DEF WithData
    <3>2. CASE SystemAt(q) # {}
      <4>1. PICK d \in SystemAt(q) : r = [q EXCEPT !.systems[d].data = t]
          BY <3>2 DEF WithData
      <4> DEFINE x == q.systems
                 y == [x[d] EXCEPT !.data = t]
                 z == [x EXCEPT ![d] = y]
                 R == [system : S, kid : K, pssh : TextsOf(K), data : TextsOf(K) \union {Unset}]
      <4>2. d \in 1 .. Len(x)
          BY DEF SystemAt
      <4>3. x \in Seq(R)
          BY DEF ParsersOf, SystemsOf
      <4>4. x[d] \in R
        <5> HIDE DEF x, R
        <5> QED BY <4>2, <4>3
      <4>5. y.pssh = x[d].pssh /\ y.kid = x[d].kid
          BY <4>4
      <4>6. r = [q EXCEPT !.systems = z]
          BY <4>1
      <4> HIDE DEF y, r, R
      <4>7. Len(z) = Len(x) /\ \A c \in 1 .. Len(x) : z[c] = IF c = d THEN y ELSE x[c]
        <5> HIDE DEF x
        <5> QED BY <4>2, <4>3
      <4> HIDE DEF z
      <4>8. r.inValue = q.inValue /\ r.inPssh = q.inPssh /\ r.keys = q.keys /\ r.systems = z
          BY <4>6 DEF ParsersOf
      <4> QED BY <4>2, <4>5, <4>7, <4>8 DEF Outside
    <3> QED BY <3>1, <3>2
  <2> QED BY <2>1, <2>2, <2>3
<1> QED BY <1>1, <1>2, <1>3

\* A PSSH element with a text is put where it belongs, in the entry of its key
\* id and system, and the parser is outside again.
LEMMA PsshRead ==
    ASSUME NEW K, NEW S, NEW q \in ParsersOf(K, S), NEW keys, Outside(q, keys),
           NEW form \in {"filled", "absent"}
    PROVE  Outside(Run(q, Element("PSSH", "pssh", form)), keys)
<1>1. CASE form = "absent"
  <2>1. Element("PSSH", "pssh", form) = <<>>
      BY <1>1 DEF Element
  <2> QED BY <2>1, RunOfEmpty
<1>2. CASE form = "filled"
  <2> DEFINE a == Event("start", "PSSH")
             b == Text("pssh")
             c == Event("end", "PSSH")
             q1 == ParseEvent(q, a)
             q2 == ParseEvent(q1, b)
             q3 == ParseEvent(q2, c)
  <2>1. Run(q, Element("PSSH", "pssh", form)) = q3
    <3>1. Element("PSSH", "pssh", form) = <<a, b, c>>
        BY <1>2 DEF Element
    <3> HIDE DEF a, b, c
    <3> QED BY <3>1, RunOfThree
  <2>2. /\ a.kind = "start" /\ a.name = "PSSH" /\ b.kind = "text" /\ b.text = "pssh"
        /\ c.kind = "end" /\ c.name = "PSSH"
      BY DEF Event, Text
  <2>3. a \in EventsOf(K, S) /\ b \in EventsOf(K, S)
      BY DEF Event, Text, EventsOf, EventNames, TextsOf
  <2>4. q1 = [q EXCEPT !.inPssh = TRUE]
      BY <2>2 DEF ParseEvent, Opened
  <2>5. q1 \in ParsersOf(K, S)
      BY <2>3, ParseKeepsType
  <2>6. q2 \in ParsersOf(K, S)
    <3> HIDE DEF q1
    <3> QED BY <2>3, <2>5, ParseKeepsType
  <2>7. q1.inPssh /\ ~q1.inValue /\ q1.keys = keys /\ q1.systems = q.systems
      BY <2>4 DEF Outside, ParsersOf
  <2> HIDE DEF q1, a, b, c
  <2>8. q2 = IF q1.kid = Unset \/ q1.system = Unset THEN q1 ELSE WithPssh(q1, "pssh")
      BY <2>2, <2>7 DEF ParseEvent, ReadText
  <2> HIDE DEF q2
  <2>9. /\ ~q2.inValue /\ q2.keys = keys
        /\ \A d \in 1 .. Len(q2.systems) : q2.systems[d].pssh = "pssh" /\ q2.systems[d].kid # Unset
    <3> DEFINE x == q1.systems
               R == [system : S, kid : K, pssh : TextsOf(K), data : TextsOf(K) \union {Unset}]
    <3>1. \A d \in 1 .. Len(x) : x[d].pssh = "pssh" /\ x[d].kid # Unset
        BY <2>7 DEF Outside
    <3>2. x \in Seq(R)
        BY <2>5 DEF ParsersOf, SystemsOf
    <3>3. CASE q1.kid = Unset \/ q1.system = Unset
        BY <2>7, <2>8, <3>1, <3>3
    <3>4. CASE q1.kid # Unset /\ q1.system # Unset /\ SystemAt(q1) = {}
      <4> DEFINE y == [system |-> q1.system, kid |-> q1.kid, pssh |-> "pssh", data |-> Unset]
                 z == Append(x, y)
      <4>1. q2 = [q1 EXCEPT !.systems = z]
          BY <2>8, <3>4 DEF WithPssh
      <4>2. y.pssh = "pssh" /\ y.kid = q1.kid
          OBVIOUS
      <4> HIDE DEF y, R
      <4>3. Len(z) = Len(x) + 1 /\ Len(x) \in Nat /\ z[Len(x) + 1] = y
            /\ \A m \in 1 .. Len(x) : z[m] = x[m]
        <5> HIDE DEF x
        <5> QED BY <3>2
      <4> HIDE DEF z
      <4>4. q2.inValue = q1.inValue /\ q2.keys = q1.keys /\ q2.systems = z
          BY <2>5, <4>1 DEF ParsersOf
      <4>5. \A m \in 1 .. Len(z) : m \in 1 .. Len(x) \/ m = Len(x) + 1
          BY <4>3
      <4> QED BY <2>7, <3>1, <3>4, <4>2, <4>3, <4>4, <4>5
    <3>5. CASE q1.kid # Unset /\ q1.system # Unset /\ SystemAt(q1) # {}
      <4>1. PICK d \in SystemAt(q1) : q2 = [q1 EXCEPT !.systems[d].pssh = "pssh"]
          BY <2>8, <3>5 DEF WithPssh
      <4> DEFINE y == [x[d] EXCEPT !.pssh = "pssh"]
                 z == [x EXCEPT ![d] = y]
      <4>2. d \in 1 .. Len(x)
          BY DEF SystemAt
      <4>3. x[d] \in R
        <5> HIDE DEF x, R
        <5> QED BY <3>2, <4>2
      <4>4. y.pssh = "pssh" /\ y.kid = x[d].kid
          BY <4>3
      <4>5. q2 = [q1 EXCEPT !.systems = z]
          BY <4>1
      <4> HIDE DEF y, R
      <4>6. Len(z) = Len(x) /\ \A m \in 1 .. Len(x) : z[m] = IF m = d THEN y ELSE x[m]
        <5> HIDE DEF x
        <5> QED BY <3>2, <4>2
      <4> HIDE DEF z
      <4>7. q2.inValue = q1.inValue /\ q2.keys = q1.keys /\ q2.systems = z
          BY <2>5, <4>5 DEF ParsersOf
      <4> QED BY <2>7, <3>1, <4>2, <4>4, <4>6, <4>7
    <3> QED BY <3>3, <3>4, <3>5
  <2>10. q3 = [q2 EXCEPT !.inPssh = FALSE]
      BY <2>2 DEF ParseEvent, Closed
  <2> HIDE DEF q3
  <2>11. q3.inValue = q2.inValue /\ ~q3.inPssh /\ q3.keys = q2.keys /\ q3.systems = q2.systems
      BY <2>6, <2>10 DEF ParsersOf
  <2>12. Outside(q3, keys)
      BY <2>9, <2>11 DEF Outside
  <2> QED BY <2>1, <2>12
<1> QED BY <1>1, <1>2

\* So is a ContentProtectionData element, in any form.
LEMMA DataRead ==
    ASSUME NEW K, NEW S, NEW q \in ParsersOf(K, S), NEW keys, Outside(q, keys),
           NEW form \in {"filled", "empty", "absent"}
    PROVE  Outside(Run(q, Element("ContentProtectionData", "data", form)), keys)
<1> DEFINE name == "ContentProtectionData"
           P == ParsersOf(K, S)
<1>1. CASE form = "absent"
  <2>1. Element(name, "data", form) = <<>>
      BY <1>1 DEF Element
  <2> QED BY <2>1, RunOfEmpty
<1>2. CASE form = "empty"
  <2> DEFINE a == Event("empty", name)
  <2>1. Element(name, "data", form) = <<a>>
      BY <1>2 DEF Element
  <2>2. a.kind = "empty" /\ a.name = name
      BY DEF Event
  <2> HIDE DEF a
  <2>3. Outside(ParseEvent(q, a), keys)
      BY <2>2, OutsideTags
  <2> QED BY <2>1, <2>3, RunOfOne
<1>3. CASE form = "filled"
  <2> DEFINE a == Event("start", name)
             b == Text("data")
             c == Event("end", name)
             q1 == ParseEvent(q, a)
             q2 == ParseEvent(q1, b)
  <2>1. Run(q, Element(name, "data", form)) = ParseEvent(q2, c)
    <3>1. Element(name, "data", form) = <<a, b, c>>
        BY <1>3 DEF Element
    <3> HIDE DEF a, b, c
    <3> QED BY <3>1, RunOfThree
  <2>2. a.kind = "start" /\ a.name = name /\ b.kind = "text" /\ c.kind = "end" /\ c.name = name
      BY DEF Event, Text
  <2>3. a \in EventsOf(K, S) /\ b \in EventsOf(K, S)
      BY DEF Event, Text, EventsOf, EventNames, TextsOf
  <2> HIDE DEF a, b, c
  <2>4. q1 \in P /\ Outside(q1, keys)
      BY <2>2, <2>3, ParseKeepsType, OutsideTags
  <2> HIDE DEF q1
  <2>5. q2 \in P /\ Outside(q2, keys)
      BY <2>2, <2>3, <2>4, ParseKeepsType, OutsideTags
  <2> HIDE DEF q2
  <2>6. Outside(ParseEvent(q2, c), keys)
      BY <2>2, <2>5, OutsideTags
  <2> QED BY <2>1, <2>6
<1> QED BY <1>1, <1>2, <1>3

\* A DRMSystem element adds nothing to the keys, and without empty PSSH
\* elements nothing to the systems but what PSSH elements held.
LEMMA SystemRead ==
    ASSUME NEW K, NEW S, NEW q \in ParsersOf(K, S), NEW keys, Outside(q, keys),
           NEW kid \in K, NEW system \in S,
           NEW pssh \in {"filled", "absent"}, NEW data \in {"filled", "empty", "absent"}
    PROVE  Outside(Run(q, DrmSystemEvents(system, kid, pssh, data)), keys)
<1> DEFINE E == EventsOf(K, S)
           P == ParsersOf(K, S)
           e == Open("DRMSystem", kid, system)
           f == Event("end", "DRMSystem")
           b == Element("PSSH", "pssh", pssh)
           c == Element("ContentProtectionData", "data", data)
           q1 == ParseEvent(q, e)
           q2 == Run(q1, b)
           q3 == Run(q2, c)
           q4 == ParseEvent(q3, f)
<1>1. /\ DrmSystemEvents(system, kid, pssh, data) = SystemPieces(system, kid, pssh, data)
      /\ b \in Seq(E) /\ c \in Seq(E) /\ e \in E /\ f \in E
    BY SystemEvents
<1>2. e.kind = "start" /\ e.name = "DRMSystem" /\ f.kind = "end" /\ f.name = "DRMSystem"
    BY DEF Open, Event
<1>3. SystemPieces(system, kid, pssh, data) = Joined(Joined(Joined(<<e>>, b), c), <<f>>)
    BY Zenon DEF SystemPieces
<1> HIDE DEF e, f, b, c
<1>4. q1 \in P /\ Outside(q1, keys)
    BY <1>1, <1>2, ParseKeepsType, OutsideTags
<1> HIDE DEF q1
<1>5. q2 \in P /\ Outside(q2, keys)
  <2>1. q2 \in P
      BY <1>1, <1>4, RunKeepsType
  <2>2. Outside(Run(q1, Element("PSSH", "pssh", pssh)), keys)
      BY <1>4, PsshRead
  <2> QED BY <2>1, <2>2 DEF b
<1> HIDE DEF q2
<1>6. q3 \in P /\ Outside(q3, keys)
  <2>1. q3 \in P
      BY <1>1, <1>5, RunKeepsType
  <2>2. Outside(Run(q2, Element("ContentProtectionData", "data", data)), keys)
      BY <1>5, DataRead
  <2> QED BY <2>1, <2>2 DEF c
<1> HIDE DEF q3
<1>7. Outside(q4, keys)
    BY <1>2, <1>6, OutsideTags
<1>8. Run(q, Joined(Joined(Joined(<<e>>, b), c), <<f>>)) = q4
  <2>1. <<e>> \in Seq(E) /\ <<f>> \in Seq(E)
    <3>1. \A x \in E : <<x>> \in Seq(E)
      <4> HIDE DEF E
      <4> QED OBVIOUS
    <3> HIDE DEF E
    <3> QED BY <1>1, <3>1, Zenon
  <2> HIDE DEF E
  <2>2. Joined(<<e>>, b) \in Seq(E)
      BY <1>1, <2>1, JoinedType, Zenon
  <2>3. Joined(Joined(<<e>>, b), c) \in Seq(E)
      BY <1>1, <2>2, JoinedType, Zenon
  <2>4. Run(q, Joined(<<e>>, b)) = Run(Run(q, <<e>>), b)
      BY <1>1, <2>1, RunOfJoined
  <2>5. Run(q, Joined(Joined(<<e>>, b), c)) = Run(Run(q, Joined(<<e>>, b)), c)
      BY <1>1, <2>2, RunOfJoined
  <2>6. Run(q, Joined(Joined(Joined(<<e>>, b), c), <<f>>)) =
            Run(Run(q, Joined(Joined(<<e>>, b), c)), <<f>>)
      BY <2>1, <2>3, RunOfJoined
  <2>7. Run(q, <<e>>) = q1
      BY RunOfOne DEF q1
  <2>8. Run(q3, <<f>>) = q4
      BY RunOfOne
  <2> QED BY <2>4, <2>5, <2>6, <2>7, <2>8 DEF q2, q3
<1> QED BY <1>1, <1>3, <1>7, <1>8

\* The parser while it reads keys: no systems yet.
Keyed(q) == ~q.inValue /\ ~q.inPssh /\ q.systems = <<>> /\ SelfKeyed(q.keys)
KeyFor(keys, kid) == \E x \in 1 .. Len(keys) : keys[x].kid = kid

\* What the events of a ContentKey element do to the parser.
LEMMA KeyTags ==
    ASSUME NEW p, NEW e
    PROVE  /\ e.kind = "start" /\ e.name = "ContentKey" =>
                  ParseEvent(p, e) = [p EXCEPT !.kid = e.kid]
           /\ e.kind = "start" /\ e.name = "PlainValue" =>
                  ParseEvent(p, e) = [p EXCEPT !.inValue = TRUE]
           /\ e.kind = "end" /\ e.name = "PlainValue" =>
                  ParseEvent(p, e) = [p EXCEPT !.inValue = FALSE]
           /\ e.kind = "end" /\ e.name = "ContentKey" =>
                  ParseEvent(p, e) = [p EXCEPT !.kid = Unset]
           /\ e.kind = "text" => ParseEvent(p, e) = ReadText(p, e.text)
<1>1. /\ e.kind = "start" => ParseEvent(p, e) = Opened(p, e)
      /\ e.kind = "end" => ParseEvent(p, e) = Closed(p, e)
      /\ e.kind = "text" => ParseEvent(p, e) = ReadText(p, e.text)
    BY DEF ParseEvent
<1>2. /\ e.name = "ContentKey" => Opened(p, e) = [p EXCEPT !.kid = e.kid]
      /\ e.name = "PlainValue" => Opened(p, e) = [p EXCEPT !.inValue = TRUE]
    BY DEF Opened
<1>3. /\ e.name = "ContentKey" => Closed(p, e) = [p EXCEPT !.kid = Unset]
      /\ e.name = "PlainValue" => Closed(p, e) = [p EXCEPT !.inValue = FALSE]
    BY DEF Closed
<1> QED BY <1>1, <1>2, <1>3

\* A ContentKey element with its value is put with the keys.
LEMMA KeyRead ==
    ASSUME NEW K, NEW S, NEW q \in ParsersOf(K, S), Keyed(q), NEW kid \in K
    PROVE  LET new == Run(q, ContentKeyEvents(kid))
           IN  /\ Keyed(new) /\ new \in ParsersOf(K, S)
               /\ kid # Unset => KeyFor(new.keys, kid)
               /\ \A k : KeyFor(q.keys, k) => KeyFor(new.keys, k)
<1> DEFINE P == ParsersOf(K, S)
           a == Open("ContentKey", kid, Unset)
           b == Event("start", "PlainValue")
           c == Text(kid)
           d == Event("end", "PlainValue")
           e == Event("end", "ContentKey")
           doc == ContentKeyEvents(kid)
<1>1. /\ a.kind = "start" /\ a.name = "ContentKey" /\ a.kid = kid
      /\ b.kind = "start" /\ b.name = "PlainValue" /\ c.kind = "text" /\ c.text = kid
      /\ d.kind = "end" /\ d.name = "PlainValue" /\ e.kind = "end" /\ e.name = "ContentKey"
    BY DEF Open, Event, Text
<1>2. Len(doc) = 5 /\ doc[1] = a /\ doc[2] = b /\ doc[3] = c /\ doc[4] = d /\ doc[5] = e
    BY DEF ContentKeyEvents
<1>3. Run(q, doc) \in P
    BY KeyEvents, RunKeepsType
<1>4. \A i \in 1 .. 5 : doc[i] \in EventsOf(K, S)
  <2> DEFINE E == EventsOf(K, S)
  <2>1. doc \in Seq(E)
      BY KeyEvents
  <2> HIDE DEF doc, E
  <2>2. Len(doc) = 5
      BY <1>2
  <2>3. \A i \in 1 .. Len(doc) : doc[i] \in E
      BY <2>1
  <2> QED BY <2>2, <2>3 DEF E
<1> HIDE DEF a, b, c, d, e, doc
<1>5. PICK f : IsRun(f, q, doc)
    BY <1>2, RunExists
<1>6. /\ f[0] = q /\ f[1] = ParseEvent(f[0], a) /\ f[2] = ParseEvent(f[1], b)
      /\ f[3] = ParseEvent(f[2], c) /\ f[4] = ParseEvent(f[3], d) /\ f[5] = ParseEvent(f[4], e)
  <2>1. \A i \in 1 .. 5 : i \in 1 .. Len(doc)
      BY <1>2
  <2> QED BY <1>2, <1>5, <2>1 DEF IsRun
<1>7. Run(q, doc) = f[5]
  <2>1. Len(doc) \in Nat
      BY <1>2
  <2>2. Run(q, doc) = f[Len(doc)]
      BY <1>5, <2>1, RunIsLast
  <2> QED BY <1>2, <2>2
<1> DEFINE q1 == f[1]
           q2 == f[2]
           q3 == f[3]
           q4 == f[4]
           q5 == f[5]
<1>8. q1 \in P /\ q2 \in P /\ q3 \in P /\ q4 \in P
  <2>1. a \in EventsOf(K, S) /\ b \in EventsOf(K, S) /\ c \in EventsOf(K, S)
        /\ d \in EventsOf(K, S)
      BY <1>2, <1>4
  <2> HIDE DEF P
  <2>2. q1 \in P
      BY <1>6, <2>1, ParseKeepsType DEF P
  <2>3. q2 \in P
      BY <1>6, <2>1, <2>2, ParseKeepsType DEF P
  <2>4. q3 \in P
      BY <1>6, <2>1, <2>3, ParseKeepsType DEF P
  <2>5. q4 \in P
      BY <1>6, <2>1, <2>4, ParseKeepsType DEF P
  <2> QED BY <2>2, <2>3, <2>4, <2>5
<1>9. q1 = [q EXCEPT !.kid = kid]
    BY <1>1, <1>6, KeyTags
<1>10. q1.kid = kid /\ q1.keys = q.keys /\ q1.systems = <<>> /\ ~q1.inPssh
    BY <1>9 DEF Keyed, ParsersOf
<1>11. q2 = [q1 EXCEPT !.inValue = TRUE]
    BY <1>1, <1>6, KeyTags
<1> HIDE DEF q1
<1>12. q2.kid = kid /\ q2.keys = q.keys /\ q2.systems = <<>> /\ ~q2.inPssh /\ q2.inValue
    BY <1>8, <1>10, <1>11 DEF ParsersOf
<1> DEFINE y == [kid |-> kid, key |-> kid]
           z == Append(q.keys, y)
<1>13. q3 = IF kid = Unset THEN q2 ELSE [q2 EXCEPT !.keys = z]
  <2>1. q3 = ReadText(q2, kid)
      BY <1>1, <1>6, KeyTags
  <2>2. ReadText(q2, kid) = IF q2.kid = Unset THEN q2
                            ELSE [q2 EXCEPT !.keys = Append(@, [kid |-> q2.kid, key |-> kid])]
      BY <1>12 DEF ReadText
  <2> QED BY <1>12, <2>1, <2>2
<1> HIDE DEF q2, z
<1>14. q3.systems = <<>> /\ ~q3.inPssh /\ q3.keys = IF kid = Unset THEN q.keys ELSE z
    BY <1>8, <1>12, <1>13 DEF ParsersOf
<1>15. q4 = [q3 EXCEPT !.inValue = FALSE]
    BY <1>1, <1>6, KeyTags
<1> HIDE DEF q3
<1>16. q4.systems = <<>> /\ ~q4.inPssh /\ ~q4.inValue /\ q4.keys = q3.keys
    BY <1>8, <1>14, <1>15 DEF ParsersOf
<1>17. q5 = [q4 EXCEPT !.kid = Unset]
    BY <1>1, <1>6, KeyTags
<1> HIDE DEF q4
<1>18. q5.systems = <<>> /\ ~q5.inPssh /\ ~q5.inValue
       /\ q5.keys = IF kid = Unset THEN q.keys ELSE z
    BY <1>8, <1>14, <1>16, <1>17 DEF ParsersOf
<1>19. /\ KeyFor(z, kid) /\ SelfKeyed(z)
       /\ \A k : KeyFor(q.keys, k) => KeyFor(z, k)
  <2> DEFINE x == q.keys
  <2>1. x \in KeysOf(K)
      BY DEF ParsersOf
  <2>2. y.kid = kid /\ y.key = kid
      OBVIOUS
  <2>0. SelfKeyed(x)
      BY DEF Keyed
  <2> HIDE DEF x, y
  <2>3. Len(z) = Len(x) + 1 /\ Len(x) \in Nat /\ z[Len(x) + 1] = y
        /\ \A i \in 1 .. Len(x) : z[i] = x[i]
    <3>1. z = Append(x, y)
        BY DEF z, x
    <3> QED BY <2>1, <3>1 DEF KeysOf
  <2>4. Len(x) + 1 \in 1 .. Len(z) /\ \A i \in 1 .. Len(x) : i \in 1 .. Len(z)
      BY <2>3
  <2>5. \A i \in 1 .. Len(z) : i \in 1 .. Len(x) \/ i = Len(x) + 1
      BY <2>3
  <2>6. SelfKeyed(z)
      BY <2>0, <2>2, <2>3, <2>5 DEF SelfKeyed
  <2> QED BY <2>2, <2>3, <2>4, <2>6 DEF KeyFor, x
<1> HIDE DEF q5
<1>20. Keyed(q5) /\ (kid # Unset => KeyFor(q5.keys, kid))
       /\ \A k : KeyFor(q.keys, k) => KeyFor(q5.keys, k)
    BY <1>18, <1>19 DEF Keyed
<1> QED BY <1>3, <1>7, <1>20 DEF q5, doc

\* Reading the keys of a document: each key id that is not the mark of none has its key.
LEMMA KeysRead ==
    ASSUME NEW kids, IsList(kids), NEW S
    PROVE  LET K == Range(kids)
               p == Run(ParserStart, FlattenSeq([i \in 1 .. Len(kids) |-> ContentKeyEvents(kids[i])]))
           IN  /\ p \in ParsersOf(K, S) /\ Keyed(p)
               /\ \A i \in 1 .. Len(kids) : kids[i] # Unset => KeyFor(p.keys, kids[i])
<1> DEFINE K == Range(kids)
           E == EventsOf(K, S)
           P == ParsersOf(K, S)
           n == Len(kids)
           pre(k) == [i \in 1 .. k |-> ContentKeyEvents(kids[i])]
           at(k) == Run(ParserStart, FlattenSeq(pre(k)))
           Good(k) == /\ at(k) \in P /\ Keyed(at(k))
                      /\ \A i \in 1 .. k : kids[i] # Unset => KeyFor(at(k).keys, kids[i])
           T == {k \in 0 .. n : Good(k)}
<1>1. n \in Nat /\ \A i \in 1 .. n : kids[i] \in K
    BY DEF IsList
<1> HIDE DEF n, K
<1>2. \A k \in 0 .. n : pre(k) \in Seq(Seq(E))
  <2> SUFFICES ASSUME NEW k \in 0 .. n PROVE pre(k) \in Seq(Seq(E))
      OBVIOUS
  <2>1. \A i \in 1 .. k : ContentKeyEvents(kids[i]) \in Seq(E)
      BY <1>1, KeyEvents
  <2> HIDE DEF E
  <2> QED BY <2>1
<1> HIDE DEF E
<1>3. 0 \in T
  <2>1. pre(0) = <<>> /\ at(0) = ParserStart
    <3>1. pre(0) = <<>>
        OBVIOUS
    <3> HIDE DEF pre
    <3> QED BY <3>1, FlattenOfEmpty, RunOfEmpty
  <2>2. ParserStart \in P /\ Keyed(ParserStart)
      BY DEF ParserStart, ParsersOf, KeysOf, SystemsOf, Keyed, SelfKeyed
  <2> HIDE DEF at, P
  <2>3. Good(0)
      BY <2>1, <2>2
  <2> QED BY <1>1, <2>3
<1>4. ASSUME NEW k \in 0 .. n, k < n, k \in T PROVE k + 1 \in T
  <2> DEFINE e == ContentKeyEvents(kids[k + 1])
             d == FlattenSeq(pre(k))
             q == at(k)
             new == at(k + 1)
  <2>1. k \in Nat /\ k + 1 \in 0 .. n /\ k + 1 \in 1 .. n
      BY <1>1, <1>4
  <2>2. e \in Seq(E) /\ kids[k + 1] \in K
      BY <1>1, <2>1, KeyEvents DEF E
  <2>3. pre(k + 1) = Append(pre(k), e)
      BY <2>1
  <2>4. FlattenSeq(pre(k + 1)) = Joined(d, e) /\ d \in Seq(E)
    <3> HIDE DEF pre, e
    <3> QED BY <1>2, <2>2, <2>3, FlattenOfAppend, FlattenType
  <2>5. new = Run(q, e)
    <3> HIDE DEF pre, e, d
    <3> QED BY <2>2, <2>4, RunOfJoined DEF d
  <2>6. q \in P /\ Keyed(q) /\ \A i \in 1 .. k : kids[i] # Unset => KeyFor(q.keys, kids[i])
      BY <1>4
  <2>7. /\ Keyed(new) /\ new \in P
        /\ kids[k + 1] # Unset => KeyFor(new.keys, kids[k + 1])
        /\ \A c : KeyFor(q.keys, c) => KeyFor(new.keys, c)
    <3> DEFINE kid == kids[k + 1]
    <3>1. Keyed(q) /\ q \in ParsersOf(K, S) /\ kid \in K /\ new = Run(q, ContentKeyEvents(kid))
        BY <2>2, <2>5, <2>6
    <3> HIDE DEF at, kid
    <3>2. LET r == Run(q, ContentKeyEvents(kid))
          IN  /\ Keyed(r) /\ r \in ParsersOf(K, S)
              /\ kid # Unset => KeyFor(r.keys, kid)
              /\ \A c : KeyFor(q.keys, c) => KeyFor(r.keys, c)
        BY <3>1, KeyRead
    <3> QED BY <3>1, <3>2 DEF kid
  <2>8. \A i \in 1 .. k + 1 : i \in 1 .. k \/ i = k + 1
      BY <2>1
  <2> HIDE DEF at, P
  <2>9. Good(k + 1)
      BY <2>6, <2>7, <2>8
  <2> QED BY <2>1, <2>9
<1>5. n \in T
  <2> HIDE DEF T
  <2>1. \A k \in 0 .. n : k < n /\ k \in T => k + 1 \in T
      BY <1>4
  <2>2. \A k \in 0 .. n : k \in T
      BY <1>1, <1>3, <2>1, CountUp, Zenon
  <2> QED BY <1>1, <2>2
<1>6. Good(n)
    BY <1>5
<1> QED BY <1>6 DEF n, K

\* Reading the systems after them.
LEMMA SystemsRead ==
    ASSUME NEW kids, IsList(kids),
           NEW pssh \in {"filled", "absent"}, NEW data \in {"filled", "empty", "absent"},
           NEW q \in ParsersOf(Range(kids), Range(Systems)), NEW keys, Outside(q, keys)
    PROVE  Outside(Run(q, FlattenSeq([s \in 1 .. Len(Systems) |->
                              FlattenSeq([i \in 1 .. Len(kids) |->
                                  DrmSystemEvents(Systems[s], kids[i], pssh, data)])])), keys)
<1> DEFINE K == Range(kids)
           S == Range(Systems)
           E == EventsOf(K, S)
           P == ParsersOf(K, S)
           ofSystem(s) == [i \in 1 .. Len(kids) |->
                              DrmSystemEvents(Systems[s], kids[i], pssh, data)]
           systems == [s \in 1 .. Len(Systems) |-> FlattenSeq(ofSystem(s))]
           T == {d \in Seq(E) : \A p \in P : Outside(p, keys) => Outside(Run(p, d), keys)}
<1>1. Len(kids) \in Nat /\ \A i \in 1 .. Len(kids) : kids[i] \in K
    BY DEF IsList
<1>2. Len(Systems) \in Nat /\ \A s \in 1 .. Len(Systems) : Systems[s] \in S
    BY SystemsAssumption DEF IsList
<1> HIDE DEF K, S
<1>3. <<>> \in T
    BY RunOfEmpty
<1>4. ASSUME NEW x \in Seq(E), NEW y \in T, x \in T PROVE Joined(x, y) \in T
  <2> HIDE DEF E
  <2>1. y \in Seq(E)
      BY <1>4
  <2>2. Joined(x, y) \in Seq(E)
      BY <2>1, JoinedType, Zenon
  <2>3. ASSUME NEW p \in P, Outside(p, keys) PROVE Outside(Run(p, Joined(x, y)), keys)
    <3>1. Run(p, Joined(x, y)) = Run(Run(p, x), y)
        BY <2>1, RunOfJoined
    <3>2. Run(p, x) \in P
        BY RunKeepsType DEF E
    <3>3. Outside(Run(p, x), keys)
        BY <1>4, <2>3
    <3> QED BY <3>1, <3>2, <3>3
  <2> QED BY <2>2, <2>3
<1>5. ASSUME NEW s \in 1 .. Len(Systems), NEW i \in 1 .. Len(kids)
      PROVE  DrmSystemEvents(Systems[s], kids[i], pssh, data) \in T
  <2> DEFINE d == DrmSystemEvents(Systems[s], kids[i], pssh, data)
  <2>1. d \in Seq(E)
      BY <1>1, <1>2, SystemEvents
  <2>2. \A p \in P : Outside(p, keys) => Outside(Run(p, d), keys)
      BY <1>1, <1>2, SystemRead
  <2> HIDE DEF d, E, P
  <2> QED BY <2>1, <2>2 DEF d
<1>6. T \subseteq Seq(E)
    OBVIOUS
<1> HIDE DEF T, E
<1>7. ASSUME NEW s \in 1 .. Len(Systems) PROVE FlattenSeq(ofSystem(s)) \in T
  <2>1. ofSystem(s) \in Seq(T)
      BY <1>1, <1>5
  <2> HIDE DEF ofSystem
  <2> QED BY <1>3, <1>4, <1>6, <2>1, FlattenInvariant
<1> HIDE DEF ofSystem
<1>8. systems \in Seq(T)
    BY <1>2, <1>7
<1>9. FlattenSeq(systems) \in T
  <2> HIDE DEF systems
  <2> QED BY <1>3, <1>4, <1>6, <1>8, FlattenInvariant
<1>10. \A p \in P : Outside(p, keys) => Outside(Run(p, FlattenSeq(systems)), keys)
  <2> HIDE DEF systems, P
  <2> QED BY <1>9 DEF T
<1>11. Outside(Run(q, FlattenSeq(systems)), keys)
  <2> HIDE DEF systems
  <2> QED BY <1>10 DEF K, S
<1> QED BY <1>11, Zenon DEF ofSystem

\* Where no value is open, an event other than the start of one adds no key.
LEMMA NoKeyAdded ==
    ASSUME NEW K, NEW S, NEW p \in ParsersOf(K, S), NEW e \in EventsOf(K, S),
           ~p.inValue, e.name # "PlainValue"
    PROVE  ParseEvent(p, e).keys = p.keys /\ ~ParseEvent(p, e).inValue
<1>1. CASE e.kind = "text"
  <2>1. ParseEvent(p, e) = ReadText(p, e.text)
      BY <1>1 DEF ParseEvent
  <2>2. \A x : [p EXCEPT !.systems = x].keys = p.keys /\ ~[p EXCEPT !.systems = x].inValue
      BY DEF ParsersOf
  <2>3. ReadText(p, e.text) \in {p, WithPssh(p, e.text), WithData(p, e.text)}
      BY Zenon DEF ReadText
  <2>4. \/ ReadText(p, e.text) = p
        \/ \E x : ReadText(p, e.text) = [p EXCEPT !.systems = x]
      BY <2>3, Zenon DEF WithPssh, WithData
  <2> QED BY <2>1, <2>2, <2>4, Zenon
<1>2. CASE e.kind # "text"
  <2>1. e.name \in EventNames \ {"PlainValue"}
      BY <1>2 DEF EventsOf
  <2>2. e.kind \in {"start", "empty", "end"}
      BY <1>2 DEF EventsOf
  <2>3. ParseEvent(p, e) = IF e.kind = "end" THEN Closed(p, e) ELSE Opened(p, e)
      BY <2>2 DEF ParseEvent
  <2>4. Opened(p, e).keys = p.keys /\ ~Opened(p, e).inValue
      BY <2>1 DEF Opened, ParsersOf, EventNames
  <2>5. Closed(p, e).keys = p.keys /\ ~Closed(p, e).inValue
      BY <2>1 DEF Closed, ParsersOf, EventNames
  <2> QED BY <2>3, <2>4, <2>5
<1> QED BY <1>1, <1>2

\* What an element of an answer may be.
Forms == {"filled", "empty", "absent"}

\* The part of the document that lists the systems.
SystemsEvents(kids, pssh, data) ==
    FlattenSeq([s \in 1 .. Len(Systems) |->
        FlattenSeq([i \in 1 .. Len(kids) |-> DrmSystemEvents(Systems[s], kids[i], pssh, data)])])

\* Reading the systems adds no key.
LEMMA KeysStay ==
    ASSUME NEW kids, IsList(kids),
           NEW pssh \in Forms, NEW data \in Forms,
           NEW q \in ParsersOf(Range(kids), Range(Systems)), Keyed(q)
    PROVE  Run(q, SystemsEvents(kids, pssh, data)).keys = q.keys
<1> DEFINE K == Range(kids)
           S == Range(Systems)
           E == EventsOf(K, S)
           N == {e \in E : e.name # "PlainValue"}
           ofSystem(s) == [i \in 1 .. Len(kids) |-> DrmSystemEvents(Systems[s], kids[i], pssh, data)]
           doc == FlattenSeq([s \in 1 .. Len(Systems) |-> FlattenSeq(ofSystem(s))])
<1>1. ASSUME NEW system \in S, NEW kid \in K
      PROVE  DrmSystemEvents(system, kid, pssh, data) \in Seq(N)
  <2> DEFINE a == Open("DRMSystem", kid, system)
             b == Element("PSSH", "pssh", pssh)
             c == Element("ContentProtectionData", "data", data)
             d == Event("end", "DRMSystem")
  <2>1. DrmSystemEvents(system, kid, pssh, data) = Joined(Joined(Joined(<<a>>, b), c), <<d>>)
      BY Zenon DEF DrmSystemEvents, Joined
  <2>2. a.name # "PlainValue" /\ d.name # "PlainValue"
      BY DEF Open, Event
  <2>3. ASSUME NEW name \in {"PSSH", "ContentProtectionData"}, NEW text \in {"pssh", "data"},
               NEW form \in {"filled", "empty", "absent"}
        PROVE  Element(name, text, form) \in Seq(N)
    <3>1. Event("start", name) \in E /\ Event("empty", name) \in E /\ Event("end", name) \in E
        BY DEF Event, EventsOf, EventNames
    <3>2. Text(text) \in E
        BY DEF Text, Event, EventsOf, TextsOf
    <3>3. /\ Event("start", name).name # "PlainValue" /\ Event("empty", name).name # "PlainValue"
          /\ Event("end", name).name # "PlainValue" /\ Text(text).name # "PlainValue"
        BY DEF Event, Text, Unset
    <3>4. \A x, y, z \in N : <<>> \in Seq(N) /\ <<x>> \in Seq(N) /\ <<x, y, z>> \in Seq(N)
      <4> HIDE DEF N
      <4> QED OBVIOUS
    <3>5. \/ Element(name, text, form) = <<>>
          \/ Element(name, text, form) = <<Event("empty", name)>>
          \/ Element(name, text, form) = <<Event("start", name), Text(text), Event("end", name)>>
        BY Zenon DEF Element
    <3>6. Event("start", name) \in N /\ Event("empty", name) \in N /\ Event("end", name) \in N
          /\ Text(text) \in N
        BY <3>1, <3>2, <3>3
    <3> HIDE DEF N
    <3> QED BY <3>4, <3>5, <3>6, Zenon
  <2>4. b \in Seq(N) /\ c \in Seq(N)
      BY <2>3 DEF Forms
  <2>5. a \in N /\ d \in N
    <3>1. a \in E
        BY <1>1 DEF Open, Event, EventsOf, EventNames
    <3>2. d \in E
        BY DEF Event, EventsOf, EventNames
    <3> QED BY <2>2, <3>1, <3>2
  <2>6. \A x \in N : <<x>> \in Seq(N)
    <3> HIDE DEF N
    <3> QED OBVIOUS
  <2> HIDE DEF N, a, b, c, d
  <2>7. <<a>> \in Seq(N) /\ <<d>> \in Seq(N)
      BY <2>5, <2>6
  <2>8. Joined(<<a>>, b) \in Seq(N)
      BY <2>4, <2>7, JoinedType, Zenon
  <2>9. Joined(Joined(<<a>>, b), c) \in Seq(N)
      BY <2>4, <2>8, JoinedType, Zenon
  <2>10. Joined(Joined(Joined(<<a>>, b), c), <<d>>) \in Seq(N)
      BY <2>7, <2>9, JoinedType, Zenon
  <2> QED BY <2>1, <2>10
<1>2. Len(kids) \in Nat /\ Len(Systems) \in Nat
      /\ (\A i \in 1 .. Len(kids) : kids[i] \in K) /\ \A s \in 1 .. Len(Systems) : Systems[s] \in S
    BY SystemsAssumption DEF IsList
<1> HIDE DEF K, S
<1>3. ASSUME NEW s \in 1 .. Len(Systems) PROVE FlattenSeq(ofSystem(s)) \in Seq(N)
  <2>1. \A i \in 1 .. Len(kids) : DrmSystemEvents(Systems[s], kids[i], pssh, data) \in Seq(N)
      BY <1>1, <1>2
  <2> HIDE DEF N
  <2>2. ofSystem(s) \in Seq(Seq(N))
      BY <1>2, <2>1
  <2> QED BY <2>2, FlattenType
<1>4. doc \in Seq(N)
  <2> HIDE DEF N, ofSystem
  <2>1. [s \in 1 .. Len(Systems) |-> FlattenSeq(ofSystem(s))] \in Seq(Seq(N))
      BY <1>2, <1>3
  <2> QED BY <2>1, FlattenType
<1> HIDE DEF doc
<1>5. Len(doc) \in Nat /\ \A i \in 1 .. Len(doc) : doc[i] \in N
  <2> HIDE DEF N
  <2> QED BY <1>4
<1>6. PICK f : IsRun(f, q, doc)
    BY <1>5, RunExists
<1> DEFINE T == {i \in 0 .. Len(doc) : /\ f[i] \in ParsersOf(K, S)
                                      /\ f[i].keys = q.keys /\ ~f[i].inValue}
<1>7. 0 \in T
    BY <1>5, <1>6 DEF IsRun, Keyed, K, S
<1>8. ASSUME NEW i \in 0 .. Len(doc), i < Len(doc), i \in T PROVE i + 1 \in T
  <2>1. i + 1 \in 1 .. Len(doc) /\ i + 1 \in 0 .. Len(doc) /\ (i + 1) - 1 = i
      BY <1>5, <1>8
  <2>2. f[i + 1] = ParseEvent(f[i], doc[i + 1])
      BY <1>6, <2>1 DEF IsRun
  <2>3. doc[i + 1] \in E /\ doc[i + 1].name # "PlainValue"
      BY <1>5, <2>1
  <2>4. f[i] \in ParsersOf(K, S) /\ f[i].keys = q.keys /\ ~f[i].inValue
      BY <1>8
  <2> DEFINE p == f[i]
             e == doc[i + 1]
  <2> HIDE DEF p, e
  <2>5. ParseEvent(p, e) \in ParsersOf(K, S)
      BY <2>3, <2>4, ParseKeepsType DEF p, e
  <2>6. ParseEvent(p, e).keys = p.keys /\ ~ParseEvent(p, e).inValue
      BY <2>3, <2>4, NoKeyAdded DEF p, e
  <2> QED BY <2>1, <2>2, <2>4, <2>5, <2>6 DEF p, e
<1>9. Len(doc) \in T
  <2> HIDE DEF T
  <2>1. \A i \in 0 .. Len(doc) : i < Len(doc) /\ i \in T => i + 1 \in T
      BY <1>8
  <2>2. \A i \in 0 .. Len(doc) : i \in T
      BY <1>5, <1>7, <2>1, CountUp, Zenon
  <2> QED BY <1>5, <2>2
<1>10. Run(q, doc) = f[Len(doc)]
    BY <1>5, <1>6, RunIsLast
<1>11. SystemsEvents(kids, pssh, data) = doc
    BY Zenon DEF SystemsEvents, doc, ofSystem
<1> QED BY <1>9, <1>10, <1>11

\* What a job makes of any answer of the server: lists of keys and of systems
\* and, where the server leaves no PSSH element empty, a PSSH out of a PSSH
\* element for key ids that have their key.  The code behaviour is
\* parse_cpix_response over every document an answer may be.
LEMMA AnswersRead ==
    ASSUME NEW kids, IsList(kids), NEW document \in Answers(kids)
    PROVE  /\ KeysTyped(ParseCpixResponse(document))
           /\ "empty" \notin PsshForms => PsshOfKeys(ParseCpixResponse(document))
<1>1. PICK known \in SUBSET (1 .. Len(kids)), pssh \in PsshForms, data \in DataForms :
          document = CpixDocument(Chosen(kids, known), pssh, data)
    BY DEF Answers
<1> DEFINE kids2 == Chosen(kids, known)
           K == Range(kids2)
           S == Range(Systems)
           E == EventsOf(K, S)
           P == ParsersOf(K, S)
           p == Run(ParserStart, document)
           keyDoc == FlattenSeq([i \in 1 .. Len(kids2) |-> ContentKeyEvents(kids2[i])])
           systemDoc == FlattenSeq([s \in 1 .. Len(Systems) |->
                            FlattenSeq([i \in 1 .. Len(kids2) |->
                                DrmSystemEvents(Systems[s], kids2[i], pssh, data)])])
<1>2. IsList(kids2)
  <2>1. kids2 \in Seq(Range(kids))
      BY ChosenType DEF IsList
  <2> HIDE DEF kids2
  <2> QED BY <2>1, SeqIsList, Zenon
<1>3. pssh \in {"filled", "empty", "absent"} /\ data \in {"filled", "empty", "absent"}
    BY FormsAssumption
<1> HIDE DEF kids2
<1>4. /\ document = Joined(keyDoc, systemDoc) /\ document \in Seq(E)
      /\ keyDoc \in Seq(E) /\ systemDoc \in Seq(E)
  <2> DEFINE keys == [i \in 1 .. Len(kids2) |-> ContentKeyEvents(kids2[i])]
             ofSystem(s) == [i \in 1 .. Len(kids2) |->
                                DrmSystemEvents(Systems[s], kids2[i], pssh, data)]
             systems == [s \in 1 .. Len(Systems) |-> FlattenSeq(ofSystem(s))]
  <2>1. /\ keys \in Seq(Seq(E)) /\ systems \in Seq(Seq(E))
        /\ CpixDocument(kids2, pssh, data) = Joined(FlattenSeq(keys), FlattenSeq(systems))
        /\ CpixDocument(kids2, pssh, data) \in Seq(E)
    <3> HIDE DEF keys, systems, E
    <3> QED BY <1>2, <1>3, DocumentEvents, Zenon DEF keys, systems, ofSystem, E
  <2>2. FlattenSeq(keys) \in Seq(E) /\ FlattenSeq(systems) \in Seq(E)
    <3> HIDE DEF keys, systems, E
    <3> QED BY <2>1, FlattenType
  <2>3. document = CpixDocument(kids2, pssh, data)
      BY <1>1 DEF kids2
  <2> QED BY <2>1, <2>2, <2>3, Zenon
<1>5. p \in P /\ ParserStart \in P
  <2>1. ParserStart \in P
      BY DEF ParserStart, ParsersOf, KeysOf, SystemsOf
  <2> HIDE DEF P
  <2> QED BY <1>4, <2>1, RunKeepsType DEF P, E
<1>6. ParseCpixResponse(document) = IF p.keys = <<>> THEN NoKeySet ELSE KeySet(p.keys, p.systems)
    BY Zenon DEF ParseCpixResponse, Run
<1>7. "empty" \notin PsshForms => Outside(p, p.keys)
  <2>1. SUFFICES ASSUME "empty" \notin PsshForms PROVE Outside(p, p.keys)
      OBVIOUS
  <2> DEFINE q == Run(ParserStart, keyDoc)
  <2>2. q \in ParsersOf(K, S) /\ Keyed(q)
      BY <1>2, KeysRead
  <2>3. p = Run(q, systemDoc)
    <3> HIDE DEF E, keyDoc, systemDoc
    <3> QED BY <1>4, RunOfJoined
  <2>4. pssh \in {"filled", "absent"}
      BY <1>3, <2>1
  <2> HIDE DEF q
  <2>5. Outside(q, q.keys)
      BY <2>2 DEF Keyed, Outside
  <2>6. Outside(p, q.keys)
    <3> HIDE DEF p
    <3> QED BY <1>2, <1>3, <2>2, <2>3, <2>4, <2>5, SystemsRead
  <2> QED BY <2>6 DEF Outside
<1>8. "empty" \notin PsshForms =>
          \A i \in 1 .. Len(kids2) : kids2[i] # Unset => KeyFor(p.keys, kids2[i])
  <2>1. SUFFICES ASSUME "empty" \notin PsshForms, NEW i \in 1 .. Len(kids2), kids2[i] # Unset
                 PROVE  KeyFor(p.keys, kids2[i])
      OBVIOUS
  <2> DEFINE q == Run(ParserStart, keyDoc)
  <2>2. q \in ParsersOf(K, S) /\ Keyed(q) /\ KeyFor(q.keys, kids2[i])
      BY <1>2, <2>1, KeysRead
  <2>3. p = Run(q, systemDoc)
    <3> HIDE DEF E, keyDoc, systemDoc
    <3> QED BY <1>4, RunOfJoined
  <2>4. pssh \in {"filled", "absent"}
      BY <1>3, <2>1
  <2> HIDE DEF q
  <2>5. Outside(q, q.keys)
      BY <2>2 DEF Keyed, Outside
  <2>6. Outside(p, q.keys)
    <3> HIDE DEF p
    <3> QED BY <1>2, <1>3, <2>2, <2>3, <2>4, <2>5, SystemsRead
  <2> QED BY <2>2, <2>6 DEF Outside
<1> HIDE DEF p
<1>9. /\ KeysTyped(NoKeySet) /\ PsshOfKeys(NoKeySet)
  <2>1. NoKeySet.keys = <<>> /\ NoKeySet.systems = <<>>
      BY DEF NoKeySet, KeySet
  <2> QED BY <2>1, EmptyIsList DEF KeysTyped, PsshOfKeys, SelfKeyed
<1>10. KeysTyped(KeySet(p.keys, p.systems))
  <2>1. p.keys \in KeysOf(K) /\ p.systems \in SystemsOf(K, S)
      BY <1>5 DEF ParsersOf
  <2>2. IsList(p.keys) /\ IsList(p.systems)
      BY <2>1, SeqIsList, Zenon DEF KeysOf, SystemsOf
  <2> DEFINE q == Run(ParserStart, keyDoc)
  <2>3. q \in ParsersOf(K, S) /\ Keyed(q)
      BY <1>2, KeysRead
  <2>4. Run(q, systemDoc).keys = q.keys
    <3> HIDE DEF q
    <3>1. q \in ParsersOf(Range(kids2), Range(Systems)) /\ Keyed(q)
        BY <2>3 DEF K, S
    <3>2. pssh \in Forms /\ data \in Forms /\ IsList(kids2)
        BY <1>2, <1>3 DEF Forms
    <3>3. Run(q, SystemsEvents(kids2, pssh, data)).keys = q.keys
      <4> HIDE DEF kids2
      <4> QED BY <3>1, <3>2, KeysStay, Zenon
    <3> QED BY <3>3, Zenon DEF SystemsEvents
  <2>5. p = Run(q, systemDoc)
    <3> HIDE DEF E, keyDoc, systemDoc
    <3> QED BY <1>4, RunOfJoined DEF p
  <2>6. SelfKeyed(p.keys)
      BY <2>3, <2>4, <2>5 DEF Keyed
  <2> QED BY <2>2, <2>6 DEF KeysTyped, KeySet
<1>11. "empty" \notin PsshForms => PsshOfKeys(KeySet(p.keys, p.systems))
  <2>1. SUFFICES ASSUME "empty" \notin PsshForms, NEW d \in 1 .. Len(p.systems)
                 PROVE  p.systems[d].pssh = "pssh" /\ KeyFor(p.keys, p.systems[d].kid)
      BY DEF PsshOfKeys, KeySet, HasKey, KeyFor
  <2>2. p.systems[d].pssh = "pssh" /\ p.systems[d].kid # Unset
      BY <1>7, <2>1 DEF Outside
  <2>3. p.systems[d].kid \in K
    <3> DEFINE X == [system : S, kid : K, pssh : TextsOf(K), data : TextsOf(K) \union {Unset}]
               y == p.systems
    <3>1. y \in Seq(X)
        BY <1>5 DEF ParsersOf, SystemsOf
    <3>2. \A x \in X : x.kid \in K
        OBVIOUS
    <3>3. y[d] \in X
      <4> HIDE DEF X
      <4> QED BY <3>1
    <3> HIDE DEF X
    <3> QED BY <3>2, <3>3
  <2>4. PICK i \in 1 .. Len(kids2) : kids2[i] = p.systems[d].kid
    <3>1. DOMAIN kids2 = 1 .. Len(kids2)
        BY <1>2 DEF IsList
    <3> QED BY <2>3, <3>1 DEF Range
  <2> QED BY <1>8, <2>1, <2>2, <2>4
<1> HIDE DEF kids2
<1> QED BY <1>6, <1>9, <1>10, <1>11

-----------------------------------------------------------------------------
(* Steps *)

\* Within a job the source and the request stay, and what is read of them.
LEMMA SameJob ==
    ASSUME source' = source, request' = request
    PROVE  /\ Readable' <=> Readable
           /\ Targets' = Targets /\ SourceTracks' = SourceTracks /\ Mapping' = Mapping
           /\ WellFormed(source)' <=> WellFormed(source)
           /\ ValidRequest(Targets, SourceTracks)' <=> ValidRequest(Targets, SourceTracks)
           /\ \A i : SegmentData(i)' = SegmentData(i)
<1>1. Readable' <=> Readable
    BY DEF Readable
<1>2. Targets' = Targets
    BY DEF Targets
<1>3. SourceInit' = SourceInit
    BY DEF SourceInit, InitOfSource
<1>4. SourceTracks' = SourceTracks /\ SourceInfo' = SourceInfo
    BY <1>3 DEF SourceTracks, SourceInfo
<1>5. Mapping' = Mapping
    BY <1>4 DEF Mapping
<1>6. WellFormed(source)' <=> WellFormed(source)
    OBVIOUS
<1>7. ValidRequest(Targets, SourceTracks)' <=> ValidRequest(Targets, SourceTracks)
    BY <1>2, <1>4
<1>8. \A i : SegmentData(i)' = SegmentData(i)
    BY DEF SegmentData, DataOfSource
<1> QED BY <1>1, <1>2, <1>4, <1>5, <1>6, <1>7, <1>8

\* The steps of a job, after which the next one may follow.
JobSteps ==
    \/ FetchSource \/ Validate \/ GetKeys \/ BuildOutputs
    \/ ProcessSegment \/ SegmentLost \/ Finish \/ ExpireKeys \/ UNCHANGED vars

\* A step is one of the job at hand, or the start of another job.
LEMMA StepKinds ==
    ASSUME [Next]_vars
    PROVE  /\ JobSteps \/ NewJob \/ Republish
           /\ JobSteps => source' = source /\ request' = request /\ jobs' = jobs
           /\ NewJob \/ Republish => StartJob /\ phase \in {"done", "failed"}
<1>1. JobSteps \/ NewJob \/ Republish
    BY DEF Next, JobSteps, Over
<1>2. JobSteps => source' = source /\ request' = request /\ jobs' = jobs
    BY DEF JobSteps, FetchSource, Validate, GetKeys, BuildOutputs, ProcessSegment, SegmentLost,
           Finish, ExpireKeys, vars
<1>3. NewJob \/ Republish => StartJob /\ phase \in {"done", "failed"}
    BY Zenon DEF NewJob, Republish
<1> QED BY <1>1, <1>2, <1>3

\* A published output is a source that a job can work on.
LEMMA SourceStep == JobInv /\ [Next]_vars => SourceInv'
<1> SUFFICES ASSUME JobInv, [Next]_vars PROVE SourceInv'
    OBVIOUS
<1>1. WellFormed(source) /\ request \in Requests
    BY DEF JobInv, SourceInv
<1>2. CASE JobSteps
    BY <1>1, <1>2, StepKinds, SameJob DEF SourceInv
<1>3. CASE NewJob
  <2>1. source' \in Sources /\ request' \in Requests
      BY <1>3 DEF NewJob, StartJob
  <2> QED BY <2>1, JobSourcesAssumption DEF SourceInv
<1>4. CASE Republish
  <2>1. request' \in Requests
      BY <1>4, StepKinds DEF StartJob
  <2>2. PICK s \in Targets : \E parts, live, clear :
            source' = [ts |-> outputs[s].ts, init |-> outputs[s].init,
                       segments |-> outputs[s].segments, parts |-> parts, live |-> live,
                       clear |-> clear]
      BY <1>4, Zenon DEF Republish
  <2> DEFINE o == outputs[s]
  <2>3. source'.ts = o.ts /\ source'.init = o.init /\ source'.segments = o.segments
      BY <2>2
  <2>4. phase = "done" /\ DOMAIN outputs = Targets /\ next = Len(source.segments)
      BY <1>4 DEF Republish, JobInv, OutputsInv
  <2>5. OutputInv(s)
      BY <2>4 DEF JobInv, OutputsInv
  <2>6. next \in Nat \ {0}
    <3>1. IsList(source.segments) /\ source.segments # <<>>
        BY <1>1 DEF WellFormed
    <3> QED BY <2>4, <3>1 DEF IsList
  <2>7. /\ IsList(o.segments) /\ Len(o.segments) = next
        /\ \A i \in 1 .. next : IF o.ts THEN TsWellFormed(o.segments[i])
                                ELSE SegmentWellFormed(o.segments[i])
        /\ ~o.ts => InitWellFormed(o.init)
      BY <2>5 DEF OutputInv, OutputFits, IsOutput
  <2>8. o.segments # <<>>
      BY <2>6, <2>7
  <2> DEFINE src == source'
  <2>9. WellFormed(src)
    <3> HIDE DEF o, src
    <3> QED BY <2>3, <2>7, <2>8 DEF WellFormed, src
  <2> QED BY <2>1, <2>9 DEF SourceInv
<1> QED BY <1>2, <1>3, <1>4, StepKinds

\* What only the later steps of a job rely on was checked by the earlier ones.
LEMMA GateStep == JobInv /\ [Next]_vars => GateInv'
<1> SUFFICES ASSUME JobInv, [Next]_vars PROVE GateInv'
    OBVIOUS
<1> DEFINE V == ValidRequest(Targets, SourceTracks)
<1>1. GateInv
    BY DEF JobInv
<1>2. source' = source /\ request' = request => (Readable' <=> Readable) /\ (V' <=> V)
    BY SameJob
<1>3. CASE FetchSource
  <2>1. phase' = "fetched" => Readable
      BY <1>3 DEF FetchSource, Fail, Readable
  <2>2. phase' \in {"fetched", "failed"} /\ source' = source /\ request' = request
      BY <1>3 DEF FetchSource, Fail
  <2> HIDE DEF V
  <2> QED BY <1>2, <2>1, <2>2 DEF GateInv, V
<1>4. CASE Validate
  <2>1. phase = "fetched" /\ (phase' = "validated" => V)
      BY <1>4 DEF Validate, Fail
  <2>2. phase' \in {"validated", "failed"} /\ source' = source /\ request' = request
      BY <1>4 DEF Validate, Fail
  <2> HIDE DEF V
  <2> QED BY <1>1, <1>2, <2>1, <2>2 DEF GateInv, V
<1>5. CASE GetKeys \/ BuildOutputs \/ ProcessSegment \/ SegmentLost \/ Finish
  <2>1. phase \in {"validated", "keyed", "processing"} /\ source' = source /\ request' = request
      BY <1>5 DEF GetKeys, BuildOutputs, ProcessSegment, SegmentLost, Finish
  <2> HIDE DEF V
  <2> QED BY <1>1, <1>2, <2>1 DEF GateInv, V
<1>6. CASE ExpireKeys \/ UNCHANGED vars
  <2>1. phase' = phase /\ source' = source /\ request' = request
      BY <1>6 DEF ExpireKeys, vars
  <2> HIDE DEF V
  <2> QED BY <1>1, <1>2, <2>1 DEF GateInv, V
<1>7. CASE NewJob \/ Republish
  <2>1. phase' = "idle"
      BY <1>7, StepKinds DEF StartJob
  <2> QED BY <2>1 DEF GateInv
<1> QED BY <1>3, <1>4, <1>5, <1>6, <1>7, StepKinds DEF JobSteps

\* The keys of a raw request are those of its key ids and no others.
LEMMA RawKeys ==
    ASSUME NEW kids, IsList(kids), NEW kid
    PROVE  /\ KeysTyped(RawKeySet(kids)) /\ PsshOfKeys(RawKeySet(kids))
           /\ HasKey(RawKeySet(kids), kid) <=> kid \in Range(kids)
<1> DEFINE n == Len(kids)
           keys == [i \in 1 .. n |-> [kid |-> kids[i], key |-> kids[i]]]
<1>1. n \in Nat /\ DOMAIN kids = 1 .. n
    BY DEF IsList
<1>2. IsList(keys) /\ Len(keys) = n
    BY <1>1, FunctionIsList
<1>3. \A i \in 1 .. n : keys[i].kid = kids[i] /\ keys[i].key = kids[i]
    OBVIOUS
<1>4. RawKeySet(kids) = [keys |-> keys, systems |-> <<>>]
    BY Zenon DEF RawKeySet, KeySet
<1> HIDE DEF keys, n
<1>5. RawKeySet(kids).keys = keys /\ RawKeySet(kids).systems = <<>>
    BY <1>4
<1>6. HasKey(RawKeySet(kids), kid) <=> \E i \in 1 .. n : kids[i] = kid
    BY <1>2, <1>3, <1>5 DEF HasKey
<1>7. KeysTyped(RawKeySet(kids)) /\ PsshOfKeys(RawKeySet(kids))
    BY <1>2, <1>3, <1>5, EmptyIsList DEF KeysTyped, PsshOfKeys, SelfKeyed
<1>8. kid \in Range(kids) <=> \E i \in 1 .. n : kids[i] = kid
    BY <1>1 DEF Range
<1> QED BY <1>6, <1>7, <1>8

\* What can come out of GetKeys.
KeysGot ==
    \/ /\ phase' = "keyed" /\ failure' = failure
       /\ UNCHANGED <<keySet, keyCache, stale>>
    \/ /\ request.raw # <<>> /\ UNCHANGED <<keyCache, stale>>
       /\ keySet' = RawKeySet(request.raw) /\ UseKeys(keySet')
    \/ /\ keyCache.present /\ UNCHANGED <<keyCache, stale>>
       /\ keySet' = keyCache.set /\ UseKeys(keySet')
    \/ /\ Fail("server") /\ UNCHANGED <<keySet, keyCache>>
    \/ /\ \E document \in Answers(KidList(Mapping)) : keySet' = ParseCpixResponse(document)
       /\ UseKeys(keySet')
       /\ keyCache' = [present |-> TRUE, set |-> keySet']
       /\ stale' = (phase' = "failed")

\* Asking for keys uses the cached ones or asks the server, and does no more.
LEMMA GetKeysGets ==
    GetKeys => KeysGot /\ phase = "validated" /\ source' = source /\ request' = request
<1> SUFFICES ASSUME GetKeys PROVE KeysGot
    BY DEF GetKeys
<1>1. \A keys : UseKeys(keys) => keySet' = keys
    BY DEF UseKeys
<1>2. ASSUME NEW document \in Answers(KidList(Mapping)), NEW keys, keys = ParseCpixResponse(document),
             IF keys = NoKeySet THEN Fail("server") /\ UNCHANGED <<keySet, keyCache>>
             ELSE /\ UseKeys(keys) /\ keyCache' = [present |-> TRUE, set |-> keys]
                  /\ stale' = (phase' = "failed")
      PROVE  KeysGot
  <2>1. CASE keys = NoKeySet
      BY <1>2, <2>1 DEF KeysGot
  <2>2. CASE keys # NoKeySet
      BY <1>1, <1>2, <2>2, Zenon DEF KeysGot
  <2> QED BY <2>1, <2>2
<1>3. CASE \E document \in Answers(KidList(Mapping)) :
               LET keys == ParseCpixResponse(document)
               IN  IF keys = NoKeySet
                   THEN Fail("server") /\ UNCHANGED <<keySet, keyCache>>
                   ELSE /\ UseKeys(keys) /\ keyCache' = [present |-> TRUE, set |-> keys]
                        /\ stale' = (phase' = "failed")
    BY <1>2, <1>3, Zenon
<1>4. CASE UseKeys(RawKeySet(request.raw)) /\ request.raw # <<>> /\ UNCHANGED <<keyCache, stale>>
    BY <1>1, <1>4, Zenon DEF KeysGot
<1>5. CASE UseKeys(keyCache.set) /\ keyCache.present /\ UNCHANGED <<keyCache, stale>>
    BY <1>1, <1>5, Zenon DEF KeysGot
<1>6. CASE phase' = "keyed" /\ UNCHANGED <<failure, keySet, keyCache, stale>>
    BY <1>6 DEF KeysGot
<1> QED BY <1>3, <1>4, <1>5, <1>6, Zenon DEF GetKeys

\* Keys stay in the cache over the end of a job only if it failed, and a job
\* finds no key only for raw keys of other key ids, for the server, or for keys
\* that were left.
LEMMA CacheStep == JobInv /\ [Next]_vars => CacheInv'
<1> SUFFICES ASSUME JobInv, [Next]_vars PROVE CacheInv'
    OBVIOUS
<1>1. CacheInv /\ stale \in BOOLEAN /\ keyCache.present \in BOOLEAN
    BY DEF JobInv, TypeOK
<1>2. source' = source /\ request' = request => Mapping' = Mapping
    BY SameJob
<1>3. ASSUME phase \notin {"keyed", "processing", "failed"}, UNCHANGED <<keyCache, stale>>,
             failure' = failure
      PROVE  CacheInv'
    BY <1>1, <1>3 DEF CacheInv, NoKeyForCause
<1>4. ASSUME phase # "failed", NEW why, why # "nokey", Fail(why), keyCache' = keyCache
      PROVE  CacheInv'
    BY <1>1, <1>4 DEF CacheInv, NoKeyForCause, Fail
<1>5. CASE FetchSource
  <2>1. phase # "failed" /\ phase \notin {"keyed", "processing"} /\ keyCache' = keyCache
      BY <1>5 DEF FetchSource
  <2>2. Fail("fetch") \/ Fail("scheme") \/ Fail("segment") \/ UNCHANGED <<failure, stale>>
      BY <1>5, Zenon DEF FetchSource
  <2> QED BY <1>3, <1>4, <2>1, <2>2
<1>6. CASE Validate
  <2>1. phase # "failed" /\ phase \notin {"keyed", "processing"} /\ keyCache' = keyCache
      BY <1>6 DEF Validate
  <2>2. Fail("invalid") \/ UNCHANGED <<failure, stale>>
      BY <1>6, Zenon DEF Validate
  <2> QED BY <1>3, <1>4, <2>1, <2>2
<1>7. CASE GetKeys
  <2>1. KeysGot /\ phase = "validated" /\ Mapping' = Mapping /\ request' = request
      BY <1>2, <1>7, GetKeysGets
  <2>2. failure # "nokey"
      BY <1>1, <2>1 DEF CacheInv
  <2>3. CASE phase' = "keyed" /\ UNCHANGED <<failure, keySet, keyCache, stale>>
      BY <1>1, <2>1, <2>2, <2>3 DEF CacheInv, NoKeyForCause
  <2>4. CASE /\ request.raw # <<>> /\ UNCHANGED <<keyCache, stale>>
             /\ keySet' = RawKeySet(request.raw) /\ UseKeys(keySet')
    <3>1. IsList(request.raw)
        BY RequestsAssumption DEF JobInv, SourceInv
    <3>2. \/ phase' = "keyed" /\ failure' = failure
          \/ phase' = "failed" /\ PrimaryKid(Mapping) \notin Range(request.raw)
      <4>1. HasKey(keySet', PrimaryKid(Mapping)) <=> PrimaryKid(Mapping) \in Range(request.raw)
        <5> DEFINE kid == PrimaryKid(Mapping)
        <5> HIDE DEF kid
        <5> QED BY <2>4, <3>1, RawKeys DEF kid
      <4> QED BY <2>4, <4>1 DEF UseKeys
    <3> QED BY <1>1, <2>1, <2>2, <2>4, <3>2 DEF CacheInv, NoKeyForCause
  <2>5. CASE /\ keyCache.present /\ UNCHANGED <<keyCache, stale>>
             /\ keySet' = keyCache.set /\ UseKeys(keySet')
    <3>1. stale
        BY <1>1, <2>1, <2>5 DEF CacheInv
    <3>2. phase' = "failed" \/ failure' = failure
        BY <2>5 DEF UseKeys
    <3> QED BY <2>2, <2>5, <3>1, <3>2 DEF CacheInv, NoKeyForCause
  <2>6. CASE Fail("server") /\ UNCHANGED <<keySet, keyCache>>
      BY <1>4, <2>1, <2>6
  <2>7. CASE UseKeys(keySet') /\ stale' = (phase' = "failed")
    <3>1. \/ phase' = "keyed" /\ failure' = failure
          \/ phase' = "failed" /\ stale'
        BY <2>7, Zenon DEF UseKeys
    <3> QED BY <2>2, <3>1 DEF CacheInv, NoKeyForCause
  <2> QED BY <2>1, <2>3, <2>4, <2>5, <2>6, <2>7 DEF KeysGot
<1>8. CASE BuildOutputs
  <2>1. /\ phase = "keyed" /\ phase' = "processing"
        /\ failure' = failure /\ stale' = stale /\ keyCache' = keyCache
      BY <1>8 DEF BuildOutputs
  <2> QED BY <1>1, <2>1 DEF CacheInv, NoKeyForCause
<1>9. CASE ProcessSegment
  <2>1. phase = "processing" /\ keyCache' = keyCache
      BY <1>9 DEF ProcessSegment
  <2>2. Fail("segment") \/ UNCHANGED <<phase, failure, stale>>
      BY <1>9, Zenon DEF ProcessSegment
  <2>3. CASE Fail("segment")
      BY <1>4, <2>1, <2>3
  <2>4. CASE UNCHANGED <<phase, failure, stale>>
      BY <1>1, <2>1, <2>4 DEF CacheInv, NoKeyForCause
  <2> QED BY <2>2, <2>3, <2>4
<1>10. CASE SegmentLost
    BY <1>4, <1>10 DEF SegmentLost
<1>11. CASE Finish
    BY <1>1, <1>11 DEF Finish, CleanupSensitiveData, CacheInv, NoKeyForCause
<1>12. CASE ExpireKeys
    BY <1>1, <1>12 DEF ExpireKeys, CacheInv, NoKeyForCause
<1>13. CASE UNCHANGED vars
  <2>1. /\ source' = source /\ request' = request /\ phase' = phase /\ failure' = failure
        /\ keyCache' = keyCache /\ stale' = stale
      BY <1>13 DEF vars
  <2> QED BY <1>1, <1>2, <2>1 DEF CacheInv, NoKeyForCause
<1>14. CASE NewJob \/ Republish
  <2>1. /\ phase \in {"done", "failed"} /\ phase' = "idle" /\ failure' = "none"
        /\ keyCache' = keyCache /\ stale' = stale
      BY <1>14, StepKinds DEF StartJob
  <2> QED BY <1>1, <2>1 DEF CacheInv, NoKeyForCause
<1> QED BY <1>5, <1>6, <1>7, <1>8, <1>9, <1>10, <1>11, <1>12, <1>13, <1>14, StepKinds DEF JobSteps

\* The key ids a server is asked for are a list.
LEMMA KidListIsList ==
    ASSUME NEW mapping, IsList(mapping)
    PROVE  IsList(KidList(mapping))
<1> DEFINE kids == [i \in 1 .. Len(mapping) |-> mapping[i].kid]
           I == {i \in 1 .. Len(kids) : \A j \in 1 .. i - 1 : kids[j] # kids[i]}
<1>1. KidList(mapping) = Chosen(kids, I)
    BY DEF KidList
<1>2. IsList(kids)
  <2>1. Len(mapping) \in Nat
      BY DEF IsList
  <2> QED BY <2>1, FunctionIsList
<1> HIDE DEF kids, I
<1>3. Chosen(kids, I) \in Seq(Range(kids))
    BY <1>2, ChosenType DEF IsList
<1> QED BY <1>1, <1>3, SeqIsList, Zenon

\* The key set of a job and the one in the cache come from where GetKeys takes
\* them, or are gone.
LEMMA KeysStep ==
    JobInv /\ [Next]_vars => KeysInv' /\ ("empty" \notin PsshForms /\ PsshInv => PsshInv')
<1> SUFFICES ASSUME JobInv, [Next]_vars
             PROVE  KeysInv' /\ ("empty" \notin PsshForms /\ PsshInv => PsshInv')
    OBVIOUS
<1> DEFINE Fine(keys) == /\ KeysTyped(keys)
                         /\ "empty" \notin PsshForms /\ PsshInv => PsshOfKeys(keys)
<1>1. Fine(keySet) /\ Fine(keyCache.set)
    BY DEF JobInv, KeysInv, PsshInv
<1>2. Fine(NoKeySet)
    BY EmptyIsList DEF NoKeySet, KeySet, KeysTyped, PsshOfKeys, SelfKeyed
<1>3. keySet' \in {keySet, NoKeySet} \/ Fine(keySet')
  <2>1. CASE GetKeys
    <3>1. KeysGot /\ phase = "validated"
        BY <2>1, GetKeysGets
    <3>2. IsList(request.raw)
        BY RequestsAssumption DEF JobInv, SourceInv
    <3>3. Fine(RawKeySet(request.raw))
        BY <3>2, RawKeys
    <3>4. ASSUME NEW document \in Answers(KidList(Mapping)) PROVE Fine(ParseCpixResponse(document))
      <4>1. IsList(KidList(Mapping))
        <5>1. WellFormed(source) /\ Readable
            BY <3>1 DEF JobInv, SourceInv, GateInv
        <5>2. IsList(Mapping)
            BY <5>1, JobMapping
        <5> QED BY <5>2, KidListIsList
      <4> QED BY <3>4, <4>1, AnswersRead
    <3>5. \/ keySet' = keySet
          \/ keySet' = RawKeySet(request.raw)
          \/ keySet' = keyCache.set
          \/ \E document \in Answers(KidList(Mapping)) : keySet' = ParseCpixResponse(document)
        BY <3>1, Zenon DEF KeysGot
    <3> HIDE DEF Fine
    <3> QED BY <1>1, <3>3, <3>4, <3>5
  <2>2. CASE NewJob \/ Republish
      BY <2>2, StepKinds DEF StartJob
  <2>3. CASE FetchSource \/ Validate \/ BuildOutputs \/ ProcessSegment \/ SegmentLost
             \/ Finish \/ ExpireKeys \/ UNCHANGED vars
      BY <2>3 DEF FetchSource, Validate, BuildOutputs, ProcessSegment, SegmentLost, Finish,
                  ExpireKeys, vars
  <2> QED BY <2>1, <2>2, <2>3, StepKinds DEF JobSteps
<1>4. keyCache' = keyCache \/ keyCache'.set = NoKeySet \/ keyCache'.set = keySet'
  <2>1. CASE GetKeys
    <3>1. KeysGot
        BY <2>1, GetKeysGets
    <3>2. \/ keyCache' = keyCache
          \/ keyCache' = [present |-> TRUE, set |-> keySet']
        BY <3>1, Zenon DEF KeysGot
    <3> QED BY <3>2
  <2>2. CASE NewJob \/ Republish
      BY <2>2, StepKinds DEF StartJob
  <2>3. CASE FetchSource \/ Validate \/ BuildOutputs \/ ProcessSegment \/ SegmentLost
             \/ Finish \/ ExpireKeys \/ UNCHANGED vars
      BY <2>3 DEF FetchSource, Validate, BuildOutputs, ProcessSegment, SegmentLost, Finish,
                  CleanupSensitiveData, ExpireKeys, vars
  <2> QED BY <2>1, <2>2, <2>3, StepKinds DEF JobSteps
<1>5. Fine(keySet') /\ Fine(keyCache'.set)
  <2> HIDE DEF Fine
  <2> QED BY <1>1, <1>2, <1>3, <1>4
<1> QED BY <1>5 DEF KeysInv, PsshInv

-----------------------------------------------------------------------------
(* What a segment adds to an output *)

\* The first boxes of the chunks, up to a box of the segment.
Places(k) == [b \in 1 .. k |-> b]
MoofsAt(segment) == {b \in 1 .. (Len(segment) - 1) :
                         segment[b].type = "moof" /\ segment[b + 1].type = "mdat"}
Starts(segment, k) == Chosen(Places(k), MoofsAt(segment))

\* A chunk starts at each moof and is that and the mdat after it.
LEMMA ChunksOfSegment ==
    ASSUME NEW segment, SegmentWellFormed(segment)
    PROVE  LET bs == ChunkBoundaries(segment)
           IN  /\ IsList(bs) /\ Len(bs) \in Nat /\ Len(bs) = Len(Starts(segment, Len(segment)))
               /\ \A c \in 1 .. Len(bs) :
                    /\ bs[c].from = Starts(segment, Len(segment))[c]
                    /\ bs[c].to = bs[c].from + 1
                    /\ bs[c].from \in 1 .. Len(segment) /\ bs[c].to \in 1 .. Len(segment)
                    /\ segment[bs[c].from].type = "moof" /\ segment[bs[c].to].type = "mdat"
<1> DEFINE n == Len(segment)
           starts == Starts(segment, n)
           at == MoofsAt(segment)
           bs == ChunkBoundaries(segment)
<1>1. n \in Nat
    BY DEF SegmentWellFormed, IsList
<1>2. Places(n) \in Seq(1 .. n) /\ Len(Places(n)) = n /\ \A b \in 1 .. n : Places(n)[b] = b
    BY <1>1 DEF Places
<1>3. starts \in Seq(1 .. n)
    BY <1>2, ChosenType DEF Starts
<1>4. \A c \in 1 .. Len(starts) : starts[c] \in at
  <2> SUFFICES ASSUME NEW c \in 1 .. Len(starts) PROVE starts[c] \in at
      OBVIOUS
  <2>1. PICK b \in 1 .. Len(Places(n)) : b \in at /\ Places(n)[b] = starts[c]
      BY <1>2, ChosenFrom DEF Starts
  <2> QED BY <1>2, <2>1
<1>5. bs = [c \in 1 .. Len(starts) |->
               [from |-> starts[c], to |-> starts[c] + 1,
                independent |-> IsIndependentChunk(segment[starts[c]])]]
    BY DEF ChunkBoundaries, Starts, MoofsAt, Places
<1> HIDE DEF starts
<1>6. Len(starts) \in Nat
    BY <1>3
<1>7. IsList(bs) /\ Len(bs) = Len(starts)
    BY <1>5, <1>6, FunctionIsList
<1>8. \A c \in 1 .. Len(starts) : bs[c].from = starts[c] /\ bs[c].to = starts[c] + 1
    BY <1>5
<1>9. \A b \in at : b \in 1 .. n /\ b + 1 \in 1 .. n /\ segment[b].type = "moof"
                    /\ segment[b + 1].type = "mdat"
    BY <1>1 DEF MoofsAt
<1> HIDE DEF bs, at
<1> QED BY <1>4, <1>6, <1>7, <1>8, <1>9 DEF bs, starts

\* A chunk of a segment is two boxes in a row.
Chunk(segment, b) == <<segment[b], segment[b + 1]>>

\* The chunks of a segment in a row are all its moofs and mdats.
LEMMA ChunksTile ==
    ASSUME NEW segment, SegmentWellFormed(segment)
    PROVE  LET bs == ChunkBoundaries(segment)
           IN  FlattenSeq([p \in 1 .. Len(bs) |-> ExtractChunk(segment, bs[p])])
                   = Chosen(segment, {b \in 1 .. Len(segment) : segment[b].type \in {"moof", "mdat"}})
<1> DEFINE n == Len(segment)
           S == Range(segment)
           at == MoofsAt(segment)
           media == {b \in 1 .. n : segment[b].type \in {"moof", "mdat"}}
           pre(k) == SubSeq(segment, 1, k)
           starts(k) == Starts(segment, k)
           pieces(k) == [p \in 1 .. Len(starts(k)) |-> Chunk(segment, starts(k)[p])]
           F(k) == FlattenSeq(pieces(k))
           M(k) == Chosen(pre(k), media)
           T == {k \in 0 .. n : F(k) = IF k \in at THEN Append(M(k), segment[k + 1]) ELSE M(k)}
<1>1. n \in Nat /\ segment \in Seq(S) /\ \A b \in 1 .. n : segment[b] \in S
    BY DEF SegmentWellFormed, IsList
<1>2. \A b : b \in at <=> b \in 1 .. n /\ segment[b].type = "moof"
    BY <1>1 DEF MoofsAt, SegmentWellFormed
<1>3. \A b \in at : b \in 1 .. n /\ b + 1 \in 1 .. n /\ segment[b + 1].type = "mdat"
    BY <1>1 DEF MoofsAt
<1>4. \A b \in 1 .. n : segment[b].type = "mdat" => b - 1 \in at
  <2> SUFFICES ASSUME NEW b \in 1 .. n, segment[b].type = "mdat" PROVE b - 1 \in at
      OBVIOUS
  <2>1. b > 1 /\ segment[b - 1].type = "moof"
      BY DEF SegmentWellFormed
  <2>2. b - 1 \in 1 .. n
      BY <1>1, <2>1
  <2> QED BY <1>2, <2>1, <2>2
<1> HIDE DEF n, S, at
<1>5. ASSUME NEW k \in 0 .. n
      PROVE  /\ Places(k) \in Seq(1 .. n) /\ Len(Places(k)) = k
             /\ pre(k) \in Seq(S) /\ Len(pre(k)) = k
  <2>1. Places(k) \in Seq(1 .. n) /\ Len(Places(k)) = k
      BY <1>1 DEF Places
  <2>2. pre(k) \in Seq(S) /\ Len(pre(k)) = k
      BY <1>1 DEF n
  <2> QED BY <2>1, <2>2
<1>6. ASSUME NEW k \in 0 .. n, k < n
      PROVE  /\ k \in Nat /\ k + 1 \in 1 .. n
             /\ Places(k + 1) = Append(Places(k), k + 1)
             /\ pre(k + 1) = Append(pre(k), segment[k + 1])
  <2>1. k \in Nat /\ k + 1 \in 1 .. n
      BY <1>1, <1>6
  <2>2. Places(k + 1) = Append(Places(k), k + 1)
      BY <2>1 DEF Places
  <2>3. pre(k + 1) = Append(pre(k), segment[k + 1])
      BY <1>1, <1>6, <2>1 DEF n
  <2> QED BY <2>1, <2>2, <2>3
<1>7. ASSUME NEW k \in 0 .. n
      PROVE  /\ Len(starts(k)) \in Nat
             /\ \A p \in 1 .. Len(starts(k)) : starts(k)[p] \in at
             /\ pieces(k) \in Seq(Seq(S)) /\ Len(pieces(k)) = Len(starts(k))
             /\ F(k) \in Seq(S) /\ M(k) \in Seq(S)
  <2>1. starts(k) \in Seq(1 .. n)
      BY <1>5, ChosenType DEF Starts
  <2>2. \A p \in 1 .. Len(starts(k)) : starts(k)[p] \in at
    <3> SUFFICES ASSUME NEW p \in 1 .. Len(starts(k)) PROVE starts(k)[p] \in at
        OBVIOUS
    <3>1. PICK b \in 1 .. Len(Places(k)) : b \in at /\ Places(k)[b] = starts(k)[p]
        BY <1>5, ChosenFrom DEF Starts, at
    <3>2. b \in 1 .. k
        BY <1>5, <3>1
    <3> QED BY <3>1, <3>2 DEF Places
  <2> HIDE DEF starts
  <2>3. \A p \in 1 .. Len(starts(k)) : Chunk(segment, starts(k)[p]) \in Seq(S)
    <3>1. \A x, y \in S : <<x, y>> \in Seq(S)
        OBVIOUS
    <3> QED BY <1>1, <1>3, <2>2, <3>1 DEF Chunk
  <2>4. pieces(k) \in Seq(Seq(S)) /\ Len(pieces(k)) = Len(starts(k)) /\ Len(starts(k)) \in Nat
      BY <2>1, <2>3
  <2>5. F(k) \in Seq(S)
    <3> HIDE DEF pieces
    <3> QED BY <2>4, FlattenType
  <2>6. M(k) \in Seq(S)
    <3> HIDE DEF pre, media
    <3> QED BY <1>5, ChosenType
  <2> QED BY <2>2, <2>4, <2>5, <2>6
<1>8. 0 \in T
  <2>1. 0 \in 0 .. n /\ 0 \notin at
      BY <1>1, <1>2
  <2>2. starts(0) = <<>>
    <3>1. Places(0) = <<>>
        BY DEF Places
    <3> QED BY <3>1, ChosenOfEmpty DEF Starts
  <2>3. F(0) = <<>>
    <3>1. pieces(0) = <<>>
      <4> HIDE DEF starts
      <4> QED BY <2>2
    <3> HIDE DEF pieces
    <3> QED BY <3>1, FlattenOfEmpty
  <2>4. M(0) = <<>>
    <3>1. pre(0) = <<>>
        BY <1>1
    <3> HIDE DEF pre, media
    <3> QED BY <3>1, ChosenOfEmpty
  <2> HIDE DEF F, M
  <2> QED BY <2>1, <2>3, <2>4
<1>9. ASSUME NEW k \in 0 .. n, k < n, k \in T PROVE k + 1 \in T
  <2> DEFINE x == segment[k + 1]
             y == segment[k + 2]
  <2>1. k \in Nat /\ k + 1 \in 1 .. n /\ k + 1 \in 0 .. n /\ x \in S /\ (k + 1) + 1 = k + 2
      BY <1>1, <1>6, <1>9
  <2>2. F(k) = IF k \in at THEN Append(M(k), x) ELSE M(k)
      BY <1>9
  <2>3. M(k + 1) = IF k + 1 \in media THEN Append(M(k), x) ELSE M(k)
    <3> HIDE DEF pre, media
    <3>1. Chosen(Append(pre(k), x), media) =
              IF Len(pre(k)) + 1 \in media THEN Append(Chosen(pre(k), media), x)
              ELSE Chosen(pre(k), media)
      <4> HIDE DEF x
      <4> QED BY <1>5, <2>1, ChosenOfAppend
    <3> QED BY <1>5, <1>6, <1>9, <3>1
  <2>4. starts(k + 1) = IF k + 1 \in at THEN Append(starts(k), k + 1) ELSE starts(k)
    <3>1. Chosen(Append(Places(k), k + 1), at) =
              IF Len(Places(k)) + 1 \in at THEN Append(Chosen(Places(k), at), k + 1)
              ELSE Chosen(Places(k), at)
        BY <1>5, <2>1, ChosenOfAppend
    <3> QED BY <1>5, <1>6, <1>9, <3>1 DEF Starts, at
  <2>5. CASE k + 1 \in at
    <3>1. k + 2 \in 1 .. n /\ x.type = "moof" /\ y \in S
        BY <1>1, <1>2, <1>3, <2>1, <2>5
    <3>2. k \notin at
        BY <1>3, <2>1, <3>1
    <3>3. M(k + 1) = Append(M(k), x)
        BY <2>1, <2>3, <3>1 DEF n
    <3>4. pieces(k + 1) = Append(pieces(k), <<x, y>>)
      <4> DEFINE st == starts(k)
                 new == starts(k + 1)
      <4>1. new = Append(st, k + 1) /\ Len(st) \in Nat /\ st \in Seq(at)
        <5>1. st \in Seq(1 .. n)
            BY <1>5, ChosenType DEF Starts
        <5>2. \A p \in 1 .. Len(st) : st[p] \in at
            BY <1>7
        <5> HIDE DEF st
        <5>3. st \in Seq(at)
            BY <5>1, <5>2
        <5> QED BY <2>4, <2>5, <5>3 DEF st
      <4>2. Chunk(segment, k + 1) = <<x, y>>
          BY <2>1 DEF Chunk
      <4> HIDE DEF st, new, x, y
      <4>3. Len(new) = Len(st) + 1 /\ new[Len(st) + 1] = k + 1
            /\ \A p \in 1 .. Len(st) : new[p] = st[p]
          BY <4>1
      <4> DEFINE a == [p \in 1 .. Len(new) |-> Chunk(segment, new[p])]
                 b == [p \in 1 .. Len(st) |-> Chunk(segment, st[p])]
      <4>4. a = Append(b, <<x, y>>)
          BY <4>1, <4>2, <4>3
      <4> QED BY <4>4 DEF st, new
    <3>5. F(k + 1) = Joined(F(k), <<x, y>>)
      <4>1. \A u, v \in S : <<u, v>> \in Seq(S)
          OBVIOUS
      <4>2. <<x, y>> \in Seq(S)
        <5> HIDE DEF x, y
        <5> QED BY <2>1, <3>1, <4>1
      <4>3. pieces(k) \in Seq(Seq(S))
          BY <1>7
      <4> HIDE DEF pieces, x, y
      <4> QED BY <3>4, <4>2, <4>3, FlattenOfAppend
    <3>6. Joined(F(k), <<x, y>>) = Append(Append(F(k), x), y)
      <4>1. F(k) \in Seq(S)
          BY <1>7
      <4> HIDE DEF F, x, y
      <4> QED BY <2>1, <3>1, <4>1 DEF Joined
    <3>7. F(k + 1) = Append(M(k + 1), y)
      <4> HIDE DEF F, M, x, y
      <4> QED BY <2>2, <3>2, <3>3, <3>5, <3>6
    <3> HIDE DEF F, M
    <3> QED BY <2>1, <2>5, <3>7
  <2>6. CASE k + 1 \notin at
    <3>1. F(k + 1) = F(k)
      <4> HIDE DEF starts
      <4> QED BY <2>4, <2>6
    <3>2. k \in at <=> k + 1 \in media
      <4>1. k \in at => x.type = "mdat"
          BY <1>3
      <4>2. x.type = "mdat" => k \in at
          BY <1>4, <2>1
      <4>3. x.type # "moof"
          BY <1>2, <2>1, <2>6
      <4> QED BY <2>1, <4>1, <4>2, <4>3
    <3>3. F(k + 1) = M(k + 1)
      <4> HIDE DEF F, M, media
      <4> QED BY <2>2, <2>3, <3>1, <3>2
    <3> HIDE DEF F, M
    <3> QED BY <2>1, <2>6, <3>3
  <2> QED BY <2>5, <2>6
<1>10. n \in T
  <2> HIDE DEF T
  <2>1. \A k \in 0 .. n : k < n /\ k \in T => k + 1 \in T
      BY <1>9
  <2>2. \A k \in 0 .. n : k \in T
      BY <1>1, <1>8, <2>1, CountUp, Zenon
  <2> QED BY <1>1, <2>2
<1>11. F(n) = M(n)
  <2>1. n \notin at
    <3>1. n + 1 \notin 1 .. n
        BY <1>1
    <3> QED BY <1>3, <3>1
  <2> HIDE DEF F, M
  <2> QED BY <1>10, <2>1
<1>12. pre(n) = segment
    BY <1>1 DEF n
<1>13. [p \in 1 .. Len(ChunkBoundaries(segment)) |->
            ExtractChunk(segment, ChunkBoundaries(segment)[p])] = pieces(n)
  <2> DEFINE bs == ChunkBoundaries(segment)
  <2>1. /\ Len(bs) = Len(starts(n))
        /\ \A c \in 1 .. Len(bs) :
             /\ bs[c].from = starts(n)[c] /\ bs[c].to = bs[c].from + 1
             /\ bs[c].from \in 1 .. n /\ bs[c].to \in 1 .. n
      BY ChunksOfSegment DEF n
  <2> HIDE DEF bs, starts
  <2>2. ASSUME NEW c \in 1 .. Len(bs)
        PROVE  ExtractChunk(segment, bs[c]) = Chunk(segment, starts(n)[c])
    <3> DEFINE b == bs[c].from
    <3>1. b \in 1 .. n /\ b + 1 \in 1 .. n /\ bs[c].to = b + 1 /\ starts(n)[c] = b
        BY <2>1
    <3> HIDE DEF b
    <3>2. SubSeq(segment, b, b + 1) = <<segment[b], segment[b + 1]>>
      <4> DEFINE r == SubSeq(segment, b, b + 1)
      <4>1. b \in Nat /\ b >= 1 /\ b + 1 <= Len(segment) /\ Len(segment) \in Nat
          BY <1>1, <3>1 DEF n
      <4>2. r \in Seq(S) /\ Len(r) = 2
          BY <1>1, <4>1
      <4>3. r[1] = segment[b] /\ r[2] = segment[b + 1]
          BY <1>1, <4>1
      <4> HIDE DEF r
      <4>4. r = <<r[1], r[2]>>
          BY <4>2
      <4> QED BY <4>3, <4>4 DEF r
    <3> QED BY <3>1, <3>2 DEF ExtractChunk, Chunk, b
  <2> QED BY <2>1, <2>2 DEF bs
<1> QED
  <2> HIDE DEF pieces, pre, media
  <2> QED BY <1>11, <1>12, <1>13 DEF media, n

\* The parts of a segment are its chunks, all of them or none.
AreParts(parts, segment, i) ==
    /\ IsList(parts) /\ Len(parts) \in Nat
    /\ \A p \in 1 .. Len(parts) : parts[p].segment = i - 1 /\ parts[p].part = p - 1
    /\ parts # <<>> =>
         FlattenSeq([p \in 1 .. Len(parts) |-> parts[p].data]) =
             Chosen(segment, {b \in 1 .. Len(segment) : segment[b].type \in {"moof", "mdat"}})

\* The parts cut out of a segment tile it: NewParts, detect_chunk_boundaries.
LEMMA PartsOfSegment ==
    ASSUME NEW segment, NEW i \in Nat, request.container # "ts" => SegmentWellFormed(segment)
    PROVE  AreParts(NewParts(segment, i), segment, i)
<1> DEFINE bs == Boundaries(segment)
           parts == NewParts(segment, i)
           all == [p \in 1 .. Len(bs) |-> [segment |-> i - 1, part |-> p - 1,
                                           data |-> ExtractChunk(segment, bs[p]),
                                           independent |-> bs[p].independent]]
           media == {b \in 1 .. Len(segment) : segment[b].type \in {"moof", "mdat"}}
<1>1. (parts = all /\ Len(bs) > 1) \/ parts = <<>>
    BY DEF NewParts
<1>2. CASE parts = <<>>
  <2> HIDE DEF parts
  <2> QED BY <1>2, EmptyIsList DEF parts, AreParts
<1>3. CASE parts = all /\ Len(bs) > 1
  <2>1. CASE bs = <<>>
    <3> HIDE DEF bs
    <3> QED BY <1>3, <2>1
  <2>2. CASE bs = ChunkBoundaries(segment) /\ request.container # "ts"
    <3>1. Len(bs) \in Nat /\ SegmentWellFormed(segment)
        BY <2>2, ChunksOfSegment
    <3>2. FlattenSeq([p \in 1 .. Len(bs) |-> ExtractChunk(segment, bs[p])]) = Chosen(segment, media)
        BY <2>2, <3>1, ChunksTile
    <3> HIDE DEF bs, media
    <3>3. IsList(all) /\ Len(all) = Len(bs)
        BY <3>1, FunctionIsList
    <3>4. \A p \in 1 .. Len(all) : all[p].segment = i - 1 /\ all[p].part = p - 1
        BY <3>3
    <3>5. [p \in 1 .. Len(all) |-> all[p].data] =
              [p \in 1 .. Len(bs) |-> ExtractChunk(segment, bs[p])]
      <4>1. \A p \in 1 .. Len(bs) : all[p].data = ExtractChunk(segment, bs[p])
          OBVIOUS
      <4> HIDE DEF all
      <4> QED BY <3>3, <4>1
    <3> HIDE DEF all, parts
    <3> QED BY <1>3, <3>1, <3>2, <3>3, <3>4, <3>5 DEF parts, media, AreParts
  <2> QED BY <2>1, <2>2 DEF Boundaries
<1> QED BY <1>1, <1>2, <1>3

\* The I-frame entry of a segment, if it has one, is one of its chunks.
AreIframes(iframes, segment, i) ==
    /\ IsList(iframes) /\ Len(iframes) \in Nat
    /\ \A f \in 1 .. Len(iframes) :
         /\ iframes[f].segment = i - 1
         /\ segment[iframes[f].from].type = "moof"
         /\ segment[iframes[f].to].type = "mdat"

\* The I-frame entry of a segment is a moof with its mdat.
LEMMA IframesOfSegment ==
    ASSUME NEW segment, NEW i \in Nat, request.container # "ts" => SegmentWellFormed(segment)
    PROVE  AreIframes(NewIframes(segment, i), segment, i)
<1> DEFINE bs == Boundaries(segment)
           I == {b \in 1 .. Len(bs) : bs[b].independent}
           independent == Chosen(bs, I)
           iframes == NewIframes(segment, i)
           entry == [segment |-> i - 1, from |-> independent[1].from, to |-> independent[1].to]
<1>1. \/ iframes = <<>>
      \/ iframes = <<entry>> /\ independent # <<>>
    BY Zenon DEF NewIframes
<1>2. CASE iframes = <<>>
  <2> HIDE DEF iframes
  <2> QED BY <1>2, EmptyIsList DEF iframes, AreIframes
<1>3. CASE iframes = <<entry>> /\ independent # <<>>
  <2>1. CASE bs = <<>>
    <3> HIDE DEF bs, I
    <3>1. independent = <<>>
        BY <2>1, ChosenOfEmpty
    <3> QED BY <1>3, <3>1
  <2>2. CASE bs = ChunkBoundaries(segment) /\ request.container # "ts"
    <3>1. /\ IsList(bs)
          /\ \A c \in 1 .. Len(bs) : segment[bs[c].from].type = "moof"
                                     /\ segment[bs[c].to].type = "mdat"
        BY <2>2, ChunksOfSegment
    <3> HIDE DEF bs, I
    <3>2. independent \in Seq(Range(bs)) /\ bs \in Seq(Range(bs))
        BY <3>1, ChosenType DEF IsList
    <3>3. 1 \in 1 .. Len(independent)
      <4> HIDE DEF independent
      <4> QED BY <1>3, <3>2
    <3>4. PICK c \in 1 .. Len(bs) : bs[c] = independent[1]
        BY <3>2, <3>3, ChosenFrom
    <3> HIDE DEF independent
    <3>5. entry.segment = i - 1 /\ entry.from = bs[c].from /\ entry.to = bs[c].to
        BY <3>4
    <3> HIDE DEF entry
    <3>6. <<entry>> \in Seq({entry}) /\ Len(<<entry>>) = 1 /\ <<entry>>[1] = entry
        OBVIOUS
    <3>7. IsList(<<entry>>)
        BY <3>6, SeqIsList, Zenon
    <3>8. \A f \in 1 .. 1 : f = 1
        OBVIOUS
    <3> HIDE DEF iframes
    <3>9. iframes = <<entry>> /\ Len(iframes) = 1 /\ iframes[1] = entry
        BY <1>3, <3>6
    <3> QED BY <3>1, <3>5, <3>7, <3>8, <3>9 DEF iframes, AreIframes
  <2> QED BY <2>1, <2>2 DEF Boundaries
<1> QED BY <1>1, <1>2, <1>3

\* The splice messages of a segment, and the ad breaks made of them.
Splices(segment) ==
    {b \in 1 .. Len(segment) :
        segment[b].type = "emsg" /\ IsScte35Emsg(segment[b]) /\ segment[b].message.valid}

AreBreaks(breaks, segment, number) ==
    /\ IsList(breaks) /\ Len(breaks) \in Nat
    /\ \A b \in 1 .. Len(breaks) : breaks[b].segment = number
    /\ Len(breaks) = Cardinality(Splices(segment))

\* Each valid splice message of a segment makes one ad break of that segment:
\* extract_emsg_boxes and extract_ad_breaks.
LEMMA BreaksOfSegment ==
    ASSUME NEW segment, IsList(segment), NEW number, NEW time
    PROVE  AreBreaks(ExtractAdBreaks(ExtractEmsgBoxes(segment), number, time), segment, number)
<1> DEFINE S == Range(segment)
           I == {b \in 1 .. Len(segment) : segment[b].type = "emsg"}
           emsgs == Chosen(segment, I)
           P == {x \in S : IsScte35Emsg(x) /\ x.message.valid}
           J == {e \in 1 .. Len(emsgs) : IsScte35Emsg(emsgs[e]) /\ emsgs[e].message.valid}
           splices == Chosen(emsgs, J)
           breaks == [i \in 1 .. Len(splices) |-> AdBreak(splices[i], number, time)]
<1>1. segment \in Seq(S) /\ \A b \in 1 .. Len(segment) : segment[b] \in S
    BY DEF IsList
<1>2. ExtractEmsgBoxes(segment) = emsgs
    BY DEF ExtractEmsgBoxes, BoxesOf
<1>3. ExtractAdBreaks(ExtractEmsgBoxes(segment), number, time) = breaks
    BY <1>2, Zenon DEF ExtractAdBreaks
<1> HIDE DEF S
<1>4. emsgs \in Seq(S)
  <2> HIDE DEF I
  <2> QED BY <1>1, ChosenType
<1>5. splices \in Seq(S)
  <2> HIDE DEF emsgs, J
  <2> QED BY <1>4, ChosenType
<1>6. Len(splices) \in Nat
  <2> HIDE DEF splices
  <2> QED BY <1>5
<1>7. IsList(breaks) /\ Len(breaks) = Len(splices)
  <2> HIDE DEF splices
  <2> QED BY <1>6, FunctionIsList
<1>8. \A b \in 1 .. Len(splices) : breaks[b].segment = number
  <2> HIDE DEF splices
  <2> QED BY DEF AdBreak
<1>9. Len(splices) = Cardinality(J)
  <2>1. {e \in 1 .. Len(emsgs) : e \in J} = J
      OBVIOUS
  <2>2. Len(splices) = Cardinality({e \in 1 .. Len(emsgs) : e \in J})
    <3> HIDE DEF emsgs, J
    <3> QED BY <1>4, ChosenLength
  <2> HIDE DEF splices, J
  <2> QED BY <2>1, <2>2
<1>10. Cardinality(J) = Cardinality(Splices(segment))
  <2> DEFINE A == {k \in 1 .. Len(emsgs) : emsgs[k] \in P}
             B == {b \in 1 .. Len(segment) : b \in I /\ segment[b] \in P}
  <2>1. Cardinality(A) = Cardinality(B)
    <3>1. CountIn(emsgs, P) = CountAt(segment, I, P)
      <4> HIDE DEF I, P
      <4> QED BY <1>1, ChosenCount
    <3> HIDE DEF I, P, emsgs
    <3> QED BY <3>1 DEF CountIn, CountAt
  <2>2. A = J
    <3> HIDE DEF emsgs
    <3> QED BY <1>4
  <2>3. B = Splices(segment)
      BY <1>1 DEF Splices
  <2> HIDE DEF A, B, J
  <2> QED BY <2>1, <2>2, <2>3
<1> HIDE DEF splices, breaks, J
<1> QED BY <1>3, <1>6, <1>7, <1>8, <1>9, <1>10, Zenon DEF AreBreaks

\* A further segment only adds to an output.
Extends(new, o, segment, i, breaks) ==
    /\ new.ts = o.ts /\ new.init = o.init /\ new.drm = o.drm
    /\ new.segments = Append(o.segments, segment)
    /\ new.parts = Joined(o.parts, NewParts(segment, i))
    /\ new.iframes = Joined(o.iframes, NewIframes(segment, i))
    /\ new.adBreaks = Joined(o.adBreaks, breaks)

\* An output with a further segment has what it had, and what the segment adds.
LEMMA ExtendedFits ==
    ASSUME NEW o, IsOutput(o), NEW segment, NEW i \in Nat, NEW breaks, IsList(breaks),
           request.container # "ts" => SegmentWellFormed(segment)
    PROVE  LET new == Extended(o, segment, i, breaks)
           IN  IsOutput(new) /\ Extends(new, o, segment, i, breaks)
<1> DEFINE new == Extended(o, segment, i, breaks)
           a == o.ts
           b == o.init
           c == o.drm
           d == o.segments
           e == o.parts
           f == o.iframes
           g == o.adBreaks
           h == o.ended
           d2 == Append(d, segment)
           e2 == Joined(e, NewParts(segment, i))
           f2 == Joined(f, NewIframes(segment, i))
           g2 == Joined(g, breaks)
           h2 == (i = Len(source.segments) /\ ~source.live)
           o2 == [ts |-> a, init |-> b, drm |-> c, segments |-> d2, parts |-> e2, iframes |-> f2,
                  adBreaks |-> g2, ended |-> h2]
<1>1. /\ o = [ts |-> a, init |-> b, drm |-> c, segments |-> d, parts |-> e, iframes |-> f,
              adBreaks |-> g, ended |-> h]
      /\ IsList(d) /\ IsList(e) /\ IsList(f) /\ IsList(g)
    BY DEF IsOutput
<1>2. IsList(d2)
  <2> HIDE DEF d
  <2> QED BY <1>1, AppendIsList
<1>3. IsList(NewParts(segment, i)) /\ IsList(NewIframes(segment, i))
    BY PartsOfSegment, IframesOfSegment DEF AreParts, AreIframes
<1>4. IsList(e2) /\ IsList(f2) /\ IsList(g2)
  <2> HIDE DEF e, f, g
  <2> QED BY <1>1, <1>3, JoinedIsList DEF IsJoin
<1>5. new = [o EXCEPT !.segments = d2, !.parts = e2, !.iframes = f2, !.adBreaks = g2, !.ended = h2]
  <2> HIDE DEF h2
  <2> QED BY Zenon DEF Extended, Joined, h2
<1> HIDE DEF new, a, b, c, d, e, f, g, h, d2, e2, f2, g2, h2
<1>6. new = o2
    BY <1>1, <1>5
<1>7. /\ o2.ts = a /\ o2.init = b /\ o2.drm = c /\ o2.segments = d2 /\ o2.parts = e2
      /\ o2.iframes = f2 /\ o2.adBreaks = g2 /\ o2.ended = h2
    OBVIOUS
<1> HIDE DEF o2
<1>8. IsOutput(new)
    BY <1>2, <1>4, <1>6, <1>7 DEF IsOutput, o2
<1> QED BY <1>6, <1>7, <1>8, Zenon DEF Extends, a, b, c, d2, e2, f2, g2, d, e, f, g, new

-----------------------------------------------------------------------------
(* Outputs *)

\* How a step leaves the outputs of the job.
Untouched ==
    /\ outputs' = outputs /\ next' = next /\ source' = source /\ request' = request
    /\ \/ phase' = phase
       \/ phase' = "failed"
       \/ phase \in {"idle", "fetched", "validated"} /\ phase' \in {"fetched", "validated", "keyed"}
       \/ phase' = "done" /\ next = Len(source.segments) /\ phase = "processing"

Created ==
    /\ phase = "keyed" /\ source' = source /\ request' = request /\ phase' = "processing"
    /\ next' = 0 /\ outputs' = [s \in Targets |-> NewOutput(s)]

BreaksOf(i) == ExtractAdBreaks(ExtractEmsgBoxes(SegmentData(i)), i - 1, elapsed)

Grown ==
    LET i == next + 1
    IN  /\ phase = "processing" /\ source' = source /\ request' = request /\ phase' = "processing"
        /\ next < Len(source.segments) /\ next' = i
        /\ \A s \in Targets : Rewritten(s, i).ok
        /\ outputs' = [s \in Targets |-> Extended(outputs[s], Rewritten(s, i).boxes, i, BreaksOf(i))]

Dropped ==
    phase' = "idle" /\ next' = 0 /\ DOMAIN outputs' = {}

\* A step leaves the outputs alone, makes them, adds a segment, or drops them.
LEMMA OutputsChange ==
    JobInv /\ [Next]_vars => Untouched \/ Created \/ Grown \/ Dropped
<1> SUFFICES ASSUME JobInv, [Next]_vars PROVE Untouched \/ Created \/ Grown \/ Dropped
    OBVIOUS
<1>1. CASE FetchSource \/ Validate \/ SegmentLost
    BY <1>1 DEF FetchSource, Validate, SegmentLost, Fail, Untouched
<1>2. CASE GetKeys
  <2>1. phase = "validated" /\ outputs' = outputs /\ next' = next
        /\ source' = source /\ request' = request
      BY <1>2 DEF GetKeys
  <2>2. phase' \in {"keyed", "failed"}
    <3>1. \A keys : UseKeys(keys) => phase' \in {"keyed", "failed"}
        BY DEF UseKeys
    <3>2. \A why : Fail(why) => phase' \in {"keyed", "failed"}
        BY DEF Fail
    <3> QED BY <1>2, <3>1, <3>2, GetKeysGets DEF KeysGot
  <2> QED BY <2>1, <2>2 DEF Untouched
<1>3. CASE BuildOutputs
    BY <1>3 DEF BuildOutputs, Created
<1>4. CASE ProcessSegment
  <2>1. CASE Fail("segment") /\ UNCHANGED <<outputs, next, elapsed>>
      BY <1>4, <2>1 DEF ProcessSegment, Fail, Untouched
  <2>2. CASE /\ \A s \in Targets : Rewritten(s, next + 1).ok
             /\ outputs' = [s \in Targets |->
                    Extended(outputs[s], Rewritten(s, next + 1).boxes, next + 1,
                             ExtractAdBreaks(ExtractEmsgBoxes(SegmentData(next + 1)),
                                             (next + 1) - 1, elapsed))]
             /\ next' = next + 1
             /\ UNCHANGED <<phase, failure, stale>>
    <3>1. phase = "processing" /\ next < Len(source.segments) /\ source' = source
          /\ request' = request /\ phase' = "processing"
        BY <1>4, <2>2 DEF ProcessSegment
    <3> QED BY <2>2, <3>1, Zenon DEF Grown, BreaksOf
  <2> QED BY <1>4, <2>1, <2>2, Zenon DEF ProcessSegment
<1>5. CASE Finish
    BY <1>5 DEF Finish, Untouched
<1>6. CASE ExpireKeys \/ UNCHANGED vars
    BY <1>6 DEF ExpireKeys, vars, Untouched
<1>7. CASE NewJob \/ Republish
    BY <1>7, StepKinds DEF StartJob, Dropped
<1> QED BY <1>1, <1>2, <1>3, <1>4, <1>5, <1>6, <1>7, StepKinds DEF JobSteps

\* The output that a job begins with is fit to be read back.
LEMMA NewOutputFits ==
    ASSUME JobInv, phase = "keyed", NEW s \in Targets
    PROVE  OutputFits(NewOutput(s), request.container, 0)
<1> DEFINE o == NewOutput(s)
           a == NewInit(s)
           b == NewDrmInfo(s)
           c == (request.container = "ts")
<1>1. InitWellFormed(a)
    BY NewInitFits DEF JobInv, SourceInv, GateInv
<1>2. o = [ts |-> c, init |-> a, drm |-> b, segments |-> <<>>, parts |-> <<>>, iframes |-> <<>>,
           adBreaks |-> <<>>, ended |-> FALSE]
    BY Zenon DEF NewOutput
<1> HIDE DEF o, a, b, c
<1>3. /\ o.ts = c /\ o.init = a /\ o.drm = b /\ o.segments = <<>> /\ o.parts = <<>>
      /\ o.iframes = <<>> /\ o.adBreaks = <<>> /\ o.ended = FALSE
    BY <1>2
<1>4. IsOutput(o)
    BY <1>2, <1>3, EmptyIsList DEF IsOutput
<1>5. OutputFits(o, request.container, 0)
    BY <1>1, <1>3, <1>4 DEF OutputFits, c
<1> QED BY <1>5 DEF o

\* What a job adds to the output of a target with the next segment.
Grows(s) ==
    LET i == next + 1
        segment == Rewritten(s, i).boxes
    IN  /\ next \in Nat /\ i \in 1 .. Len(source.segments)
        /\ DOMAIN outputs = Targets /\ OutputFits(outputs[s], request.container, next)
        /\ IF request.container = "ts" THEN TsWellFormed(segment) ELSE SegmentWellFormed(segment)
        /\ AreBreaks(BreaksOf(i), SegmentData(i), i - 1)
        /\ IsOutput(outputs'[s])
        /\ Extends(outputs'[s], outputs[s], segment, i, BreaksOf(i))

\* Processing a segment makes each output grow by that segment alone.
LEMMA GrownGrows == ASSUME JobInv, Grown, NEW s \in Targets PROVE Grows(s)
<1> DEFINE o == outputs[s]
           new == outputs'[s]
           i == next + 1
           segment == Rewritten(s, i).boxes
           breaks == BreaksOf(i)
<1>1. /\ WellFormed(source) /\ next \in Nat /\ i \in 1 .. Len(source.segments)
      /\ DOMAIN outputs = Targets /\ OutputFits(o, request.container, next)
  <2>1. WellFormed(source) /\ next \in 0 .. Len(source.segments)
      BY DEF JobInv, SourceInv, TypeOK
  <2>2. Len(source.segments) \in Nat
      BY <2>1 DEF WellFormed, IsList
  <2>3. DOMAIN outputs = Targets /\ OutputInv(s)
      BY DEF JobInv, OutputsInv, Grown
  <2> QED BY <2>1, <2>2, <2>3 DEF Grown, OutputInv
<1>2. new = Extended(o, segment, i, breaks) /\ Rewritten(s, i).ok
    BY DEF Grown
<1>3. IF request.container = "ts" THEN TsWellFormed(segment) ELSE SegmentWellFormed(segment)
    BY <1>1, <1>2, RewrittenFits
<1>4. AreBreaks(breaks, SegmentData(i), i - 1)
  <2>1. IsList(SegmentData(i))
      BY <1>1, SegmentDataFits DEF SegmentWellFormed
  <2> QED BY <2>1, BreaksOfSegment DEF BreaksOf
<1> HIDE DEF segment, breaks, new, o
<1>5. IsOutput(new) /\ Extends(new, o, segment, i, breaks)
  <2>1. /\ IsOutput(o) /\ i \in Nat /\ IsList(breaks)
        /\ request.container # "ts" => SegmentWellFormed(segment)
      BY <1>1, <1>3, <1>4 DEF OutputFits, AreBreaks
  <2> HIDE DEF i
  <2> QED BY <1>2, <2>1, ExtendedFits
<1> QED BY <1>1, <1>3, <1>4, <1>5 DEF Grows, segment, breaks, new, o

\* The next segment of the job for one target.
LEMMA GrownOutputFits ==
    ASSUME JobInv, Grown, NEW s \in Targets
    PROVE  OutputFits(outputs'[s], request.container, next + 1)
<1> DEFINE o == outputs[s]
           new == outputs'[s]
           i == next + 1
           segment == Rewritten(s, i).boxes
           breaks == BreaksOf(i)
<1>1. Grows(s)
    BY GrownGrows
<1>2. /\ next \in Nat /\ i \in 1 .. Len(source.segments)
      /\ OutputFits(o, request.container, next)
    BY <1>1 DEF Grows
<1>3. IF request.container = "ts" THEN TsWellFormed(segment) ELSE SegmentWellFormed(segment)
    BY <1>1 DEF Grows
<1>4. IsList(breaks) /\ \A b \in 1 .. Len(breaks) : breaks[b].segment = i - 1
    BY <1>1 DEF Grows, AreBreaks
<1>5. /\ IsOutput(new) /\ new.ts = o.ts /\ new.init = o.init
      /\ new.segments = Append(o.segments, segment)
      /\ new.parts = Joined(o.parts, NewParts(segment, i))
      /\ new.adBreaks = Joined(o.adBreaks, breaks)
    BY <1>1 DEF Grows, Extends
<1> HIDE DEF segment, breaks, new, o
<1>6. /\ IsList(o.segments) /\ IsList(o.parts) /\ IsList(o.adBreaks)
      /\ o.ts = (request.container = "ts") /\ Len(o.segments) = next
      /\ ~o.ts => InitWellFormed(o.init)
      /\ \A k \in 1 .. next : IF o.ts THEN TsWellFormed(o.segments[k])
                              ELSE SegmentWellFormed(o.segments[k])
      /\ \A p \in 1 .. Len(o.parts) : o.parts[p].segment \in 0 .. next - 1
      /\ \A b \in 1 .. Len(o.adBreaks) : o.adBreaks[b].segment \in 0 .. next - 1
    BY <1>2 DEF OutputFits, IsOutput
<1>7. /\ Len(new.segments) = i
      /\ \A k \in 1 .. i : IF new.ts THEN TsWellFormed(new.segments[k])
                           ELSE SegmentWellFormed(new.segments[k])
  <2>1. /\ Len(new.segments) = i /\ new.segments[i] = segment
        /\ \A k \in 1 .. next : new.segments[k] = o.segments[k]
      BY <1>2, <1>5, <1>6, AppendIsList
  <2>2. \A k \in 1 .. i : k \in 1 .. next \/ k = i
      BY <1>2
  <2>3. ASSUME NEW k \in 1 .. i
        PROVE  IF new.ts THEN TsWellFormed(new.segments[k]) ELSE SegmentWellFormed(new.segments[k])
    <3>1. CASE k = i
        BY <1>3, <1>5, <1>6, <2>1, <3>1
    <3>2. CASE k \in 1 .. next
        BY <1>5, <1>6, <2>1, <3>2
    <3> QED BY <2>2, <3>1, <3>2
  <2> QED BY <2>1, <2>3
<1>8. \A a, b : IsList(a) /\ IsList(b)
                /\ (\A k \in 1 .. Len(a) : a[k].segment \in 0 .. next - 1)
                /\ (\A k \in 1 .. Len(b) : b[k].segment = i - 1)
                => \A k \in 1 .. Len(Joined(a, b)) : Joined(a, b)[k].segment \in 0 .. i - 1
  <2> SUFFICES ASSUME NEW a, NEW b, IsList(a), IsList(b),
                      \A k \in 1 .. Len(a) : a[k].segment \in 0 .. next - 1,
                      \A k \in 1 .. Len(b) : b[k].segment = i - 1,
                      NEW k \in 1 .. Len(Joined(a, b))
               PROVE  Joined(a, b)[k].segment \in 0 .. i - 1
      OBVIOUS
  <2>0. IsJoin(Joined(a, b), a, b)
      BY JoinedIsList
  <2>1. /\ Len(Joined(a, b)) = Len(a) + Len(b) /\ Len(a) \in Nat /\ Len(b) \in Nat
        /\ \A j \in 1 .. Len(a) : Joined(a, b)[j] = a[j]
        /\ \A j \in 1 .. Len(b) : Joined(a, b)[Len(a) + j] = b[j]
      BY <2>0 DEF IsJoin
  <2>2. CASE k \in 1 .. Len(a)
      BY <1>2, <2>1, <2>2
  <2>3. CASE k \notin 1 .. Len(a)
    <3>1. k - Len(a) \in 1 .. Len(b) /\ Len(a) + (k - Len(a)) = k
        BY <2>1, <2>3
    <3>2. Joined(a, b)[k] = b[k - Len(a)]
        BY <2>1, <3>1
    <3>3. Joined(a, b)[k].segment = i - 1
        BY <3>1, <3>2
    <3> QED BY <1>2, <3>3
  <2> QED BY <2>2, <2>3
<1>9. IsList(NewParts(segment, i)) /\ \A p \in 1 .. Len(NewParts(segment, i)) :
          NewParts(segment, i)[p].segment = i - 1
  <2>1. i \in Nat
      BY <1>2
  <2> HIDE DEF i
  <2>2. AreParts(NewParts(segment, i), segment, i)
      BY <1>3, <2>1, PartsOfSegment
  <2> QED BY <2>2 DEF AreParts
<1>10. \A p \in 1 .. Len(new.parts) : new.parts[p].segment \in 0 .. i - 1
    BY <1>5, <1>6, <1>8, <1>9
<1>11. \A b \in 1 .. Len(new.adBreaks) : new.adBreaks[b].segment \in 0 .. i - 1
    BY <1>4, <1>5, <1>6, <1>8
<1>12. OutputFits(new, request.container, i)
    BY <1>5, <1>6, <1>7, <1>10, <1>11 DEF OutputFits
<1> QED BY <1>12 DEF new

\* The outputs of a job grow together, in step with the segments.
LEMMA OutputsStep == JobInv /\ [Next]_vars => OutputsInv'
<1> SUFFICES ASSUME JobInv, [Next]_vars PROVE OutputsInv'
    OBVIOUS
<1>1. OutputsInv
    BY DEF JobInv
<1>2. source' = source /\ request' = request => Targets' = Targets
    BY SameJob
<1>3. CASE Untouched
    BY <1>1, <1>2, <1>3 DEF Untouched, OutputsInv, OutputInv
<1>4. CASE Created
  <2>1. \A s \in Targets : OutputFits(NewOutput(s), request.container, 0)
      BY <1>4, NewOutputFits DEF Created
  <2>2. /\ phase' = "processing" /\ next' = 0 /\ request' = request /\ Targets' = Targets
        /\ DOMAIN outputs' = Targets /\ \A s \in Targets : outputs'[s] = NewOutput(s)
      BY <1>2, <1>4 DEF Created
  <2> QED BY <2>1, <2>2 DEF OutputsInv, OutputInv
<1>5. CASE Grown
  <2>1. \A s \in Targets : OutputFits(outputs'[s], request.container, next + 1)
      BY <1>5, GrownOutputFits
  <2>2. /\ phase' = "processing" /\ next' = next + 1 /\ request' = request /\ Targets' = Targets
        /\ DOMAIN outputs' = Targets
      BY <1>2, <1>5 DEF Grown
  <2> QED BY <2>1, <2>2 DEF OutputsInv, OutputInv
<1>6. CASE Dropped
    BY <1>6 DEF Dropped, OutputsInv
<1> QED BY <1>3, <1>4, <1>5, <1>6, OutputsChange

-----------------------------------------------------------------------------
(* Types, and the invariant *)

\* Every step keeps the types.
LEMMA TypeStep == JobInv /\ [Next]_vars => TypeOK'
<1> SUFFICES ASSUME JobInv, [Next]_vars PROVE TypeOK'
    OBVIOUS
<1>1. TypeOK /\ CacheInv /\ WellFormed(source) /\ WellFormed(source)'
    BY SourceStep DEF JobInv, SourceInv
<1>2. \A src : WellFormed(src) => Len(src.segments) \in Nat
    BY DEF WellFormed, IsList
<1>3. DOMAIN outputs' \in {{}, Targets'}
    BY OutputsStep DEF OutputsInv
<1>4. phase' \in Phases /\ failure' \in Failures
  <2>1. \A why \in Failures : Fail(why) => phase' \in Phases /\ failure' \in Failures
      BY DEF Fail, Phases
  <2>2. phase \in Phases /\ failure \in Failures
      BY <1>1 DEF TypeOK
  <2>3. /\ "fetch" \in Failures /\ "segment" \in Failures /\ "scheme" \in Failures
        /\ "invalid" \in Failures /\ "server" \in Failures /\ "nokey" \in Failures
        /\ "none" \in Failures
      BY DEF Failures
  <2>4. {"idle", "fetched", "validated", "keyed", "processing", "done", "failed"} \subseteq Phases
      BY DEF Phases
  <2> HIDE DEF Phases, Failures
  <2>5. CASE FetchSource
      BY <2>1, <2>2, <2>3, <2>4, <2>5 DEF FetchSource
  <2>6. CASE Validate
      BY <2>1, <2>2, <2>3, <2>4, <2>6 DEF Validate
  <2>7. CASE GetKeys
    <3>1. \A keys : UseKeys(keys) => phase' \in Phases /\ failure' \in Failures
        BY <2>2, <2>3, <2>4 DEF UseKeys
    <3>2. KeysGot
        BY <2>7, GetKeysGets
    <3> QED BY <2>1, <2>2, <2>3, <2>4, <3>1, <3>2 DEF KeysGot
  <2>8. CASE ProcessSegment
    <3>1. Fail("segment") \/ UNCHANGED <<phase, failure, stale>>
        BY <2>8, Zenon DEF ProcessSegment
    <3> QED BY <2>1, <2>2, <2>3, <3>1
  <2>9. CASE BuildOutputs \/ SegmentLost \/ Finish \/ ExpireKeys \/ UNCHANGED vars
      BY <2>1, <2>2, <2>3, <2>4, <2>9 DEF BuildOutputs, SegmentLost, Finish, ExpireKeys, vars
  <2>10. CASE NewJob \/ Republish
      BY <2>3, <2>4, <2>10, StepKinds DEF StartJob
  <2> QED BY <2>5, <2>6, <2>7, <2>8, <2>9, <2>10, StepKinds DEF JobSteps
<1>5. keyCache'.present \in BOOLEAN /\ stale' \in BOOLEAN
  <2>1. keyCache.present \in BOOLEAN /\ stale \in BOOLEAN
      BY <1>1 DEF TypeOK
  <2>2. \A why : Fail(why) => stale' \in BOOLEAN
      BY <2>1 DEF Fail
  <2>3. CASE FetchSource
      BY <2>1, <2>2, <2>3 DEF FetchSource
  <2>4. CASE Validate
      BY <2>1, <2>2, <2>4 DEF Validate
  <2>5. CASE GetKeys
    <3>1. \/ UNCHANGED <<keyCache, stale>>
          \/ Fail("server") /\ keyCache' = keyCache
          \/ keyCache' = [present |-> TRUE, set |-> keySet'] /\ stale' = (phase' = "failed")
        BY <2>5, GetKeysGets DEF KeysGot
    <3>2. CASE keyCache' = [present |-> TRUE, set |-> keySet'] /\ stale' = (phase' = "failed")
      <4>1. keyCache'.present = TRUE
          BY <3>2
      <4>2. stale' \in BOOLEAN
          BY <3>2, Zenon
      <4> QED BY <4>1, <4>2
    <3> QED BY <2>1, <2>2, <3>1, <3>2
  <2>6. CASE ProcessSegment
    <3>1. (Fail("segment") \/ UNCHANGED <<phase, failure, stale>>) /\ keyCache' = keyCache
        BY <2>6, Zenon DEF ProcessSegment
    <3> QED BY <2>1, <2>2, <3>1
  <2>7. CASE Finish \/ ExpireKeys
    <3>1. keyCache' = [present |-> FALSE, set |-> NoKeySet] /\ stale' = FALSE
        BY <2>7 DEF Finish, CleanupSensitiveData, ExpireKeys
    <3>2. keyCache'.present = FALSE
        BY <3>1
    <3> QED BY <3>1, <3>2
  <2>8. CASE BuildOutputs \/ SegmentLost \/ UNCHANGED vars
      BY <2>1, <2>2, <2>8 DEF BuildOutputs, SegmentLost, vars
  <2>9. CASE NewJob \/ Republish
      BY <2>1, <2>9, StepKinds DEF StartJob
  <2> QED BY <2>3, <2>4, <2>5, <2>6, <2>7, <2>8, <2>9, StepKinds DEF JobSteps
<1>6. /\ next' \in 0 .. Len(source'.segments) /\ elapsed' \in Nat
      /\ phase' \in {"processing", "done"} => elapsed' = next'
  <2>1. /\ next \in 0 .. Len(source.segments) /\ elapsed \in Nat
        /\ phase \in {"processing", "done"} => elapsed = next
      BY <1>1 DEF TypeOK
  <2>2. CASE FetchSource \/ Validate \/ SegmentLost \/ Finish \/ ExpireKeys \/ UNCHANGED vars
      BY <2>1, <2>2 DEF FetchSource, Validate, SegmentLost, Finish, ExpireKeys, vars, Fail
  <2>3. CASE GetKeys
    <3>1. next' = next /\ elapsed' = elapsed /\ source' = source
        BY <2>3 DEF GetKeys
    <3>2. phase' \in {"keyed", "failed"}
      <4>1. \A keys : UseKeys(keys) => phase' \in {"keyed", "failed"}
          BY DEF UseKeys
      <4>2. \A why : Fail(why) => phase' \in {"keyed", "failed"}
          BY DEF Fail
      <4> QED BY <2>3, <4>1, <4>2, GetKeysGets DEF KeysGot
    <3> QED BY <2>1, <3>1, <3>2
  <2>4. CASE BuildOutputs
    <3>1. next' = 0 /\ elapsed' = 0 /\ source' = source
        BY <2>4 DEF BuildOutputs
    <3> QED BY <1>1, <1>2, <3>1
  <2>5. CASE ProcessSegment
    <3>1. phase = "processing" /\ next < Len(source.segments) /\ source' = source
        BY <2>5 DEF ProcessSegment
    <3>2. \/ next' = next + 1 /\ elapsed' = elapsed + 1
          \/ phase' = "failed" /\ next' = next /\ elapsed' = elapsed
        BY <2>5, Zenon DEF ProcessSegment, Fail
    <3> QED BY <1>1, <1>2, <2>1, <3>1, <3>2
  <2>6. CASE NewJob \/ Republish
    <3>1. next' = 0 /\ elapsed' = elapsed /\ phase' = "idle"
        BY <2>6, StepKinds DEF StartJob
    <3> QED BY <1>1, <1>2, <2>1, <3>1
  <2> QED BY <2>2, <2>3, <2>4, <2>5, <2>6, StepKinds DEF JobSteps
<1>7. jobs' \in 1 .. MaxJobs
  <2>1. jobs \in 1 .. MaxJobs
      BY <1>1 DEF TypeOK
  <2>2. CASE NewJob \/ Republish
      BY <2>1, <2>2, StepKinds, JobsAssumption DEF StartJob
  <2> QED BY <2>1, <2>2, StepKinds
<1> QED BY <1>3, <1>4, <1>5, <1>6, <1>7 DEF TypeOK

\* The invariant holds before the first job.
LEMMA JobInit == Init => JobInv
<1> SUFFICES ASSUME Init PROVE JobInv
    OBVIOUS
<1>1. WellFormed(source) /\ request \in Requests
    BY JobSourcesAssumption DEF Init
<1>2. Len(source.segments) \in Nat
    BY <1>1 DEF WellFormed, IsList
<1>3. DOMAIN outputs = {} /\ phase = "idle" /\ failure = "none" /\ next = 0 /\ elapsed = 0
      /\ jobs = 1 /\ keySet = NoKeySet /\ keyCache = [present |-> FALSE, set |-> NoKeySet]
      /\ stale = FALSE
    BY DEF Init
<1>4. TypeOK
  <2>1. keyCache.present = FALSE
      BY <1>3
  <2>2. keyCache.present \in BOOLEAN /\ stale \in BOOLEAN
      BY <1>3, <2>1
  <2> QED BY <1>2, <1>3, <2>2, JobsAssumption DEF TypeOK, Phases, Failures
<1>5. GateInv /\ CacheInv
    BY <1>3 DEF GateInv, CacheInv, NoKeyForCause
<1>6. KeysInv
    BY <1>3, EmptyIsList DEF KeysInv, KeysTyped, NoKeySet, KeySet, SelfKeyed
<1>7. OutputsInv
    BY <1>3 DEF OutputsInv
<1> QED BY <1>1, <1>4, <1>5, <1>6, <1>7 DEF JobInv, SourceInv

\* Every step keeps the invariant: its parts are kept one by one.
LEMMA JobStep == JobInv /\ [Next]_vars => JobInv'
BY TypeStep, SourceStep, GateStep, CacheStep, KeysStep, OutputsStep DEF JobInv

\* A job stays in its phases: it works on a source it can read, for a request
\* that was validated, with the keys of a server, of the request or of the
\* cache, on outputs that are each fit to be the source of another job.  The
\* code behaviour is execute_progressive from its first to its last step, over
\* any number of jobs.
THEOREM JobInvariant == Spec => []JobInv
<1> QED BY JobInit, JobStep, PTL DEF Spec

\* Every variable has its type, for any sources and requests.
THEOREM TypeCorrect == Spec => []TypeOK
<1>1. JobInv => TypeOK
    BY DEF JobInv
<1> QED BY <1>1, JobInvariant, PTL

\* A job fails to find its key (find_key_for_kid) only with raw keys for other
\* key ids, with a server that does not know it, or with keys that a failed job
\* left in the cache (get_or_fetch_keys, cleanup_sensitive_data).
THEOREM KeyFoundUnlessLeft == Spec => []NoKeyForCause
<1>1. JobInv => NoKeyForCause
    BY DEF JobInv, CacheInv
<1> QED BY <1>1, JobInvariant, PTL

\* What a PSSH box of a job holds came in a PSSH element of the CPIX document,
\* for a key id that has its key (parse_cpix_response), where the server leaves
\* no PSSH element empty.
THEOREM PsshCameFromServer == "empty" \notin PsshForms => (Spec => []PsshFromServer)
<1> SUFFICES ASSUME "empty" \notin PsshForms PROVE Spec => []PsshFromServer
    OBVIOUS
<1>1. Init => JobInv /\ PsshInv
  <2>1. PsshOfKeys(NoKeySet)
      BY DEF PsshOfKeys, NoKeySet, KeySet
  <2>2. Init => keySet = NoKeySet /\ keyCache.set = NoKeySet
      BY DEF Init
  <2> QED BY <2>1, <2>2, JobInit DEF PsshInv
<1>2. JobInv /\ PsshInv /\ [Next]_vars => (JobInv /\ PsshInv)'
    BY JobStep, KeysStep
<1>3. JobInv /\ PsshInv => PsshFromServer
    BY DEF PsshInv, PsshOfKeys, PsshFromServer
<1> QED BY <1>1, <1>2, <1>3, PTL DEF Spec

-----------------------------------------------------------------------------
(* Parts and I-frames *)

\* The entries of a list that are for segment k, counted from 1.
For(k, list) == Chosen(list, {p \in 1 .. Len(list) : list[p].segment = k - 1})

\* Entries for a new segment change nothing for the ones before.
LEMMA ForJoined ==
    ASSUME NEW a, NEW b, IsList(a), IsList(b), NEW n \in Nat,
           \A p \in 1 .. Len(a) : a[p].segment \in 0 .. n - 1,
           \A p \in 1 .. Len(b) : b[p].segment = n
    PROVE  /\ \A k \in 1 .. n : For(k, Joined(a, b)) = For(k, a)
           /\ For(n + 1, Joined(a, b)) = b
<1> DEFINE S == Range(a) \union Range(b)
           c == Joined(a, b)
           at(k, x) == {p \in 1 .. Len(x) : x[p].segment = k - 1}
           rest(k) == {j \in 1 .. Len(b) : Len(a) + j \in at(k, c)}
<1>1. a \in Seq(S) /\ b \in Seq(S)
    BY DEF IsList
<1> HIDE DEF S
<1>2. IsJoin(c, a, b)
    BY JoinedIsList
<1>3. \A k : Chosen(c, at(k, c)) = Joined(Chosen(a, at(k, c)), Chosen(b, rest(k)))
  <2> SUFFICES ASSUME NEW k
               PROVE  Chosen(c, at(k, c)) = Joined(Chosen(a, at(k, c)), Chosen(b, rest(k)))
      OBVIOUS
  <2> DEFINE I == at(k, c)
  <2> HIDE DEF I
  <2>1. Chosen(a \o b, I) = Chosen(a, I) \o Chosen(b, {j \in 1 .. Len(b) : Len(a) + j \in I})
    <3>1. ChosenOfBoth(a, b, I)
        BY <1>1, ChosenOfConcat
    <3> QED BY <3>1 DEF ChosenOfBoth
  <2> QED BY <2>1, Zenon DEF Joined, I
<1> HIDE DEF c
<1>4. ASSUME NEW k \in 1 .. n PROVE For(k, c) = For(k, a)
  <2>1. Chosen(b, rest(k)) = <<>>
    <3>1. \A j \in 1 .. Len(b) : j \notin rest(k)
      <4> SUFFICES ASSUME NEW j \in 1 .. Len(b), c[Len(a) + j].segment = k - 1 PROVE FALSE
          OBVIOUS
      <4>1. c[Len(a) + j].segment = n
          BY <1>2 DEF IsJoin
      <4> QED BY <1>4, <4>1
    <3> HIDE DEF rest
    <3> QED BY <1>1, <3>1, ChosenNone
  <2>2. Chosen(a, at(k, c)) = Chosen(a, at(k, a))
    <3>1. \A i \in 1 .. Len(a) : i \in at(k, c) <=> i \in at(k, a)
        BY <1>2 DEF IsJoin
    <3> HIDE DEF at
    <3> QED BY <1>1, <3>1, ChosenAgree
  <2>3. Joined(Chosen(a, at(k, a)), <<>>) = Chosen(a, at(k, a))
    <3>1. Chosen(a, at(k, a)) \in Seq(S)
      <4> HIDE DEF at
      <4> QED BY <1>1, ChosenType
    <3> HIDE DEF at
    <3> QED BY <3>1 DEF Joined
  <2> HIDE DEF at, rest
  <2>4. Chosen(c, at(k, c)) = Chosen(a, at(k, a))
      BY <1>3, <2>1, <2>2, <2>3
  <2> QED BY <2>4 DEF For, at
<1>5. For(n + 1, c) = b
  <2>1. Chosen(a, at(n + 1, c)) = <<>>
    <3>1. \A i \in 1 .. Len(a) : i \notin at(n + 1, c)
      <4> SUFFICES ASSUME NEW i \in 1 .. Len(a), c[i].segment = (n + 1) - 1 PROVE FALSE
          OBVIOUS
      <4>1. c[i].segment \in 0 .. n - 1
          BY <1>2 DEF IsJoin
      <4> QED BY <4>1
    <3> HIDE DEF at
    <3> QED BY <1>1, <3>1, ChosenNone
  <2>2. Chosen(b, rest(n + 1)) = b
    <3>1. \A j \in 1 .. Len(b) : j \in rest(n + 1)
        BY <1>2 DEF IsJoin
    <3> HIDE DEF rest
    <3> QED BY <1>1, <3>1, ChosenAll
  <2> HIDE DEF at, rest
  <2>3. Chosen(c, at(n + 1, c)) = Joined(<<>>, b)
      BY <1>3, <2>1, <2>2
  <2> QED BY <1>1, <2>3, JoinedToEmpty DEF For, at
<1> QED BY <1>4, <1>5 DEF c

\* What PartsTileSegment says of one output: of the parts of segment i, and of
\* the I-frame entries.
Tiled(parts, segment) ==
    parts # <<>> =>
        /\ FlattenSeq([p \in 1 .. Len(parts) |-> parts[p].data])
               = Chosen(segment, {b \in 1 .. Len(segment) : segment[b].type \in {"moof", "mdat"}})
        /\ \A p \in 1 .. Len(parts) : parts[p].part = p - 1

Framed(entry, segments) ==
    LET i == entry.segment + 1
    IN  /\ i \in 1 .. Len(segments)
        /\ segments[i][entry.from].type = "moof" /\ segments[i][entry.to].type = "mdat"

Tiles(o) ==
    /\ \A i \in 1 .. Len(o.segments) : Tiled(For(i, o.parts), o.segments[i])
    /\ \A f \in 1 .. Len(o.iframes) : Framed(o.iframes[f], o.segments)

\* PartsTileSegment, output by output.
LEMMA TilesMean == PartsTileSegment <=> \A s \in DOMAIN outputs : Tiles(outputs[s])
BY Zenon DEF PartsTileSegment, Tiles, Tiled, Framed, For

\* A further segment keeps the parts and the entries of the ones before, and
\* its own tile it.
LEMMA ExtendedTiles ==
    ASSUME NEW o, NEW container, NEW n \in Nat, OutputFits(o, container, n), Tiles(o),
           NEW segment, request.container # "ts" => SegmentWellFormed(segment),
           NEW breaks, NEW new, Extends(new, o, segment, n + 1, breaks)
    PROVE  Tiles(new)
<1> DEFINE parts == NewParts(segment, n + 1)
           iframes == NewIframes(segment, n + 1)
<1>1. n + 1 \in Nat /\ (n + 1) - 1 = n
    OBVIOUS
<1>2. AreParts(parts, segment, n + 1) /\ AreIframes(iframes, segment, n + 1)
    BY <1>1, PartsOfSegment, IframesOfSegment
<1>3. /\ IsList(o.segments) /\ Len(o.segments) = n /\ IsList(o.parts) /\ IsList(o.iframes)
      /\ \A p \in 1 .. Len(o.parts) : o.parts[p].segment \in 0 .. n - 1
    BY DEF OutputFits, IsOutput
<1>4. /\ new.segments = Append(o.segments, segment)
      /\ new.parts = Joined(o.parts, parts) /\ new.iframes = Joined(o.iframes, iframes)
    BY DEF Extends
<1> HIDE DEF parts, iframes
<1>5. /\ Len(new.segments) = n + 1 /\ new.segments[n + 1] = segment
      /\ \A i \in 1 .. n : new.segments[i] = o.segments[i]
    BY <1>3, <1>4, AppendIsList
<1>6. /\ \A i \in 1 .. n : For(i, new.parts) = For(i, o.parts)
      /\ For(n + 1, new.parts) = parts
  <2>1. IsList(parts) /\ \A p \in 1 .. Len(parts) : parts[p].segment = n
      BY <1>2 DEF AreParts
  <2> DEFINE a == o.parts
  <2>2. IsList(a) /\ \A p \in 1 .. Len(a) : a[p].segment \in 0 .. n - 1
      BY <1>3
  <2> HIDE DEF a
  <2>3. /\ \A k \in 1 .. n : For(k, Joined(a, parts)) = For(k, a)
        /\ For(n + 1, Joined(a, parts)) = parts
      BY <2>1, <2>2, ForJoined
  <2> QED BY <1>4, <2>3 DEF a
<1>7. ASSUME NEW i \in 1 .. Len(new.segments) PROVE Tiled(For(i, new.parts), new.segments[i])
  <2>1. i \in 1 .. n \/ i = n + 1
      BY <1>5
  <2>2. CASE i \in 1 .. n
      BY <1>3, <1>5, <1>6, <2>2 DEF Tiles
  <2>3. CASE i = n + 1
      BY <1>2, <1>5, <1>6, <2>3 DEF Tiled, AreParts
  <2> QED BY <2>1, <2>2, <2>3
<1>8. ASSUME NEW f \in 1 .. Len(new.iframes) PROVE Framed(new.iframes[f], new.segments)
  <2>1. IsJoin(new.iframes, o.iframes, iframes)
      BY <1>2, <1>3, <1>4, JoinedIsList DEF AreIframes
  <2>2. f \in 1 .. Len(o.iframes) \/ f - Len(o.iframes) \in 1 .. Len(iframes)
      BY <2>1 DEF IsJoin
  <2>3. CASE f \in 1 .. Len(o.iframes)
    <3>1. new.iframes[f] = o.iframes[f]
        BY <2>1, <2>3 DEF IsJoin
    <3>2. Framed(o.iframes[f], o.segments)
        BY <2>3 DEF Tiles
    <3> DEFINE entry == o.iframes[f]
    <3> HIDE DEF entry
    <3>3. entry.segment + 1 \in 1 .. n
        BY <1>3, <3>2 DEF Framed, entry
    <3>4. entry.segment + 1 \in 1 .. n + 1
        BY <3>3
    <3>5. new.segments[entry.segment + 1] = o.segments[entry.segment + 1]
        BY <1>5, <3>3
    <3> QED BY <1>5, <3>1, <3>2, <3>4, <3>5 DEF Framed, entry
  <2>4. CASE f - Len(o.iframes) \in 1 .. Len(iframes)
    <3> DEFINE g == f - Len(o.iframes)
    <3>1. g \in 1 .. Len(iframes) /\ f = Len(o.iframes) + g
        BY <2>1, <2>4 DEF IsJoin
    <3>2. new.iframes[f] = iframes[g]
        BY <2>1, <3>1 DEF IsJoin
    <3> HIDE DEF g
    <3>3. iframes[g].segment + 1 = n + 1
        BY <1>2, <3>1 DEF AreIframes
    <3> QED BY <1>2, <1>5, <3>1, <3>2, <3>3 DEF Framed, AreIframes
  <2> QED BY <2>2, <2>3, <2>4
<1> QED BY <1>7, <1>8 DEF Tiles

TilesInv == \A s \in DOMAIN outputs : Tiles(outputs[s])

\* Every step keeps the parts tiling their segments.
LEMMA TilesStep == JobInv /\ TilesInv /\ [Next]_vars => TilesInv'
<1> SUFFICES ASSUME JobInv, TilesInv, [Next]_vars PROVE TilesInv'
    OBVIOUS
<1>1. CASE Untouched
    BY <1>1 DEF Untouched, TilesInv
<1>2. CASE Created
  <2>1. ASSUME NEW s \in Targets PROVE Tiles(NewOutput(s))
    <3> DEFINE o == NewOutput(s)
    <3>1. o.segments = <<>> /\ o.iframes = <<>>
        BY DEF NewOutput
    <3> HIDE DEF o
    <3>2. Tiles(o)
        BY <3>1 DEF Tiles
    <3> QED BY <3>2 DEF o
  <2>2. DOMAIN outputs' = Targets /\ \A s \in Targets : outputs'[s] = NewOutput(s)
      BY <1>2 DEF Created
  <2> QED BY <2>1, <2>2 DEF TilesInv
<1>3. CASE Grown
  <2>1. DOMAIN outputs' = Targets
      BY <1>3 DEF Grown
  <2>2. ASSUME NEW s \in Targets PROVE Tiles(outputs'[s])
    <3> DEFINE o == outputs[s]
               new == outputs'[s]
               segment == Rewritten(s, next + 1).boxes
               breaks == BreaksOf(next + 1)
    <3>1. Grows(s)
        BY <1>3, <2>2, GrownGrows
    <3>2. /\ next \in Nat /\ OutputFits(o, request.container, next)
          /\ request.container # "ts" => SegmentWellFormed(segment)
          /\ Extends(new, o, segment, next + 1, breaks) /\ s \in DOMAIN outputs
        BY <2>2, <3>1 DEF Grows
    <3>3. Tiles(o)
        BY <3>2 DEF TilesInv
    <3> HIDE DEF o, new, segment, breaks
    <3>4. Tiles(new)
        BY <3>2, <3>3, ExtendedTiles
    <3> QED BY <3>4 DEF new
  <2> QED BY <2>1, <2>2 DEF TilesInv
<1>4. CASE Dropped
    BY <1>4 DEF Dropped, TilesInv
<1> QED BY <1>1, <1>2, <1>3, <1>4, OutputsChange

\* The parts of a segment are all of its moof and mdat boxes in their order, and
\* each I-frame entry is one of its chunks, in every output of every job: the
\* code behaviour is detect_chunk_boundaries, extract_chunk, add_part and
\* add_iframe_info for one segment after the other.
THEOREM PartsTile == Spec => []PartsTileSegment
<1>1. Init => JobInv /\ TilesInv
  <2>1. Init => DOMAIN outputs = {}
      BY DEF Init
  <2> QED BY <2>1, JobInit DEF TilesInv
<1>2. JobInv /\ TilesInv /\ [Next]_vars => (JobInv /\ TilesInv)'
    BY JobStep, TilesStep
<1>3. TilesInv => PartsTileSegment
    BY TilesMean DEF TilesInv
<1> QED BY <1>1, <1>2, <1>3, PTL DEF Spec

-----------------------------------------------------------------------------
(* Ad breaks *)

\* So many ad breaks as the source has splice messages, for each segment.
Announced(breaks, i) == Cardinality({b \in 1 .. Len(breaks) : breaks[b].segment = i - 1})

BreaksInv ==
    \A s \in DOMAIN outputs : \A i \in 1 .. next :
        Announced(outputs[s].adBreaks, i) = Cardinality(Splices(SegmentData(i)))

\* AdBreaksOnce, in the names used here.
LEMMA BreaksMean == AdBreaksOnce <=> BreaksInv
BY Zenon DEF AdBreaksOnce, BreaksInv, Announced, Splices

\* How often a segment is announced, as a list of its ad breaks.
LEMMA AnnouncedFor ==
    ASSUME NEW breaks, IsList(breaks), NEW i
    PROVE  Announced(breaks, i) = Len(For(i, breaks))
<1> DEFINE I == {b \in 1 .. Len(breaks) : breaks[b].segment = i - 1}
<1>1. {b \in 1 .. Len(breaks) : b \in I} = I
    OBVIOUS
<1>2. Len(Chosen(breaks, I)) = Cardinality({b \in 1 .. Len(breaks) : b \in I})
  <2> HIDE DEF I
  <2> QED BY ChosenLength DEF IsList
<1> HIDE DEF I
<1>3. Len(Chosen(breaks, I)) = Cardinality(I)
    BY <1>1, <1>2
<1> QED BY <1>3 DEF Announced, For, I

\* Every step keeps each splice announced once.
LEMMA BreaksStep == JobInv /\ BreaksInv /\ [Next]_vars => BreaksInv'
<1> SUFFICES ASSUME JobInv, BreaksInv, [Next]_vars PROVE BreaksInv'
    OBVIOUS
<1>1. source' = source /\ request' = request => \A i : SegmentData(i)' = SegmentData(i)
    BY SameJob
<1>2. CASE Untouched
    BY <1>1, <1>2 DEF Untouched, BreaksInv
<1>3. CASE Created
  <2>1. next' = 0
      BY <1>3 DEF Created
  <2> QED BY <2>1 DEF BreaksInv
<1>4. CASE Grown
  <2>1. DOMAIN outputs' = Targets /\ next' = next + 1 /\ \A i : SegmentData(i)' = SegmentData(i)
      BY <1>1, <1>4 DEF Grown
  <2>2. ASSUME NEW s \in Targets, NEW i \in 1 .. next + 1
        PROVE  Announced(outputs'[s].adBreaks, i) = Cardinality(Splices(SegmentData(i)))
    <3> DEFINE a == outputs[s].adBreaks
               new == outputs'[s].adBreaks
               breaks == BreaksOf(next + 1)
               data == SegmentData(next + 1)
    <3>1. Grows(s)
        BY <1>4, <2>2, GrownGrows
    <3>2. next \in Nat /\ s \in DOMAIN outputs /\ new = Joined(a, breaks)
        BY <2>2, <3>1 DEF Grows, Extends
    <3>3. IsList(a) /\ \A b \in 1 .. Len(a) : a[b].segment \in 0 .. next - 1
        BY <3>1 DEF Grows, OutputFits, IsOutput
    <3>4. /\ IsList(breaks) /\ \A b \in 1 .. Len(breaks) : breaks[b].segment = next
          /\ Len(breaks) = Cardinality(Splices(data))
        BY <3>1 DEF Grows, AreBreaks
    <3>5. \A k \in 1 .. next : Announced(a, k) = Cardinality(Splices(SegmentData(k)))
        BY <3>2 DEF BreaksInv
    <3> HIDE DEF a, new, breaks, data
    <3>6. IsList(new)
        BY <3>2, <3>3, <3>4, JoinedIsList DEF IsJoin
    <3>7. /\ \A k \in 1 .. next : For(k, new) = For(k, a)
          /\ For(next + 1, new) = breaks
        BY <3>2, <3>3, <3>4, ForJoined
    <3>8. Announced(new, i) = Len(For(i, new)) /\ Announced(a, i) = Len(For(i, a))
        BY <3>3, <3>6, AnnouncedFor
    <3>9. CASE i \in 1 .. next
      <4>1. For(i, new) = For(i, a)
          BY <3>7, <3>9
      <4>2. Announced(new, i) = Announced(a, i)
          BY <3>8, <4>1
      <4> QED BY <3>5, <3>9, <4>2 DEF new
    <3>10. CASE i = next + 1
      <4>1. Announced(new, i) = Len(breaks)
          BY <3>7, <3>8, <3>10
      <4> QED BY <3>4, <3>10, <4>1 DEF new, data
    <3>11. i \in 1 .. next \/ i = next + 1
        BY <3>2
    <3> QED BY <3>9, <3>10, <3>11
  <2>3. ASSUME NEW s \in DOMAIN outputs', NEW i \in 1 .. next'
        PROVE  Announced(outputs'[s].adBreaks, i) = Cardinality(Splices(SegmentData(i)'))
    <3>1. s \in Targets /\ i \in 1 .. next + 1 /\ SegmentData(i)' = SegmentData(i)
        BY <2>1, <2>3
    <3> QED BY <2>2, <3>1
  <2> QED BY <2>3 DEF BreaksInv
<1>5. CASE Dropped
    BY <1>5 DEF Dropped, BreaksInv
<1> QED BY <1>2, <1>3, <1>4, <1>5, OutputsChange

\* Every output of a job announces each splice message of its source once, with
\* the segment that carried it, and nothing else: the code behaviour is
\* extract_ad_breaks_from_segment for one segment after the other, for any
\* messages and any targets.
THEOREM BreaksAnnouncedOnce == Spec => []AdBreaksOnce
<1>1. Init => JobInv /\ BreaksInv
  <2>1. Init => DOMAIN outputs = {}
      BY DEF Init
  <2> QED BY <2>1, JobInit DEF BreaksInv
<1>2. JobInv /\ BreaksInv /\ [Next]_vars => (JobInv /\ BreaksInv)'
    BY JobStep, BreaksStep
<1>3. BreaksInv => AdBreaksOnce
    BY BreaksMean
<1> QED BY <1>1, <1>2, <1>3, PTL DEF Spec

-----------------------------------------------------------------------------
(* The manifest and the init segment *)

\* What ManifestMatchesInit says of one output.
Boxes(init, name) == {b.box : b \in {p \in init.pssh : p.system = name}}

Agrees(drm, init) ==
    /\ drm.present = ParseProtectionInfo(init).present
    /\ drm.present =>
        /\ drm.defaultKid = ParseProtectionInfo(init).tenc.kid
        /\ drm.scheme = ParseProtectionInfo(init).schm
        /\ drm.widevine.present => Boxes(init, "widevine") = {drm.widevine}
        /\ drm.playready.present => Boxes(init, "playready") = {drm.playready}
        /\ drm.clearkey.present =>
             {Sinfs(init)[t].tenc.kid : t \in 1 .. Len(Sinfs(init))} \subseteq drm.clearkey.kids

ManifestInv == \A s \in DOMAIN outputs : ~outputs[s].ts => Agrees(outputs[s].drm, outputs[s].init)

\* ManifestMatchesInit, in the names used here.
LEMMA ManifestMeans == ManifestMatchesInit <=> ManifestInv
BY Zenon DEF ManifestMatchesInit, ManifestInv, Agrees, Boxes

\* A system that has entries has its box in the init segment, which is the box
\* of the manifest: build_pssh_boxes and build_manifest_pssh_for_system.
LEMMA BoxOfSystem ==
    ASSUME NEW keys, KeysTyped(keys), NEW mapping, NEW target, NEW name, name # "fairplay",
           NEW init, init.pssh = BuildPsshBoxes(keys, mapping, target),
           PsshFor(keys, name, AllKids(mapping)).present
    PROVE  Boxes(init, name) = {PsshFor(keys, name, AllKids(mapping))}
<1> DEFINE systems == keys.systems
           I == {d \in 1 .. Len(systems) : systems[d].system = name}
           names == {systems[i].system : i \in 1 .. Len(systems)}
           left == IF target = "cenc" THEN {"fairplay"} ELSE {}
           pssh(s) == PsshFor(keys, s, AllKids(mapping))
<1>1. EntriesOf(keys, name) # <<>>
    BY DEF PsshFor, NoPssh
<1>2. EntriesOf(keys, name) = Chosen(systems, I)
    BY DEF EntriesOf
<1>3. name \in names \ left
  <2>1. systems \in Seq(Range(systems))
      BY DEF KeysTyped, IsList
  <2>2. \E d \in 1 .. Len(systems) : d \in I
    <3> HIDE DEF systems, I
    <3> QED BY <1>1, <1>2, <2>1, ChosenNone
  <2> QED BY <2>2
<1> HIDE DEF names, left
<1>4. init.pssh = {[system |-> s, box |-> pssh(s)] : s \in names \ left}
    BY Zenon DEF BuildPsshBoxes, names, left
<1> HIDE DEF pssh
<1>5. Boxes(init, name) = {pssh(name)}
  <2>1. \A s : [system |-> s, box |-> pssh(s)].system = s /\ [system |-> s, box |-> pssh(s)].box = pssh(s)
      OBVIOUS
  <2>2. ASSUME NEW x \in Boxes(init, name) PROVE x = pssh(name)
    <3>1. PICK p \in init.pssh : p.system = name /\ x = p.box
        BY DEF Boxes
    <3>2. PICK s \in names \ left : p = [system |-> s, box |-> pssh(s)]
        BY <1>4
    <3> QED BY <2>1, <3>1, <3>2
  <2>3. pssh(name) \in Boxes(init, name)
    <3> DEFINE p == [system |-> name, box |-> pssh(name)]
    <3>1. p \in init.pssh
        BY <1>3, <1>4
    <3>2. p.system = name /\ p.box = pssh(name)
        OBVIOUS
    <3> HIDE DEF p
    <3> QED BY <3>1, <3>2 DEF Boxes
  <2> QED BY <2>2, <2>3
<1> QED BY <1>5 DEF pssh

\* Whether an init segment says that it is protected is a plain yes or no.
LEMMA InfoIsBoolean ==
    ASSUME NEW init, InitWellFormed(init)
    PROVE  ParseProtectionInfo(init).present \in BOOLEAN
<1>1. CASE Sinfs(init) = <<>>
  <2>1. NoSinf.present = FALSE
      BY DEF NoSinf
  <2> QED BY <1>1, <2>1 DEF ParseProtectionInfo
<1>2. CASE Sinfs(init) # <<>>
  <2> DEFINE all == [t \in 1 .. Len(init.tracks) |-> EntryOf(init, t).sinf]
  <2>1. all \in Seq(Range(all)) /\ \E I : Sinfs(init) = Chosen(all, I)
      BY SinfsOfInit DEF IsList
  <2> HIDE DEF all
  <2>2. Sinfs(init) \in Seq(Range(all))
      BY <2>1, ChosenType
  <2>3. 1 \in 1 .. Len(Sinfs(init))
      BY <1>2, <2>2
  <2>4. PICK t \in 1 .. Len(init.tracks) :
            Protected(init, t) /\ Sinfs(init)[1] = EntryOf(init, t).sinf
      BY <2>3, InfoOfInit
  <2> DEFINE sinf == EntryOf(init, t).sinf
  <2>5. SinfWellFormed(sinf)
      BY <2>4, EntriesOfInit, EntryKinds DEF Protected
  <2> HIDE DEF sinf
  <2>6. sinf.present = TRUE
    <3> DEFINE p == sinf.frma
               q == sinf.schm
               r == sinf.tenc
    <3>1. sinf = [present |-> TRUE, frma |-> p, schm |-> q, tenc |-> r]
        BY <2>5 DEF SinfWellFormed
    <3> HIDE DEF p, q, r
    <3> QED BY <3>1
  <2>7. ParseProtectionInfo(init) = sinf
      BY <1>2, <2>4 DEF ParseProtectionInfo, sinf
  <2> QED BY <2>6, <2>7
<1> QED BY <1>1, <1>2

\* At InitReady the manifest and the init segment of an output say the same.
LEMMA NewAgrees ==
    ASSUME JobInv, phase = "keyed", NEW s \in Targets
    PROVE  Agrees(NewDrmInfo(s), NewInit(s))
<1> DEFINE init == NewInit(s)
           drm == NewDrmInfo(s)
           info == ParseProtectionInfo(init)
           kids == AllKids(Mapping)
           kid == PrimaryKid(Mapping)
<1>1. /\ InitWellFormed(init)
      /\ IsEncrypted(s) => /\ Says(init, Mapping, s)
                           /\ init.pssh = BuildPsshBoxes(keySet, Mapping, s)
      /\ ~IsEncrypted(s) => ~info.present
    BY NewInitFits DEF JobInv, SourceInv, GateInv
<1>2. KeysTyped(keySet)
    BY DEF JobInv, KeysInv
<1> HIDE DEF init
<1>3. info.present \in BOOLEAN
    BY <1>1, InfoIsBoolean
<1>4. CASE ~IsEncrypted(s)
  <2>1. drm = NoDrmInfo
      BY <1>4 DEF NewDrmInfo
  <2>2. drm.present = FALSE
      BY <2>1 DEF NoDrmInfo
  <2>3. info.present = FALSE
      BY <1>1, <1>3, <1>4
  <2> QED BY <2>2, <2>3 DEF Agrees, init
<1>5. CASE IsEncrypted(s)
  <2> DEFINE systems == request.systems
             pssh(name) == PsshFor(keySet, name, kids)
             clearkey == [present |-> TRUE, kids |-> kids, data |-> "pssh"]
  <2>1. drm = DrmInfo(keySet, kid, kids, s, systems)
      BY <1>5 DEF NewDrmInfo
  <2>2. /\ drm.present = TRUE /\ drm.scheme = s /\ drm.defaultKid = kid
        /\ drm.widevine \in {pssh("widevine"), NoPssh}
        /\ drm.playready \in {pssh("playready"), NoPssh}
        /\ drm.clearkey \in {clearkey, NoPssh}
    <3> HIDE DEF drm, kids, kid, clearkey
    <3> QED BY <2>1 DEF DrmInfo, clearkey
  <2> HIDE DEF drm, kid, kids, pssh
  <2>3. NoPssh.present = FALSE /\ clearkey.kids = kids
      BY DEF NoPssh
  <2> HIDE DEF clearkey
  <2>4. info.present /\ info.schm = s /\ info.tenc.kid = kid
        /\ \A k \in 1 .. Len(Sinfs(init)) : Sinfs(init)[k].tenc.kid \in kids
      BY <1>1, <1>5 DEF Says, kid, kids
  <2>5. drm.widevine.present => Boxes(init, "widevine") = {drm.widevine}
    <3>1. SUFFICES ASSUME drm.widevine.present PROVE Boxes(init, "widevine") = {drm.widevine}
        OBVIOUS
    <3>2. drm.widevine = pssh("widevine")
        BY <2>2, <2>3, <3>1
    <3> DEFINE name == "widevine"
    <3>3. name # "fairplay"
        OBVIOUS
    <3> HIDE DEF name
    <3>4. PsshFor(keySet, name, AllKids(Mapping)).present
        BY <3>1, <3>2 DEF pssh, kids, name
    <3>5. Boxes(init, name) = {PsshFor(keySet, name, AllKids(Mapping))}
        BY <1>1, <1>2, <1>5, <3>3, <3>4, BoxOfSystem
    <3> QED BY <3>2, <3>5 DEF pssh, kids, name
  <2>6. drm.playready.present => Boxes(init, "playready") = {drm.playready}
    <3>1. SUFFICES ASSUME drm.playready.present PROVE Boxes(init, "playready") = {drm.playready}
        OBVIOUS
    <3>2. drm.playready = pssh("playready")
        BY <2>2, <2>3, <3>1
    <3> DEFINE name == "playready"
    <3>3. name # "fairplay"
        OBVIOUS
    <3> HIDE DEF name
    <3>4. PsshFor(keySet, name, AllKids(Mapping)).present
        BY <3>1, <3>2 DEF pssh, kids, name
    <3>5. Boxes(init, name) = {PsshFor(keySet, name, AllKids(Mapping))}
        BY <1>1, <1>2, <1>5, <3>3, <3>4, BoxOfSystem
    <3> QED BY <3>2, <3>5 DEF pssh, kids, name
  <2>7. drm.clearkey.present =>
            {Sinfs(init)[t].tenc.kid : t \in 1 .. Len(Sinfs(init))} \subseteq drm.clearkey.kids
    <3>1. SUFFICES ASSUME drm.clearkey.present
                   PROVE  {Sinfs(init)[t].tenc.kid : t \in 1 .. Len(Sinfs(init))}
                              \subseteq drm.clearkey.kids
        OBVIOUS
    <3>2. drm.clearkey.kids = kids
        BY <2>2, <2>3, <3>1
    <3> QED BY <2>4, <3>2
  <2>8. drm.present = info.present
      BY <1>3, <2>2, <2>4
  <2>9. Agrees(drm, init)
      BY <2>2, <2>4, <2>5, <2>6, <2>7, <2>8 DEF Agrees
  <2> QED BY <2>9 DEF drm, init
<1> QED BY <1>4, <1>5

\* Every step keeps manifest and init segment agreeing.
LEMMA ManifestStep == JobInv /\ ManifestInv /\ [Next]_vars => ManifestInv'
<1> SUFFICES ASSUME JobInv, ManifestInv, [Next]_vars PROVE ManifestInv'
    OBVIOUS
<1>1. CASE Untouched
    BY <1>1 DEF Untouched, ManifestInv
<1>2. CASE Created
  <2>1. ASSUME NEW s \in Targets PROVE Agrees(NewOutput(s).drm, NewOutput(s).init)
    <3>1. NewOutput(s).drm = NewDrmInfo(s) /\ NewOutput(s).init = NewInit(s)
        BY DEF NewOutput
    <3> QED BY <1>2, <3>1, NewAgrees DEF Created
  <2>2. DOMAIN outputs' = Targets /\ \A s \in Targets : outputs'[s] = NewOutput(s)
      BY <1>2 DEF Created
  <2> QED BY <2>1, <2>2 DEF ManifestInv
<1>3. CASE Grown
  <2>1. DOMAIN outputs' = Targets
      BY <1>3 DEF Grown
  <2>2. ASSUME NEW s \in Targets, ~outputs'[s].ts PROVE Agrees(outputs'[s].drm, outputs'[s].init)
    <3> DEFINE o == outputs[s]
               new == outputs'[s]
    <3>1. Grows(s)
        BY <1>3, <2>2, GrownGrows
    <3>2. s \in DOMAIN outputs /\ new.ts = o.ts /\ new.drm = o.drm /\ new.init = o.init
        BY <2>2, <3>1 DEF Grows, Extends
    <3>3. Agrees(o.drm, o.init)
        BY <2>2, <3>2 DEF ManifestInv
    <3> QED BY <3>2, <3>3
  <2> QED BY <2>1, <2>2 DEF ManifestInv
<1>4. CASE Dropped
    BY <1>4 DEF Dropped, ManifestInv
<1> QED BY <1>1, <1>2, <1>3, <1>4, OutputsChange

\* What a manifest says of the protection is what the init segment next to it
\* says: the key id, the scheme, the PSSH of each system and, for ClearKey, every
\* key id of the tracks.  The code behaviour is build_manifest_drm_info next to
\* the four ways an init segment is made, for jobs whose source was itself
\* encrypted, clear, or a transport stream.
THEOREM ManifestAgrees == Spec => []ManifestMatchesInit
<1>1. Init => JobInv /\ ManifestInv
  <2>1. Init => DOMAIN outputs = {}
      BY DEF Init
  <2> QED BY <2>1, JobInit DEF ManifestInv
<1>2. JobInv /\ ManifestInv /\ [Next]_vars => (JobInv /\ ManifestInv)'
    BY JobStep, ManifestStep
<1>3. ManifestInv => ManifestMatchesInit
    BY ManifestMeans
<1> QED BY <1>1, <1>2, <1>3, PTL DEF Spec

-----------------------------------------------------------------------------
(* Ciphers and rewrites *)

(***************************************************************************)
(* Taking off the layer that was just put on gives the unit back.          *)
(***************************************************************************)
LEMMA TakeUndoesAdd ==
    ASSUME NEW Unit, NEW unit \in Seq(Unit), NEW layer
    PROVE  TakeLayer(AddLayer(unit, layer), layer) = unit
<1>1. CASE layer = NoLayer
  BY <1>1 DEF TakeLayer, AddLayer
<1>2. CASE layer # NoLayer
  <2> DEFINE Wide == Unit \cup {layer}
             more == Append(unit, layer)
  <2>1. unit \in Seq(Wide) /\ layer \in Wide
    OBVIOUS
  <2>2. Len(more) = Len(unit) + 1 /\ more[Len(more)] = layer
    BY <2>1
  <2>3. SubSeq(more, 1, Len(more) - 1) = unit
    BY <2>1
  <2>4. AddLayer(unit, layer) = more
    BY <1>2 DEF AddLayer
  <2>5. Len(more) > 0
    BY <2>2
  <2> HIDE DEF more
  <2>6. TakeLayer(more, layer) = SubSeq(more, 1, Len(more) - 1)
    BY <1>2, <2>2, <2>5 DEF TakeLayer
  <2> QED BY <2>3, <2>4, <2>6
<1> QED BY <1>1, <1>2

(***************************************************************************)
(* Encryption keeps the size of a sample, from which decryption, and the   *)
(* sizes that trun keeps, follow (encrypt_sample works in place).          *)
(***************************************************************************)
THEOREM EncryptionKeepsSize ==
    ASSUME NEW Unit, NEW sample \in Seq(Seq(Unit)),
           NEW scheme, NEW key, NEW pattern, NEW iv, NEW subsamples
    PROVE  Len(EncryptSample(scheme, key, pattern, iv, sample, subsamples)) = Len(sample)
<1>1. Len(sample) \in Nat
  OBVIOUS
<1> QED BY <1>1 DEF EncryptSample

(***************************************************************************)
(* decrypt_sample with the parameters of encrypt_sample gives the sample   *)
(* back, for both schemes, any pattern and any subsample map: what the     *)
(* re-encryption of a segment and every reader of the output rest on.      *)
(***************************************************************************)
THEOREM DecryptionUndoesEncryption ==
    ASSUME NEW Unit, NEW sample \in Seq(Seq(Unit)),
           NEW scheme, NEW key, NEW pattern, NEW iv, NEW subsamples
    PROVE  DecryptSample(scheme, key, pattern, iv,
               EncryptSample(scheme, key, pattern, iv, sample, subsamples), subsamples)
           = sample
<1> DEFINE regions == Regions(Len(sample), subsamples)
           L(p) == Layer(scheme, key, pattern, iv, regions, p)
           hidden == EncryptSample(scheme, key, pattern, iv, sample, subsamples)
<1>1. Len(sample) \in Nat /\ sample = [p \in 1..Len(sample) |-> sample[p]]
  OBVIOUS
<1>2. Len(hidden) = Len(sample)
  BY EncryptionKeepsSize
<1>3. ASSUME NEW p \in 1..Len(sample)
      PROVE  TakeLayer(hidden[p], L(p)) = sample[p]
  <2>1. sample[p] \in Seq(Unit)
    OBVIOUS
  <2>2. hidden[p] = AddLayer(sample[p], L(p))
    BY DEF EncryptSample
  <2> HIDE DEF L, hidden
  <2> QED BY <2>1, <2>2, TakeUndoesAdd
<1>4. DecryptSample(scheme, key, pattern, iv, hidden, subsamples)
      = [p \in 1..Len(sample) |-> TakeLayer(hidden[p], L(p))]
  <2> HIDE DEF hidden
  <2> QED BY <1>2 DEF DecryptSample
<1> HIDE DEF hidden, L
<1>5. [p \in 1..Len(sample) |-> TakeLayer(hidden[p], L(p))]
      = [p \in 1..Len(sample) |-> sample[p]]
  BY <1>3
<1> QED BY <1>1, <1>4, <1>5 DEF hidden

(***************************************************************************)
(* A byte outside every protected range, such as the NAL header that a     *)
(* subsample map leaves clear, goes through encryption as it is.           *)
(***************************************************************************)
THEOREM ClearBytesStayClear ==
    ASSUME NEW Unit, NEW sample \in Seq(Seq(Unit)),
           NEW scheme, NEW key, NEW pattern, NEW iv, NEW subsamples,
           NEW p \in 1..Len(sample),
           InRegion(Regions(Len(sample), subsamples), p) = {}
    PROVE  EncryptSample(scheme, key, pattern, iv, sample, subsamples)[p] = sample[p]
<1>1. Layer(scheme, key, pattern, iv, Regions(Len(sample), subsamples), p) = NoLayer
  BY DEF Layer, CbcsLayer, CencLayer
<1> QED BY <1>1 DEF EncryptSample, AddLayer

-----------------------------------------------------------------------------
(* CENC: the positions of the keystream                                     *)

Hidden(regions, p) == {q \in 1..p : InRegion(regions, q) # {}}

(***************************************************************************)
(* The keystream position grows from one protected byte to the next.       *)
(***************************************************************************)
LEMMA PositionGrows ==
    ASSUME NEW regions, NEW p \in Nat, NEW q \in Nat, p < q, InRegion(regions, q) # {}
    PROVE  Cardinality(Hidden(regions, p)) < Cardinality(Hidden(regions, q))
<1>1. IsFiniteSet(1..q)
  BY FS_Interval
<1>2. Hidden(regions, q) \subseteq 1..q
  BY DEF Hidden
<1>3. IsFiniteSet(Hidden(regions, q))
  BY <1>1, <1>2, FS_Subset
<1>4. Hidden(regions, p) \subseteq Hidden(regions, q)
  BY DEF Hidden
<1>5. q \in Hidden(regions, q) /\ q \notin Hidden(regions, p)
  BY DEF Hidden
<1>6. Hidden(regions, p) # Hidden(regions, q)
  BY <1>5
<1>7. /\ Cardinality(Hidden(regions, p)) <= Cardinality(Hidden(regions, q))
      /\ Cardinality(Hidden(regions, p)) # Cardinality(Hidden(regions, q))
      /\ IsFiniteSet(Hidden(regions, p))
  BY <1>3, <1>4, <1>6, FS_Subset
<1>8. Cardinality(Hidden(regions, p)) \in Nat /\ Cardinality(Hidden(regions, q)) \in Nat
  BY <1>3, <1>7, FS_CardinalityType
<1> QED BY <1>7, <1>8

(***************************************************************************)
(* The padding of an eight-byte IV keeps its two words in front.           *)
(***************************************************************************)
LEMMA FirstTwoKept ==
    ASSUME NEW s \in Seq(Nat), NEW t \in Seq(Nat), Len(s) = 2
    PROVE  (s \o t)[1] = s[1] /\ (s \o t)[2] = s[2]
<1>1. Len(t) \in Nat
  OBVIOUS
<1>2. 1 \in 1..Len(s) + Len(t) /\ 2 \in 1..Len(s) + Len(t)
  BY <1>1
<1>3. \A i \in 1..Len(s) + Len(t) :
          (s \o t)[i] = IF i <= Len(s) THEN s[i] ELSE t[i - Len(s)]
  BY ConcatProperties
<1>4. 1 <= Len(s) /\ 2 <= Len(s)
  OBVIOUS
<1> QED BY <1>2, <1>3, <1>4

(***************************************************************************)
(* With the IVs of generate_iv, cenc puts no two bytes of a track under    *)
(* the same key, counter and position: not two bytes of one sample, where  *)
(* one keystream runs through all subsamples, and not two bytes of         *)
(* different samples.  A sample has one subsample map.                     *)
(***************************************************************************)
THEOREM KeystreamUsedOnce ==
    ASSUME NEW key,
           NEW seg1 \in Nat, NEW smp1 \in Nat, NEW regions1, NEW p1 \in Nat,
           NEW seg2 \in Nat, NEW smp2 \in Nat, NEW regions2, NEW p2 \in Nat,
           InRegion(regions1, p1) # {}, InRegion(regions2, p2) # {},
           <<seg1, smp1>> = <<seg2, smp2>> => regions1 = regions2,
           <<seg1, smp1, p1>> # <<seg2, smp2, p2>>
    PROVE  CencLayer(key, GenerateIv("cenc", seg1, smp1), regions1, p1)
           # CencLayer(key, GenerateIv("cenc", seg2, smp2), regions2, p2)
<1> DEFINE start(seg, smp) == CounterBlock(GenerateIv("cenc", seg, smp))
           layer(seg, smp, regions, p) ==
               [mode |-> "ctr", key |-> key, start |-> start(seg, smp),
                at |-> Cardinality(Hidden(regions, p))]
<1>1. ASSUME NEW seg \in Nat, NEW smp \in Nat, NEW regions, NEW p,
             InRegion(regions, p) # {}
      PROVE  CencLayer(key, GenerateIv("cenc", seg, smp), regions, p)
             = layer(seg, smp, regions, p)
  BY <1>1 DEF CencLayer, Hidden
<1>2. ASSUME NEW seg \in Nat, NEW smp \in Nat
      PROVE  start(seg, smp)[1] = seg /\ start(seg, smp)[2] = smp
  <2> DEFINE iv == <<seg, smp>>
  <2>1. iv \in Seq(Nat) /\ Len(iv) = 2 /\ iv[1] = seg /\ iv[2] = smp
    OBVIOUS
  <2>2. GenerateIv("cenc", seg, smp) = iv
    BY DEF GenerateIv
  <2> DEFINE zeros == <<0, 0>>
  <2>3. zeros \in Seq(Nat) /\ Len(zeros) = 2
    OBVIOUS
  <2>4. CounterBlock(iv) = iv \o zeros
    BY <2>1 DEF CounterBlock
  <2> HIDE DEF iv, zeros
  <2>5. (iv \o zeros)[1] = iv[1] /\ (iv \o zeros)[2] = iv[2]
    BY <2>1, <2>3, FirstTwoKept
  <2> QED BY <2>1, <2>2, <2>4, <2>5
<1>3. CASE <<seg1, smp1>> # <<seg2, smp2>>
  <2>1. start(seg1, smp1) # start(seg2, smp2)
    BY <1>2, <1>3
  <2> HIDE DEF start
  <2>2. layer(seg1, smp1, regions1, p1) # layer(seg2, smp2, regions2, p2)
    BY <2>1
  <2> QED BY <1>1, <2>2
<1>4. CASE <<seg1, smp1>> = <<seg2, smp2>>
  <2>1. regions1 = regions2 /\ p1 # p2
    BY <1>4
  <2>2. p1 < p2 \/ p2 < p1
    BY <2>1
  <2>3. Cardinality(Hidden(regions1, p1)) \in Nat /\ Cardinality(Hidden(regions2, p2)) \in Nat
    <3>1. ASSUME NEW regions, NEW p \in Nat
          PROVE  Cardinality(Hidden(regions, p)) \in Nat
      <4>1. IsFiniteSet(1..p)
        BY FS_Interval
      <4>2. IsFiniteSet(Hidden(regions, p))
        BY <4>1, FS_Subset DEF Hidden
      <4> QED BY <4>2, FS_CardinalityType
    <3> QED BY <3>1
  <2>4. Cardinality(Hidden(regions1, p1)) # Cardinality(Hidden(regions2, p2))
    BY <2>1, <2>2, <2>3, PositionGrows
  <2> HIDE DEF start
  <2>5. layer(seg1, smp1, regions1, p1) # layer(seg2, smp2, regions2, p2)
    BY <2>4
  <2> QED BY <1>1, <2>5
<1> QED BY <1>3, <1>4

-----------------------------------------------------------------------------
(* Samples of a fragment: the loop over the sizes of the trun               *)

AreSizes(sizes) == IsList(sizes) /\ \A i \in 1..Len(sizes) : sizes[i] \in Nat

(***************************************************************************)
(* The offset of the loop over the samples is the partial sum of their     *)
(* sizes.                                                                  *)
(***************************************************************************)
LEMMA SampleEnds ==
    ASSUME NEW sizes, AreSizes(sizes), NEW f, IsSum(f, sizes, Len(sizes)),
           NEW m \in 0..Len(sizes)
    PROVE  SampleEnd(sizes, m) = f[m]
<1>0. Len(sizes) \in Nat /\ m \in Nat
  BY DEF AreSizes, IsList
<1> DEFINE step(g) == [n \in 0..m |-> IF n = 0 THEN 0 ELSE g[n - 1] + SampleSize(sizes, n)]
           end == CHOOSE g : g = step(g)
           h == [n \in 0..m |-> f[n]]
<1>1. IsSum(h, sizes, m)
  <2>1. \A i \in 0..m : f[i] \in Nat
    BY <1>0 DEF IsSum
  <2>2. h \in [0..m -> Nat] /\ h[0] = 0
    BY <1>0, <2>1 DEF IsSum
  <2>3. ASSUME NEW i \in 1..m PROVE h[i] = h[i - 1] + sizes[i]
    BY <1>0 DEF IsSum
  <2> HIDE DEF h
  <2> QED BY <2>2, <2>3 DEF IsSum
<1>2. \A i \in 1..m : SampleSize(sizes, i) = sizes[i]
  BY <1>0 DEF SampleSize
<1>3. h = step(h)
  <2>1. ASSUME NEW n \in 0..m
        PROVE  h[n] = IF n = 0 THEN 0 ELSE h[n - 1] + SampleSize(sizes, n)
    <3>1. n = 0 \/ n \in 1..m
      BY <1>0
    <3> HIDE DEF h
    <3> QED BY <1>1, <1>2, <3>1 DEF IsSum
  <2> QED BY <2>1
<1>4. end = step(end)
  <2> HIDE DEF h
  <2> QED BY <1>3
<1> HIDE DEF end
<1>5. DOMAIN end = 0..m /\ end[0] = 0 /\ \A i \in 1..m : end[i] = end[i - 1] + sizes[i]
  <2>1. DOMAIN end = 0..m
    BY <1>4
  <2>2. end[0] = 0
    BY <1>0, <1>4
  <2>3. ASSUME NEW i \in 1..m PROVE end[i] = end[i - 1] + sizes[i]
    BY <1>0, <1>2, <1>4
  <2> QED BY <2>1, <2>2, <2>3
<1>6. end[m] = h[m]
  <2>1. m \in 0..m
    BY <1>0
  <2> HIDE DEF h
  <2> QED BY <1>0, <1>1, <1>5, <2>1, SumUnique
<1>7. SampleEnd(sizes, m) = end[m]
  BY DEF SampleEnd, end
<1> QED BY <1>0, <1>6, <1>7

\* A part of a list that lies within it.
LEMMA PartOfList ==
    ASSUME NEW data, IsList(data), NEW a \in Nat, NEW n \in Nat, a + n <= Len(data)
    PROVE  /\ IsList(SubSeq(data, a + 1, a + n)) /\ Len(SubSeq(data, a + 1, a + n)) = n
           /\ \A j \in 1..n : SubSeq(data, a + 1, a + n)[j] = data[a + j]
<1> DEFINE S == Range(data)
           part == SubSeq(data, a + 1, a + n)
<1>1. data \in Seq(S) /\ Len(data) \in Nat
  BY DEF IsList
<1> HIDE DEF S
<1>2. part \in Seq(S)
  BY <1>1
<1>3. Len(part) = n
  BY <1>1
<1>4. ASSUME NEW j \in 1..n PROVE part[j] = data[a + j]
  <2>1. a + 1 \in Int /\ a + n \in Int /\ j \in 1..((a + n) - (a + 1) + 1) /\ j + (a + 1) - 1 = a + j
    OBVIOUS
  <2> QED BY <1>1, <2>1
<1>5. IsList(part)
  BY <1>2, SeqIsList
<1> QED BY <1>3, <1>4, <1>5

\* The samples of an mdat, which are all of it.
SamplesAre(data, sizes, ss) ==
    /\ IsList(data) /\ SampleEnd(sizes, Len(sizes)) = Len(data)
    /\ \A i \in 1..Len(sizes) : Sample(data, sizes, i) = ss[i]

\* Lists that are as long as the sizes say.
AreSamples(ss, sizes) ==
    /\ IsList(ss) /\ Len(ss) = Len(sizes)
    /\ \A i \in 1..Len(sizes) : IsList(ss[i]) /\ Len(ss[i]) = sizes[i]

(***************************************************************************)
(* Samples written one after another come apart again by their sizes.      *)
(***************************************************************************)
LEMMA SamplesOfFlat ==
    ASSUME NEW sizes, AreSizes(sizes), NEW ss, AreSamples(ss, sizes)
    PROVE  SamplesAre(FlattenSeq(ss), sizes, ss)
<1> DEFINE n == Len(sizes)
           flat == FlattenSeq(ss)
           S == UNION {Range(ss[i]) : i \in 1..Len(sizes)}
<1>1. n \in Nat /\ \A i \in 1..n : sizes[i] \in Nat
  BY DEF AreSizes, IsList
<1>2. Len(ss) = n /\ IsList(ss) /\ \A i \in 1..n : IsList(ss[i]) /\ Len(ss[i]) = sizes[i]
  BY DEF AreSamples
<1>3. ss \in Seq(Seq(S))
  <2>1. ASSUME NEW i \in 1..n PROVE ss[i] \in Seq(S)
    <3>1. Range(ss[i]) \subseteq S
      OBVIOUS
    <3>2. ss[i] \in Seq(Range(ss[i]))
      BY <1>2 DEF IsList
    <3> HIDE DEF S
    <3> QED BY <3>1, <3>2
  <2>2. ss = [i \in 1..n |-> ss[i]]
    BY <1>2 DEF IsList
  <2> HIDE DEF S
  <2>3. [i \in 1..n |-> ss[i]] \in Seq(Seq(S))
    BY <1>1, <2>1
  <2> QED BY <2>2, <2>3
<1> HIDE DEF S
<1>4. PICK f : IsSum(f, sizes, n)
  BY <1>1, SumExists
<1>5. IsSum(f, Lengths(ss), Len(ss))
  <2>1. \A i \in 1..n : Lengths(ss)[i] = sizes[i]
    BY <1>2 DEF Lengths
  <2> QED BY <1>2, <1>4, <2>1 DEF IsSum
<1>6. FlatAt(flat, f, ss)
  BY <1>3, <1>5, FlattenPlaces
<1>7. IsList(flat)
  BY <1>3, FlattenType, SeqIsList
<1> HIDE DEF flat
<1>8. \A m \in 0..n : SampleEnd(sizes, m) = f[m]
  BY <1>4, SampleEnds
<1>9. Len(flat) = f[n]
  BY <1>2, <1>6 DEF FlatAt
<1>10. SampleEnd(sizes, n) = Len(flat)
  BY <1>1, <1>8, <1>9
<1>11. ASSUME NEW i \in 1..n PROVE Sample(flat, sizes, i) = ss[i]
  <2>1. i \in 0..n /\ i - 1 \in 0..n /\ i <= n /\ n \in 0..n
    BY <1>1
  <2>2. f[i] = f[i - 1] + sizes[i] /\ f[i - 1] \in Nat /\ f[i] \in Nat
    BY <1>4, <2>1 DEF IsSum
  <2>3. f[i] <= f[n]
    BY <1>1, <1>4, <2>1, SumMonotone
  <2>4. SampleEnd(sizes, i - 1) = f[i - 1]
    BY <1>8, <2>1
  <2>5. SampleSize(sizes, i) = sizes[i]
    BY <1>1 DEF SampleSize
  <2> DEFINE a == f[i - 1]
             k == sizes[i]
             part == SubSeq(flat, a + 1, a + k)
  <2>6. Sample(flat, sizes, i) = part
    BY <2>4, <2>5 DEF Sample
  <2>7. a \in Nat /\ k \in Nat /\ a + k <= Len(flat)
    BY <1>1, <1>9, <2>2, <2>3
  <2>8. \A j \in 1..k : flat[a + j] = ss[i][j]
    BY <1>2, <1>6 DEF FlatAt
  <2>9. IsList(ss[i]) /\ Len(ss[i]) = k
    BY <1>2
  <2> HIDE DEF a, k
  <2>10. IsList(part) /\ Len(part) = k /\ \A j \in 1..k : part[j] = flat[a + j]
    BY <1>7, <2>7, PartOfList
  <2> HIDE DEF part
  <2>11. part = [j \in 1..k |-> part[j]] /\ ss[i] = [j \in 1..k |-> ss[i][j]]
    BY <2>9, <2>10 DEF IsList
  <2>12. \A j \in 1..k : part[j] = ss[i][j]
    BY <2>8, <2>10
  <2> QED BY <2>6, <2>11, <2>12
<1> QED BY <1>7, <1>10, <1>11 DEF SamplesAre, flat

(***************************************************************************)
(* The loop cuts an mdat into samples of the sizes of the trun, and with   *)
(* sizes that cover it nothing is left.                                    *)
(***************************************************************************)
LEMMA SamplesOfData ==
    ASSUME NEW sizes, AreSizes(sizes), NEW data, IsList(data),
           SampleEnd(sizes, Len(sizes)) = Len(data)
    PROVE  /\ \A i \in 1..Len(sizes) :
                /\ IsList(Sample(data, sizes, i)) /\ Len(Sample(data, sizes, i)) = sizes[i]
                /\ SampleEnd(sizes, i) <= Len(data)
           /\ Unsampled(data, sizes, Len(sizes)) = <<>>
<1> DEFINE n == Len(sizes)
<1>1. n \in Nat /\ \A i \in 1..n : sizes[i] \in Nat
  BY DEF AreSizes, IsList
<1>2. PICK f : IsSum(f, sizes, n)
  BY <1>1, SumExists
<1>3. \A m \in 0..n : SampleEnd(sizes, m) = f[m]
  BY <1>2, SampleEnds
<1>4. Len(data) = f[n] /\ Len(data) \in Nat
  BY <1>1, <1>3 DEF IsList
<1>5. ASSUME NEW i \in 1..n
      PROVE  /\ IsList(Sample(data, sizes, i)) /\ Len(Sample(data, sizes, i)) = sizes[i]
             /\ SampleEnd(sizes, i) <= Len(data)
  <2>1. i \in 0..n /\ i - 1 \in 0..n /\ i <= n /\ n \in 0..n
    BY <1>1
  <2>2. f[i] = f[i - 1] + sizes[i] /\ f[i - 1] \in Nat /\ f[i] \in Nat
    BY <1>2, <2>1 DEF IsSum
  <2>3. f[i] <= f[n]
    BY <1>1, <1>2, <2>1, SumMonotone
  <2>4. SampleEnd(sizes, i - 1) = f[i - 1] /\ SampleEnd(sizes, i) = f[i]
    BY <1>3, <2>1
  <2>5. SampleSize(sizes, i) = sizes[i]
    BY <1>1 DEF SampleSize
  <2> DEFINE a == f[i - 1]
             k == sizes[i]
  <2>6. Sample(data, sizes, i) = SubSeq(data, a + 1, a + k)
    BY <2>4, <2>5 DEF Sample
  <2>7. a \in Nat /\ k \in Nat /\ a + k <= Len(data)
    BY <1>1, <1>4, <2>2, <2>3
  <2>8. SampleEnd(sizes, i) <= Len(data)
    BY <1>4, <2>3, <2>4
  <2> HIDE DEF a, k
  <2>9. IsList(SubSeq(data, a + 1, a + k)) /\ Len(SubSeq(data, a + 1, a + k)) = k
    BY <2>7, PartOfList
  <2> QED BY <2>6, <2>8, <2>9 DEF k
<1>6. Unsampled(data, sizes, n) = <<>>
  <2>1. Unsampled(data, sizes, n) = SubSeq(data, Len(data) + 1, Len(data))
    BY DEF Unsampled
  <2>2. data \in Seq(Range(data))
    BY DEF IsList
  <2>3. SubSeq(data, Len(data) + 1, Len(data)) = <<>>
    BY <1>4, <2>2
  <2> QED BY <2>1, <2>3
<1> QED BY <1>5, <1>6

-----------------------------------------------------------------------------
(* Fragments: what is written back, and what is read of it                  *)

\* A list with nothing after it.
LEMMA NothingAfter == ASSUME NEW x, IsList(x) PROVE x \o <<>> = x
<1>1. x \in Seq(Range(x))
  BY DEF IsList
<1> QED BY <1>1

\* A bare sample is a list of units of one layer.
LEMMA BareUnits ==
    ASSUME NEW sample, IsBare(sample)
    PROVE  \E Unit : sample \in Seq(Seq(Unit))
<1> DEFINE Unit == {sample[p][1] : p \in 1..Len(sample)}
<1>1. IsList(sample) /\ Len(sample) \in Nat /\ sample = [p \in 1..Len(sample) |-> sample[p]]
  BY DEF IsBare, IsList
<1>2. ASSUME NEW p \in 1..Len(sample) PROVE sample[p] \in Seq(Unit)
  <2>1. sample[p] = << sample[p][1] >> /\ sample[p][1] \in Unit
    BY DEF IsBare
  <2>2. << sample[p][1] >> \in Seq(Unit)
    BY <2>1
  <2> QED BY <2>1, <2>2
<1> HIDE DEF Unit
<1>3. [p \in 1..Len(sample) |-> sample[p]] \in Seq(Seq(Unit))
  BY <1>1, <1>2
<1> QED BY <1>1, <1>3

\* Both ciphers work in place, on whatever they are given.
LEMMA CipherKeepsList ==
    ASSUME NEW sample, IsList(sample), NEW scheme, NEW key, NEW pattern, NEW iv, NEW map
    PROVE  /\ IsList(EncryptSample(scheme, key, pattern, iv, sample, map))
           /\ Len(EncryptSample(scheme, key, pattern, iv, sample, map)) = Len(sample)
           /\ IsList(DecryptSample(scheme, key, pattern, iv, sample, map))
           /\ Len(DecryptSample(scheme, key, pattern, iv, sample, map)) = Len(sample)
<1> DEFINE e == EncryptSample(scheme, key, pattern, iv, sample, map)
           d == DecryptSample(scheme, key, pattern, iv, sample, map)
<1>1. Len(sample) \in Nat
  BY DEF IsList
<1>2. e = [p \in 1..Len(sample) |-> e[p]]
  BY DEF EncryptSample
<1>3. d = [p \in 1..Len(sample) |-> d[p]]
  BY DEF DecryptSample
<1> HIDE DEF e, d
<1>4. IsList(e) /\ Len(e) = Len(sample)
  BY <1>1, <1>2, FunctionIsList
<1>5. IsList(d) /\ Len(d) = Len(sample)
  BY <1>1, <1>3, FunctionIsList
<1> QED BY <1>4, <1>5 DEF e, d

\* The samples of a fragment as the loops write them back.
Encrypted(data, sizes, maps, params) ==
    [i \in 1..Len(sizes) |->
        EncryptSample(params.targetScheme, params.targetKey, params.targetPattern,
                      GenerateIv(params.targetScheme, params.segmentNumber, i - 1),
                      Sample(data, sizes, i), maps[i])]

Decrypted(data, sizes, senc, params) ==
    [i \in 1..Len(sizes) |->
        DecryptSample(params.sourceScheme, params.sourceKey, params.sourcePattern,
                      DecryptionIv(senc.entries[i], params),
                      Sample(data, sizes, i), senc.entries[i].subsamples)]

Covered(data, sizes) ==
    AreSizes(sizes) /\ IsList(data) /\ SampleEnd(sizes, Len(sizes)) = Len(data)

(***************************************************************************)
(* The encryption loop writes the encrypted samples where the trun, which  *)
(* it copies, finds them.                                                  *)
(***************************************************************************)
LEMMA EncryptionLoop ==
    ASSUME NEW sizes, NEW data, Covered(data, sizes), NEW maps, Len(maps) = Len(sizes), NEW params
    PROVE  /\ EncryptSamples(data, sizes, maps, params) = FlattenSeq(Encrypted(data, sizes, maps, params))
           /\ SamplesAre(EncryptSamples(data, sizes, maps, params), sizes,
                         Encrypted(data, sizes, maps, params))
<1> DEFINE ss == Encrypted(data, sizes, maps, params)
<1>1. AreSizes(sizes) /\ Len(sizes) \in Nat
  BY DEF Covered, AreSizes, IsList
<1>2. /\ \A i \in 1..Len(sizes) : IsList(Sample(data, sizes, i)) /\ Len(Sample(data, sizes, i)) = sizes[i]
      /\ Unsampled(data, sizes, Len(sizes)) = <<>>
  BY SamplesOfData DEF Covered
<1>3. ss = [i \in 1..Len(sizes) |-> ss[i]]
  BY DEF Encrypted
<1>4. \A i \in 1..Len(sizes) : IsList(ss[i]) /\ Len(ss[i]) = sizes[i]
  BY <1>2, CipherKeepsList DEF Encrypted
<1>5. EncryptSamples(data, sizes, maps, params) = FlattenSeq(ss) \o Unsampled(data, sizes, Len(sizes))
  BY DEF EncryptSamples, Encrypted
<1> HIDE DEF ss
<1>6. IsList(ss) /\ Len(ss) = Len(sizes)
  BY <1>1, <1>3, FunctionIsList
<1>7. SamplesAre(FlattenSeq(ss), sizes, ss)
  BY <1>1, <1>4, <1>6, SamplesOfFlat DEF AreSamples
<1>8. FlattenSeq(ss) \o <<>> = FlattenSeq(ss)
  BY <1>7, NothingAfter DEF SamplesAre
<1> QED BY <1>2, <1>5, <1>7, <1>8 DEF ss

(***************************************************************************)
(* The decryption loop likewise.                                           *)
(***************************************************************************)
LEMMA DecryptionLoop ==
    ASSUME NEW sizes, NEW data, Covered(data, sizes),
           NEW senc, Len(senc.entries) = Len(sizes), NEW params
    PROVE  SamplesAre(DecryptSamples(data, sizes, senc, params), sizes,
                      Decrypted(data, sizes, senc, params))
<1> DEFINE ss == Decrypted(data, sizes, senc, params)
<1>1. AreSizes(sizes) /\ Len(sizes) \in Nat
  BY DEF Covered, AreSizes, IsList
<1>2. /\ \A i \in 1..Len(sizes) : IsList(Sample(data, sizes, i)) /\ Len(Sample(data, sizes, i)) = sizes[i]
      /\ Unsampled(data, sizes, Len(sizes)) = <<>>
  BY SamplesOfData DEF Covered
<1>3. ss = [i \in 1..Len(sizes) |-> ss[i]]
  BY DEF Decrypted
<1>4. \A i \in 1..Len(sizes) : IsList(ss[i]) /\ Len(ss[i]) = sizes[i]
  BY <1>2, CipherKeepsList DEF Decrypted
<1>5. DecryptSamples(data, sizes, senc, params) = FlattenSeq(ss) \o Unsampled(data, sizes, Len(sizes))
  BY DEF DecryptSamples, Decrypted
<1> HIDE DEF ss
<1>6. IsList(ss) /\ Len(ss) = Len(sizes)
  BY <1>1, <1>3, FunctionIsList
<1>7. SamplesAre(FlattenSeq(ss), sizes, ss)
  BY <1>1, <1>4, <1>6, SamplesOfFlat DEF AreSamples
<1>8. FlattenSeq(ss) \o <<>> = FlattenSeq(ss)
  BY <1>7, NothingAfter DEF SamplesAre
<1> QED BY <1>2, <1>5, <1>7, <1>8 DEF ss

\* What the rewrite is told of the source is what the init segment says of it,
SourceParams(params, info) ==
    IF info.present
    THEN /\ info.schm \in {"cbcs", "cenc"} /\ params.sourceScheme = info.schm
         /\ params.sourceKey = info.tenc.kid /\ params.sourcePattern = info.tenc.pattern
         /\ params.sourceIvSize = info.tenc.ivSize /\ params.constantIv = info.tenc.constantIv
    ELSE params.sourceScheme = "none"

\* and what it is told of the target what the new init segment says.
TargetParams(params, info) ==
    /\ params.targetScheme \in Schemes
    /\ info.present = IsEncrypted(params.targetScheme)
    /\ info.present =>
        /\ info.schm = params.targetScheme
        /\ info.tenc.kid = params.targetKey /\ info.tenc.pattern = params.targetPattern
        /\ info.tenc.ivSize = DefaultIvSize(params.targetScheme)

\* The IVs of generate_iv have the size that the tenc declares.
LEMMA IvSizes ==
    ASSUME NEW scheme \in {"cbcs", "cenc"}, NEW segment, NEW sample
    PROVE  /\ IsList(GenerateIv(scheme, segment, sample)) /\ GenerateIv(scheme, segment, sample) # <<>>
           /\ Len(GenerateIv(scheme, segment, sample)) = DefaultIvSize(scheme)
           /\ scheme = "cbcs" => Len(GenerateIv(scheme, segment, sample)) = 4
<1>1. CASE scheme = "cbcs"
  <2> DEFINE iv == <<segment, sample, 0, 0>>
  <2>1. iv \in Seq({segment, sample, 0}) /\ Len(iv) = 4 /\ iv # <<>>
    OBVIOUS
  <2>2. GenerateIv(scheme, segment, sample) = iv /\ DefaultIvSize(scheme) = 4
    BY <1>1 DEF GenerateIv, DefaultIvSize
  <2> HIDE DEF iv
  <2>3. IsList(iv)
    BY <2>1, SeqIsList
  <2> QED BY <2>1, <2>2, <2>3
<1>2. CASE scheme = "cenc"
  <2> DEFINE iv == <<segment, sample>>
  <2>1. iv \in Seq({segment, sample}) /\ Len(iv) = 2 /\ iv # <<>>
    OBVIOUS
  <2>2. GenerateIv(scheme, segment, sample) = iv /\ DefaultIvSize(scheme) = 2
    BY <1>2 DEF GenerateIv, DefaultIvSize
  <2> HIDE DEF iv
  <2>3. IsList(iv)
    BY <2>1, SeqIsList
  <2> QED BY <1>2, <2>1, <2>2, <2>3
<1> QED BY <1>1, <1>2

\* The samples of data that is not encrypted.
Raw(data, sizes) == [i \in 1..Len(sizes) |-> Sample(data, sizes, i)]
AllBare(data, sizes) == \A i \in 1..Len(sizes) : IsBare(Sample(data, sizes, i))

\* A map in every entry of the senc or in none.
MapsFit(maps, sub) ==
    \A i \in 1..Len(maps) : maps[i] = IF sub THEN SubsampleMap(maps[i].pairs) ELSE Whole

Result(info, moof, mdat, found) ==
    FragmentWellFormed(info, moof, mdat) /\ ReadFragment(info, moof, mdat) = found

(***************************************************************************)
(* What an encrypting rewrite writes, read by what the new init segment    *)
(* says, gives what was encrypted: every entry of the new senc has the IV  *)
(* and the map that its sample was encrypted with.                         *)
(***************************************************************************)
LEMMA EncryptedGives ==
    ASSUME NEW data, NEW maps, NEW sub \in BOOLEAN, NEW params, NEW info, NEW traf, IsTraf(traf),
           Covered(data, traf.sizes), AllBare(data, traf.sizes),
           Len(maps) = Len(traf.sizes), MapsFit(maps, sub),
           TargetParams(params, info), IsEncrypted(params.targetScheme),
           traf.senc = BuildSenc(NewEntries(maps, params), sub)
    PROVE  Result(info, Moof(<<traf>>), Mdat(EncryptSamples(data, traf.sizes, maps, params)),
                  Raw(data, traf.sizes))
<1> DEFINE sizes == traf.sizes
           n     == Len(sizes)
           moof  == Moof(<<traf>>)
           new   == EncryptSamples(data, sizes, maps, params)
           mdat  == Mdat(new)
           ss    == Encrypted(data, sizes, maps, params)
           iv(i) == GenerateIv(params.targetScheme, params.segmentNumber, i - 1)
           entry(i) == traf.senc.entries[i]
<1>1. AreSizes(sizes) /\ n \in Nat /\ \A i \in 1..n : sizes[i] \in Nat
  BY DEF Covered, AreSizes, IsList
<1>2. SamplesAre(new, sizes, ss)
  BY EncryptionLoop
<1>3. info.present /\ params.targetScheme \in {"cbcs", "cenc"} /\ info.schm = params.targetScheme
  BY DEF TargetParams, IsEncrypted, Schemes
<1>4. /\ info.tenc.kid = params.targetKey /\ info.tenc.pattern = params.targetPattern
      /\ info.tenc.ivSize = DefaultIvSize(params.targetScheme)
  BY <1>3 DEF TargetParams
<1>5. moof.trafs[1] = traf /\ mdat.data = new
  BY DEF Moof, Mdat
<1>6. ASSUME NEW i \in 1..n
      PROVE  /\ entry(i).iv = iv(i) /\ entry(i).subsamples = maps[i]
             /\ entry(i).subsamples = IF sub THEN SubsampleMap(entry(i).subsamples.pairs) ELSE Whole
  <2>1. NewEntries(maps, params)[i] = [iv |-> iv(i), subsamples |-> maps[i]]
        /\ Len(NewEntries(maps, params)) = n
    BY <1>1 DEF NewEntries
  <2>2. entry(i) = [iv |-> NewEntries(maps, params)[i].iv,
                    subsamples |-> IF sub THEN SubsampleMap(NewEntries(maps, params)[i].subsamples.pairs)
                                   ELSE Whole]
    BY <1>1, <2>1 DEF BuildSenc
  <2>3. maps[i] = IF sub THEN SubsampleMap(maps[i].pairs) ELSE Whole
    BY DEF MapsFit
  <2> QED BY <2>1, <2>2, <2>3
<1>7. /\ traf.senc = [present |-> TRUE, subsampled |-> sub, entries |-> traf.senc.entries]
      /\ traf.senc.entries = [i \in 1..n |-> entry(i)]
  <2>1. Len(NewEntries(maps, params)) = n
    BY <1>1 DEF NewEntries
  <2> QED BY <2>1 DEF BuildSenc
<1>8. IsList(traf.senc.entries) /\ Len(traf.senc.entries) = n
  BY <1>1, <1>7, FunctionIsList
<1>9. \A i \in 1..n : /\ IsList(iv(i)) /\ iv(i) # <<>> /\ Len(iv(i)) = info.tenc.ivSize
                      /\ info.schm = "cbcs" => Len(iv(i)) = 4
  BY <1>3, <1>4, IvSizes
<1>10. traf.senc.present /\ traf.senc.subsampled = sub
  BY <1>7
<1> HIDE DEF new, ss, iv
<1>11. ASSUME NEW i \in 1..n
       PROVE  ReadFragment(info, moof, mdat)[i] = Sample(data, sizes, i)
  <2>1. ReadFragment(info, moof, mdat)[i] = ReadSample(info, entry(i), Sample(new, sizes, i))
    BY <1>3, <1>5, <1>8, <1>10 DEF ReadFragment
  <2>2. Sample(new, sizes, i) = ss[i]
    BY <1>2 DEF SamplesAre
  <2>3. ss[i] = EncryptSample(params.targetScheme, params.targetKey, params.targetPattern,
                              iv(i), Sample(data, sizes, i), maps[i])
    BY DEF ss, iv, Encrypted
  <2>4. ResolvedIv(entry(i), info.tenc.constantIv) = iv(i) /\ Len(entry(i).iv) = info.tenc.ivSize
    BY <1>6, <1>9 DEF ResolvedIv
  <2>5. ReadSample(info, entry(i), ss[i])
        = DecryptSample(params.targetScheme, params.targetKey, params.targetPattern, iv(i), ss[i], maps[i])
    BY <1>3, <1>4, <1>6, <2>4 DEF ReadSample
  <2>6. IsBare(Sample(data, sizes, i))
    BY DEF AllBare
  <2>7. PICK Unit : Sample(data, sizes, i) \in Seq(Seq(Unit))
    BY <2>6, BareUnits
  <2> HIDE DEF entry, moof, mdat, n, sizes
  <2>8. ReadSample(info, entry(i), ss[i]) = Sample(data, sizes, i)
    BY <2>3, <2>5, <2>7, DecryptionUndoesEncryption
  <2> QED BY <2>1, <2>2, <2>8
<1>12. ReadFragment(info, moof, mdat) = Raw(data, sizes)
  <2>1. ReadFragment(info, moof, mdat) = [i \in 1..n |-> ReadFragment(info, moof, mdat)[i]]
    BY <1>5 DEF ReadFragment
  <2> HIDE DEF moof, mdat
  <2>2. [i \in 1..n |-> ReadFragment(info, moof, mdat)[i]] = [i \in 1..n |-> Sample(data, sizes, i)]
    BY <1>11
  <2> QED BY <2>1, <2>2 DEF Raw
<1>13. SencWellFormed(traf.senc, n, info)
  <2>1. ASSUME NEW i \in 1..n
        PROVE  /\ Len(entry(i).iv) = info.tenc.ivSize
               /\ info.schm = "cbcs" => /\ IsList(ResolvedIv(entry(i), info.tenc.constantIv))
                                        /\ Len(ResolvedIv(entry(i), info.tenc.constantIv)) = 4
               /\ entry(i).subsamples = IF traf.senc.subsampled THEN SubsampleMap(entry(i).subsamples.pairs)
                                        ELSE Whole
    BY <1>6, <1>9, <1>10 DEF ResolvedIv
  <2> QED BY <1>7, <1>8, <1>10, <2>1 DEF SencWellFormed
<1>14. FragmentWellFormed(info, moof, mdat)
  <2>1. moof = Moof(<<moof.trafs[1]>>)
    BY <1>5
  <2>2. \A i \in 1..n : IsBare(ReadFragment(info, moof, mdat)[i])
    BY <1>11 DEF AllBare
  <2>3. IsList(new) /\ SampleEnd(sizes, n) = Len(new) /\ IsList(sizes)
    BY <1>1, <1>2 DEF SamplesAre, AreSizes
  <2> HIDE DEF moof, mdat
  <2> QED BY <1>1, <1>3, <1>5, <1>13, <2>1, <2>2, <2>3 DEF FragmentWellFormed
<1> QED BY <1>12, <1>14 DEF Result, new

(***************************************************************************)
(* A fragment without a senc, under an init segment without a sinf, gives  *)
(* as its data stands.                                                     *)
(***************************************************************************)
LEMMA ClearGives ==
    ASSUME NEW data, NEW info, ~info.present, NEW traf, IsTraf(traf),
           Covered(data, traf.sizes), AllBare(data, traf.sizes), traf.senc = NoSenc
    PROVE  Result(info, Moof(<<traf>>), Mdat(data), Raw(data, traf.sizes))
<1> DEFINE sizes == traf.sizes
           n     == Len(sizes)
           moof  == Moof(<<traf>>)
           mdat  == Mdat(data)
<1>1. AreSizes(sizes) /\ n \in Nat /\ \A i \in 1..n : sizes[i] \in Nat
  BY DEF Covered, AreSizes, IsList
<1>2. moof.trafs[1] = traf /\ mdat.data = data /\ moof = Moof(<<moof.trafs[1]>>)
  BY DEF Moof, Mdat
<1>3. ~traf.senc.present
  BY DEF NoSenc
<1>4. ReadFragment(info, moof, mdat) = Raw(data, sizes)
  BY <1>2, <1>3 DEF ReadFragment, Raw
<1>5. \A i \in 1..n : IsBare(ReadFragment(info, moof, mdat)[i])
  BY <1>4 DEF Raw, AllBare
<1>6. IsList(data) /\ SampleEnd(sizes, n) = Len(data) /\ IsList(sizes)
  BY <1>1 DEF Covered, AreSizes
<1> HIDE DEF moof, mdat
<1>7. FragmentWellFormed(info, moof, mdat)
  BY <1>1, <1>2, <1>5, <1>6 DEF FragmentWellFormed
<1> QED BY <1>4, <1>7 DEF Result, moof, mdat

\* A fragment of the source, and what is read of it.
LEMMA FragmentParts ==
    ASSUME NEW info, NEW moof, NEW mdat, FragmentWellFormed(info, moof, mdat)
    PROVE  LET traf == moof.trafs[1]
           IN  /\ moof = Moof(<<traf>>) /\ IsTraf(traf) /\ Covered(mdat.data, traf.sizes)
               /\ TrunOf(moof) = traf /\ SencOf(moof) = traf.senc
               /\ IF info.present THEN SencWellFormed(traf.senc, Len(traf.sizes), info)
                  ELSE traf.senc = NoSenc
               /\ \A i \in 1..Len(traf.sizes) : IsBare(ReadFragment(info, moof, mdat)[i])
<1> DEFINE traf == moof.trafs[1]
           trafs == <<traf>>
           places == {t \in 1..Len(trafs) : trafs[t].senc.present}
<1>1. /\ moof = Moof(<<traf>>) /\ IsTraf(traf) /\ Covered(mdat.data, traf.sizes)
      /\ \A i \in 1..Len(traf.sizes) : IsBare(ReadFragment(info, moof, mdat)[i])
      /\ IF info.present THEN SencWellFormed(traf.senc, Len(traf.sizes), info)
         ELSE traf.senc = NoSenc
  BY DEF FragmentWellFormed, Covered, AreSizes
<1>2. moof.trafs = trafs
  BY <1>1 DEF Moof
<1>3. trafs \in Seq({traf}) /\ Len(trafs) = 1 /\ trafs[1] = traf
  OBVIOUS
<1>4. TrunOf(moof) = traf
  BY <1>2, <1>3 DEF TrunOf, Last
<1> HIDE DEF traf, trafs
<1>5. SencsIn(moof) = Chosen(trafs, places)
  BY <1>2 DEF SencsIn
<1>6. SencOf(moof) = traf.senc
  <2>1. CASE traf.senc.present
    <3>1. \A t \in 1..Len(trafs) : t \in places
      BY <1>3, <2>1
    <3> HIDE DEF places
    <3>2. SencsIn(moof) = trafs
      BY <1>3, <1>5, <3>1, ChosenAll
    <3>3. trafs # <<>>
      BY DEF trafs
    <3> QED BY <1>3, <3>2, <3>3 DEF SencOf, Last
  <2>2. CASE ~traf.senc.present
    <3>1. \A t \in 1..Len(trafs) : t \notin places
      BY <1>3, <2>2
    <3> HIDE DEF places
    <3>2. SencsIn(moof) = <<>>
      BY <1>3, <1>5, <3>1, ChosenNone
    <3>3. traf.senc = NoSenc
      BY <1>1, <2>2 DEF SencWellFormed, traf
    <3> QED BY <3>2, <3>3 DEF SencOf
  <2> QED BY <2>1, <2>2
<1> QED BY <1>1, <1>4, <1>6 DEF traf

(***************************************************************************)
(* The decryption loop takes off what a reader of the source would: the    *)
(* same key, pattern and map, and the same IV, which is not padded when    *)
(* it fills a block.                                                       *)
(***************************************************************************)
LEMMA DecryptedIsFound ==
    ASSUME NEW info, NEW moof, NEW mdat, FragmentWellFormed(info, moof, mdat), info.present,
           NEW params, SourceParams(params, info)
    PROVE  LET traf == moof.trafs[1]
           IN  Decrypted(mdat.data, traf.sizes, traf.senc, params) = ReadFragment(info, moof, mdat)
<1> DEFINE traf == moof.trafs[1]
           n    == Len(traf.sizes)
           entry(i) == traf.senc.entries[i]
           iv(i) == ResolvedIv(entry(i), info.tenc.constantIv)
           raw(i) == Sample(mdat.data, traf.sizes, i)
<1>1. SencWellFormed(traf.senc, n, info)
  BY DEF FragmentWellFormed
<1>2. /\ traf.senc.present /\ Len(traf.senc.entries) = n
      /\ \A i \in 1..n : /\ Len(entry(i).iv) = info.tenc.ivSize
                         /\ info.schm = "cbcs" => IsList(iv(i)) /\ Len(iv(i)) = 4
  <2>1. traf.senc.present
    BY <1>1 DEF SencWellFormed
  <2> QED BY <1>1, <2>1 DEF SencWellFormed
<1>3. /\ params.sourceScheme = info.schm /\ params.sourceKey = info.tenc.kid
      /\ params.sourcePattern = info.tenc.pattern /\ params.constantIv = info.tenc.constantIv
  BY DEF SourceParams
<1>4. ASSUME NEW i \in 1..n PROVE DecryptionIv(entry(i), params) = iv(i)
  <2>1. CASE info.schm = "cbcs"
    <3> DEFINE v == iv(i)
    <3>1. IsList(v) /\ Len(v) = 4
      BY <1>2, <2>1
    <3> HIDE DEF v
    <3>2. PadIvTo16(v) = v
      <4>1. v \in Seq(Range(v))
        BY <3>1 DEF IsList
      <4> DEFINE z == [w \in 1..(4 - Len(v)) |-> 0]
      <4>2. z = [w \in 1..0 |-> z[w]]
        BY <3>1
      <4> HIDE DEF z
      <4>3. z = <<>>
        <5>1. IsList(z) /\ Len(z) = 0
          BY <4>2, FunctionIsList
        <5>2. z \in Seq(Range(z))
          BY <5>1 DEF IsList
        <5> QED BY <5>1, <5>2
      <4>4. <<>> \o v = v
        BY <4>1
      <4> QED BY <4>3, <4>4 DEF PadIvTo16, z
    <3> QED BY <1>3, <3>2 DEF DecryptionIv, v
  <2>2. CASE info.schm # "cbcs"
    BY <1>3, <2>2 DEF DecryptionIv
  <2> QED BY <2>1, <2>2
<1>5. ASSUME NEW i \in 1..n
      PROVE  ReadFragment(info, moof, mdat)[i] = ReadSample(info, entry(i), raw(i))
  BY <1>2 DEF ReadFragment
<1>6. ReadFragment(info, moof, mdat) = [i \in 1..n |-> ReadFragment(info, moof, mdat)[i]]
  BY DEF ReadFragment
<1>7. ASSUME NEW i \in 1..n
      PROVE  ReadSample(info, entry(i), raw(i)) =
                 DecryptSample(params.sourceScheme, params.sourceKey, params.sourcePattern,
                               DecryptionIv(entry(i), params), raw(i), entry(i).subsamples)
  BY <1>2, <1>3, <1>4 DEF ReadSample
<1>8. Decrypted(mdat.data, traf.sizes, traf.senc, params)
      = [i \in 1..n |-> DecryptSample(params.sourceScheme, params.sourceKey, params.sourcePattern,
                               DecryptionIv(entry(i), params), raw(i), entry(i).subsamples)]
  BY DEF Decrypted
<1> HIDE DEF entry, raw, iv
<1>9. [i \in 1..n |-> DecryptSample(params.sourceScheme, params.sourceKey, params.sourcePattern,
                               DecryptionIv(entry(i), params), raw(i), entry(i).subsamples)]
      = [i \in 1..n |-> ReadFragment(info, moof, mdat)[i]]
  BY <1>5, <1>7
<1> QED BY <1>6, <1>8, <1>9

-----------------------------------------------------------------------------
(* rewrite_segment                                                          *)

MapsOf(traf) == [i \in 1..Len(traf.sizes) |-> traf.senc.entries[i].subsamples]

\* An mdat that holds the samples, each encrypted with its own IV and map.
WrittenBy(data, samples, maps, params) ==
    data = FlattenSeq([i \in 1..Len(samples) |->
        EncryptSample(params.targetScheme, params.targetKey, params.targetPattern,
                      GenerateIv(params.targetScheme, params.segmentNumber, i - 1),
                      samples[i], maps[i])])

\* Two boxes that read as the last fragment of a segment did.
Rewrote(out, info, new, segment, params) ==
    LET traf   == MoofOf(segment).trafs[1]
        found == ReadFragment(info, MoofOf(segment), MdatOf(segment))
        traf2  == out[1].trafs[1]
    IN  /\ out = <<out[1], out[2]>> /\ out[1].type = "moof" /\ out[2].type = "mdat"
        /\ Result(new, out[1], out[2], found)
        /\ traf2.track = traf.track /\ traf2.sizes = traf.sizes
        /\ new.present => /\ WrittenBy(out[2].data, found, MapsOf(traf2), params)
                          /\ \A i \in 1..Len(traf.sizes) :
                                MapsOf(traf2)[i] = IF info.present THEN MapsOf(traf)[i] ELSE Whole

\* A moof of one traf, rebuilt around it.
OneTraf(traf, senc, aux) ==
    [track |-> traf.track, sizes |-> traf.sizes, sized |-> traf.sized, senc |-> senc,
     aux |-> aux, dataOffset |-> traf.dataOffset, firstFlags |-> traf.firstFlags,
     defaultFlags |-> traf.defaultFlags]

\* It has the parts of a traf, the new senc, and the sizes and track of the old one.
LEMMA OneTrafIs ==
    ASSUME NEW traf, NEW senc, NEW aux
    PROVE  LET new == OneTraf(traf, senc, aux)
           IN  IsTraf(new) /\ new.senc = senc /\ new.sizes = traf.sizes /\ new.track = traf.track
BY DEF OneTraf, IsTraf

\* The three ways segment.rs rebuilds a moof, for a moof of one traf.
LEMMA MoofsRebuilt ==
    ASSUME NEW traf, IsTraf(traf), NEW senc
    PROVE  /\ traf.senc.present =>
                RebuildMoof(Moof(<<traf>>), senc) = Moof(<<OneTraf(traf, senc, FALSE)>>)
           /\ RebuildMoofInjectSenc(Moof(<<traf>>), senc) = Moof(<<OneTraf(traf, senc, traf.aux)>>)
           /\ RebuildMoofStripSenc(Moof(<<traf>>)) = Moof(<<OneTraf(traf, NoSenc, FALSE)>>)
<1> DEFINE trafs == Moof(<<traf>>).trafs
           new(x) == [traf EXCEPT !.senc = x]
           bare(x) == [new(x) EXCEPT !.aux = FALSE]
<1>1. trafs = <<traf>> /\ Len(trafs) = 1 /\ trafs[1] = traf
  BY DEF Moof
<1>2. ASSUME NEW x PROVE new(x) = OneTraf(traf, x, traf.aux) /\ bare(x) = OneTraf(traf, x, FALSE)
  <2>1. new(x) = OneTraf(traf, x, traf.aux)
    BY DEF IsTraf, OneTraf
  <2>2. [OneTraf(traf, x, traf.aux) EXCEPT !.aux = FALSE] = OneTraf(traf, x, FALSE)
    <3> DEFINE o == OneTraf(traf, x, traf.aux)
    <3>1. /\ IsTraf(o) /\ o.senc = x /\ o.sizes = traf.sizes /\ o.track = traf.track
          /\ o.sized = traf.sized /\ o.dataOffset = traf.dataOffset /\ o.firstFlags = traf.firstFlags
          /\ o.defaultFlags = traf.defaultFlags
      BY DEF OneTraf, IsTraf
    <3> HIDE DEF o
    <3>2. \A y : [o EXCEPT !.aux = y]
                  = [track |-> o.track, sizes |-> o.sizes, sized |-> o.sized, senc |-> o.senc,
                     aux |-> y, dataOffset |-> o.dataOffset, firstFlags |-> o.firstFlags, defaultFlags |-> o.defaultFlags]
      BY <3>1 DEF IsTraf
    <3>3. [o EXCEPT !.aux = FALSE]
          = [track |-> o.track, sizes |-> o.sizes, sized |-> o.sized, senc |-> o.senc,
             aux |-> FALSE, dataOffset |-> o.dataOffset, firstFlags |-> o.firstFlags, defaultFlags |-> o.defaultFlags]
      BY <3>2, Zenon
    <3>4. OneTraf(traf, x, FALSE)
          = [track |-> o.track, sizes |-> o.sizes, sized |-> o.sized, senc |-> o.senc,
             aux |-> FALSE, dataOffset |-> o.dataOffset, firstFlags |-> o.firstFlags, defaultFlags |-> o.defaultFlags]
      BY <3>1, Zenon DEF OneTraf
    <3> QED BY <3>3, <3>4 DEF o
  <2> HIDE DEF new
  <2> QED BY <2>1, <2>2
<1>3. InjectSenc(traf, senc) = OneTraf(traf, senc, traf.aux)
  <2>1. InjectSenc(traf, senc) = new(senc)
    BY DEF InjectSenc
  <2> HIDE DEF new
  <2> QED BY <1>2, <2>1
<1>4. StripSenc(traf) = OneTraf(traf, NoSenc, FALSE)
  <2>1. StripSenc(traf) = bare(NoSenc)
    BY DEF StripSenc
  <2> HIDE DEF bare
  <2> QED BY <1>2, <2>1
<1>5. ASSUME traf.senc.present PROVE RebuildTraf(traf, senc) = OneTraf(traf, senc, FALSE)
  <2>1. RebuildTraf(traf, senc) = bare(senc)
    BY <1>5 DEF RebuildTraf
  <2> HIDE DEF bare
  <2> QED BY <1>2, <2>1
<1> HIDE DEF trafs
<1>6. RebuildMoofInjectSenc(Moof(<<traf>>), senc) = Moof(<<OneTraf(traf, senc, traf.aux)>>)
  <2>1. [t \in 1..Len(trafs) |-> InjectSenc(trafs[t], senc)] = <<InjectSenc(trafs[1], senc)>>
    BY <1>1
  <2> QED BY <1>1, <1>3, <2>1 DEF RebuildMoofInjectSenc, trafs
<1>7. RebuildMoofStripSenc(Moof(<<traf>>)) = Moof(<<OneTraf(traf, NoSenc, FALSE)>>)
  <2>1. [t \in 1..Len(trafs) |-> StripSenc(trafs[t])] = <<StripSenc(trafs[1])>>
    BY <1>1
  <2> QED BY <1>1, <1>4, <2>1 DEF RebuildMoofStripSenc, trafs
<1>8. ASSUME traf.senc.present
      PROVE  RebuildMoof(Moof(<<traf>>), senc) = Moof(<<OneTraf(traf, senc, FALSE)>>)
  <2>1. [t \in 1..Len(trafs) |-> RebuildTraf(trafs[t], senc)] = <<RebuildTraf(trafs[1], senc)>>
    BY <1>1
  <2> QED BY <1>1, <1>5, <1>8, <2>1 DEF RebuildMoof, trafs
<1> QED BY <1>6, <1>7, <1>8

\* What the rewrite is given, and what the init segments say.
Premises(segment, info, new, params) ==
    /\ FragmentWellFormed(info, MoofOf(segment), MdatOf(segment))
    /\ SourceParams(params, info) /\ TargetParams(params, new)

\* The decryption loop gives the samples read of the source, with its sizes.
LEMMA DecryptedData ==
    ASSUME NEW segment, NEW info, NEW new, NEW params, Premises(segment, info, new, params), info.present
    PROVE  LET traf == MoofOf(segment).trafs[1]
               data == DecryptSamples(MdatOf(segment).data, traf.sizes, traf.senc, params)
           IN  /\ Covered(data, traf.sizes) /\ AllBare(data, traf.sizes)
               /\ Raw(data, traf.sizes) = ReadFragment(info, MoofOf(segment), MdatOf(segment))
<1> DEFINE moof == MoofOf(segment)
           mdat == MdatOf(segment)
           traf == moof.trafs[1]
           sizes == traf.sizes
           data == DecryptSamples(mdat.data, sizes, traf.senc, params)
           found == ReadFragment(info, moof, mdat)
<1> USE DEF Premises
<1>1. FragmentWellFormed(info, moof, mdat) /\ SourceParams(params, info)
  OBVIOUS
<1>2. /\ Covered(mdat.data, sizes) /\ SencWellFormed(traf.senc, Len(sizes), info)
      /\ \A i \in 1..Len(sizes) : IsBare(found[i])
  BY <1>1, FragmentParts
<1>3. Len(traf.senc.entries) = Len(sizes)
  BY <1>2 DEF SencWellFormed
<1>4. Decrypted(mdat.data, sizes, traf.senc, params) = found
  BY <1>1, DecryptedIsFound
<1>5. SamplesAre(data, sizes, found)
  BY <1>2, <1>3, <1>4, DecryptionLoop
<1>6. found = [i \in 1..Len(sizes) |-> found[i]]
  BY DEF ReadFragment
<1> HIDE DEF data, found
<1>7. Covered(data, sizes)
  BY <1>2, <1>5 DEF SamplesAre, Covered
<1>8. \A i \in 1..Len(sizes) : Sample(data, sizes, i) = found[i]
  BY <1>5 DEF SamplesAre
<1>9. AllBare(data, sizes)
  BY <1>2, <1>8 DEF AllBare
<1>10. Raw(data, sizes) = found
  BY <1>6, <1>8 DEF Raw
<1> QED BY <1>7, <1>9, <1>10 DEF data, found

\* The data of a clear fragment are the samples read of it.
LEMMA ClearData ==
    ASSUME NEW segment, NEW info, NEW new, NEW params, Premises(segment, info, new, params), ~info.present
    PROVE  LET traf == MoofOf(segment).trafs[1]
               data == MdatOf(segment).data
           IN  /\ Covered(data, traf.sizes) /\ AllBare(data, traf.sizes)
               /\ Raw(data, traf.sizes) = ReadFragment(info, MoofOf(segment), MdatOf(segment))
<1> DEFINE moof == MoofOf(segment)
           mdat == MdatOf(segment)
           traf == moof.trafs[1]
           sizes == traf.sizes
           found == ReadFragment(info, moof, mdat)
<1>1. FragmentWellFormed(info, moof, mdat)
  BY DEF Premises
<1>2. /\ Covered(mdat.data, sizes) /\ traf.senc = NoSenc
      /\ \A i \in 1..Len(sizes) : IsBare(found[i])
  BY <1>1, FragmentParts
<1>3. ~traf.senc.present
  BY <1>2 DEF NoSenc
<1>4. found = Raw(mdat.data, sizes)
  BY <1>3 DEF ReadFragment, Raw
<1>5. AllBare(mdat.data, sizes)
  BY <1>2, <1>4 DEF AllBare, Raw
<1> QED BY <1>2, <1>4, <1>5

\* The maps of the new senc are those that the samples were encrypted with.
LEMMA MapsWritten ==
    ASSUME NEW maps, Len(maps) \in Nat, NEW sub \in BOOLEAN, MapsFit(maps, sub), NEW params
    PROVE  \A i \in 1..Len(maps) :
               BuildSenc(NewEntries(maps, params), sub).entries[i].subsamples = maps[i]
<1> DEFINE entries == NewEntries(maps, params)
<1>1. Len(entries) = Len(maps) /\ \A i \in 1..Len(maps) : entries[i].subsamples = maps[i]
  BY DEF NewEntries
<1> HIDE DEF entries
<1>2. ASSUME NEW i \in 1..Len(maps)
      PROVE  BuildSenc(entries, sub).entries[i].subsamples = maps[i]
  <2>1. BuildSenc(entries, sub).entries[i].subsamples
        = IF sub THEN SubsampleMap(entries[i].subsamples.pairs) ELSE Whole
    BY <1>1 DEF BuildSenc
  <2>2. maps[i] = IF sub THEN SubsampleMap(maps[i].pairs) ELSE Whole
    BY DEF MapsFit
  <2> QED BY <1>1, <2>1, <2>2
<1> QED BY <1>2 DEF entries

\* Data whose samples are those read of the source, and the maps of its senc.
Bared(data, maps, sub, segment, info) ==
    LET traf == MoofOf(segment).trafs[1]
    IN  /\ Covered(data, traf.sizes) /\ AllBare(data, traf.sizes)
        /\ Raw(data, traf.sizes) = ReadFragment(info, MoofOf(segment), MdatOf(segment))
        /\ maps = [i \in 1..Len(traf.sizes) |-> IF info.present THEN MapsOf(traf)[i] ELSE Whole]
        /\ MapsFit(maps, sub)

(***************************************************************************)
(* A rewrite that encrypts: from data whose samples are bare it makes a    *)
(* fragment that gives them.                                               *)
(***************************************************************************)
LEMMA EncryptingRewrote ==
    ASSUME NEW segment, NEW info, NEW new, NEW params, Premises(segment, info, new, params),
           IsEncrypted(params.targetScheme), NEW data, NEW maps, NEW sub \in BOOLEAN, NEW aux,
           Bared(data, maps, sub, segment, info)
    PROVE  LET traf == MoofOf(segment).trafs[1]
               senc == BuildSenc(NewEntries(maps, params), sub)
           IN  Rewrote(<< Moof(<<OneTraf(traf, senc, aux)>>),
                          Mdat(EncryptSamples(data, traf.sizes, maps, params)) >>,
                       info, new, segment, params)
<1> DEFINE moof == MoofOf(segment)
           mdat == MdatOf(segment)
           traf == moof.trafs[1]
           sizes == traf.sizes
           found == ReadFragment(info, moof, mdat)
           senc == BuildSenc(NewEntries(maps, params), sub)
           traf2 == OneTraf(traf, senc, aux)
           data2 == EncryptSamples(data, sizes, maps, params)
           out == << Moof(<<traf2>>), Mdat(data2) >>
<1>1. /\ Covered(data, sizes) /\ AllBare(data, sizes) /\ Raw(data, sizes) = found
      /\ maps = [i \in 1..Len(sizes) |-> IF info.present THEN MapsOf(traf)[i] ELSE Whole]
      /\ MapsFit(maps, sub) /\ TargetParams(params, new)
  BY DEF Premises, Bared
<1>2. Len(sizes) \in Nat /\ Len(maps) = Len(sizes)
  <2>1. Len(sizes) \in Nat
    BY <1>1 DEF Covered, AreSizes, IsList
  <2> QED BY <1>1, <2>1
<1>3. IsTraf(traf2) /\ traf2.senc = senc /\ traf2.sizes = sizes /\ traf2.track = traf.track
  BY OneTrafIs
<1>4. EncryptSamples(data, sizes, maps, params) = FlattenSeq(Encrypted(data, sizes, maps, params))
  BY <1>1, <1>2, EncryptionLoop
<1>5. Len(found) = Len(sizes) /\ \A i \in 1..Len(sizes) : found[i] = Sample(data, sizes, i)
  BY <1>1, <1>2 DEF Raw
<1>6. MapsOf(traf2) = maps
  <2>1. \A i \in 1..Len(maps) : senc.entries[i].subsamples = maps[i]
    BY <1>1, <1>2, MapsWritten
  <2>2. maps = [i \in 1..Len(sizes) |-> maps[i]]
    BY <1>1
  <2> HIDE DEF senc, sizes, traf2
  <2>3. MapsOf(traf2) = [i \in 1..Len(sizes) |-> senc.entries[i].subsamples]
    BY <1>3 DEF MapsOf
  <2>4. [i \in 1..Len(sizes) |-> senc.entries[i].subsamples] = [i \in 1..Len(sizes) |-> maps[i]]
    BY <1>2, <2>1
  <2> QED BY <2>2, <2>3, <2>4
<1>7. out[1].trafs[1] = traf2 /\ out[2].data = data2
      /\ out = <<out[1], out[2]>> /\ out[1].type = "moof" /\ out[2].type = "mdat"
  BY DEF Moof, Mdat
<1>8. Result(new, out[1], out[2], found)
  <2> HIDE DEF traf2
  <2>1. Covered(data, traf2.sizes) /\ AllBare(data, traf2.sizes) /\ Len(maps) = Len(traf2.sizes)
    BY <1>1, <1>2, <1>3
  <2>2. Result(new, Moof(<<traf2>>), Mdat(EncryptSamples(data, traf2.sizes, maps, params)),
               Raw(data, traf2.sizes))
    BY <1>1, <1>3, <2>1, EncryptedGives
  <2> QED BY <1>1, <1>3, <2>2
<1>9. WrittenBy(data2, found, maps, params)
  <2> HIDE DEF sizes, found
  <2>1. [i \in 1..Len(sizes) |->
           EncryptSample(params.targetScheme, params.targetKey, params.targetPattern,
                      GenerateIv(params.targetScheme, params.segmentNumber, i - 1),
                      Sample(data, sizes, i), maps[i])]
        = [i \in 1..Len(found) |->
           EncryptSample(params.targetScheme, params.targetKey, params.targetPattern,
                      GenerateIv(params.targetScheme, params.segmentNumber, i - 1),
                      found[i], maps[i])]
    BY <1>5
  <2> QED BY <1>4, <2>1 DEF WrittenBy, Encrypted
<1>10. \A i \in 1..Len(sizes) : maps[i] = IF info.present THEN MapsOf(traf)[i] ELSE Whole
  BY <1>1
<1> HIDE DEF out, traf2, data2, found
<1> QED BY <1>3, <1>6, <1>7, <1>8, <1>9, <1>10 DEF Rewrote, out, traf2, data2, found

(***************************************************************************)
(* Encrypted to encrypted: decrypted with the source's parameters, then    *)
(* encrypted with the maps of the source.                                  *)
(***************************************************************************)
LEMMA EncryptedToEncrypted ==
    ASSUME NEW segment, NEW info, NEW new, NEW params, Premises(segment, info, new, params),
           info.present, new.present, RewriteEncryptedToEncrypted(segment, params).ok
    PROVE  Rewrote(RewriteEncryptedToEncrypted(segment, params).boxes, info, new, segment, params)
<1> DEFINE moof == MoofOf(segment)
           mdat == MdatOf(segment)
           traf == moof.trafs[1]
           sizes == traf.sizes
           senc == traf.senc
           data == DecryptSamples(mdat.data, sizes, senc, params)
           maps == [i \in 1..Len(senc.entries) |-> senc.entries[i].subsamples]
           new2 == BuildSenc(NewEntries(maps, params), senc.subsampled)
           out == << RebuildMoof(moof, new2), Mdat(EncryptSamples(data, sizes, maps, params)) >>
<1>1. FragmentWellFormed(info, moof, mdat)
  BY DEF Premises
<1>2. /\ moof = Moof(<<traf>>) /\ IsTraf(traf) /\ Covered(mdat.data, sizes)
      /\ TrunOf(moof) = traf /\ SencOf(moof) = senc /\ SencWellFormed(senc, Len(sizes), info)
  BY <1>1, FragmentParts
<1>3. RewriteEncryptedToEncrypted(segment, params).boxes = out
  <2>1. RewriteEncryptedToEncrypted(segment, params) \in {OkSegment(out), ErrSegment}
    BY <1>2 DEF RewriteEncryptedToEncrypted
  <2>2. RewriteEncryptedToEncrypted(segment, params) = OkSegment(out)
    BY <2>1 DEF ErrSegment
  <2> HIDE DEF out
  <2> QED BY <2>2 DEF OkSegment
<1> HIDE DEF traf, moof, mdat
<1>4. senc.present
  BY <1>2 DEF SencWellFormed
<1>5. /\ senc.subsampled \in BOOLEAN /\ Len(senc.entries) = Len(sizes) /\ Len(sizes) \in Nat
      /\ \A i \in 1..Len(sizes) : senc.entries[i].subsamples =
            IF senc.subsampled THEN SubsampleMap(senc.entries[i].subsamples.pairs) ELSE Whole
  BY <1>2 DEF SencWellFormed, Covered, AreSizes, IsList
<1>6. maps = [i \in 1..Len(sizes) |-> IF info.present THEN MapsOf(traf)[i] ELSE Whole]
  BY <1>5 DEF MapsOf
<1>7. MapsFit(maps, senc.subsampled)
  BY <1>5 DEF MapsFit
<1> HIDE DEF maps
<1>8. /\ Covered(data, sizes) /\ AllBare(data, sizes)
      /\ Raw(data, sizes) = ReadFragment(info, moof, mdat)
  BY DecryptedData DEF traf, moof, mdat
<1>9. Bared(data, maps, senc.subsampled, segment, info)
  BY <1>6, <1>7, <1>8 DEF Bared, traf, moof, mdat
<1>10. IsEncrypted(params.targetScheme)
  BY DEF Premises, TargetParams
<1>11. RebuildMoof(moof, new2) = Moof(<<OneTraf(traf, new2, FALSE)>>)
  <2> HIDE DEF new2
  <2> QED BY <1>2, <1>4, MoofsRebuilt
<1> HIDE DEF data
<1>12. Rewrote(<< Moof(<<OneTraf(traf, new2, FALSE)>>), Mdat(EncryptSamples(data, sizes, maps, params)) >>,
               info, new, segment, params)
  BY <1>5, <1>9, <1>10, EncryptingRewrote DEF traf, moof
<1> QED BY <1>3, <1>11, <1>12

(***************************************************************************)
(* Clear to encrypted: every sample whole, and a senc injected.            *)
(***************************************************************************)
LEMMA ClearToEncrypted ==
    ASSUME NEW segment, NEW info, NEW new, NEW params, Premises(segment, info, new, params),
           ~info.present, new.present, RewriteClearToEncrypted(segment, params).ok
    PROVE  Rewrote(RewriteClearToEncrypted(segment, params).boxes, info, new, segment, params)
<1> DEFINE moof == MoofOf(segment)
           mdat == MdatOf(segment)
           traf == moof.trafs[1]
           sizes == traf.sizes
           data == mdat.data
           maps == [i \in 1..Len(sizes) |-> Whole]
           new2 == BuildSenc(NewEntries(maps, params), FALSE)
           out == << RebuildMoofInjectSenc(moof, new2), Mdat(EncryptSamples(data, sizes, maps, params)) >>
<1>1. FragmentWellFormed(info, moof, mdat)
  BY DEF Premises
<1>2. moof = Moof(<<traf>>) /\ IsTraf(traf) /\ Covered(data, sizes) /\ TrunOf(moof) = traf
  BY <1>1, FragmentParts
<1>3. RewriteClearToEncrypted(segment, params).boxes = out
  <2>1. RewriteClearToEncrypted(segment, params) \in {OkSegment(out), ErrSegment}
    BY <1>2 DEF RewriteClearToEncrypted
  <2>2. RewriteClearToEncrypted(segment, params) = OkSegment(out)
    BY <2>1 DEF ErrSegment
  <2> HIDE DEF out
  <2> QED BY <2>2 DEF OkSegment
<1> HIDE DEF traf, moof, mdat
<1>4. Len(sizes) \in Nat
  BY <1>2 DEF Covered, AreSizes, IsList
<1>5. maps = [i \in 1..Len(sizes) |-> IF info.present THEN MapsOf(traf)[i] ELSE Whole]
  OBVIOUS
<1>6. MapsFit(maps, FALSE)
  BY <1>4 DEF MapsFit
<1> HIDE DEF maps
<1>7. /\ Covered(data, sizes) /\ AllBare(data, sizes)
      /\ Raw(data, sizes) = ReadFragment(info, moof, mdat)
  BY ClearData DEF traf, moof, mdat
<1>8. Bared(data, maps, FALSE, segment, info)
  BY <1>5, <1>6, <1>7 DEF Bared, traf, moof, mdat
<1>9. IsEncrypted(params.targetScheme)
  BY DEF Premises, TargetParams
<1>10. RebuildMoofInjectSenc(moof, new2) = Moof(<<OneTraf(traf, new2, traf.aux)>>)
  <2> HIDE DEF new2
  <2> QED BY <1>2, MoofsRebuilt
<1>11. Rewrote(<< Moof(<<OneTraf(traf, new2, traf.aux)>>), Mdat(EncryptSamples(data, sizes, maps, params)) >>,
               info, new, segment, params)
  BY <1>8, <1>9, EncryptingRewrote DEF traf, moof
<1> QED BY <1>3, <1>10, <1>11

(***************************************************************************)
(* Encrypted to clear: decrypted, and the senc stripped.                   *)
(***************************************************************************)
LEMMA EncryptedToClear ==
    ASSUME NEW segment, NEW info, NEW new, NEW params, Premises(segment, info, new, params),
           info.present, ~new.present, RewriteEncryptedToClear(segment, params).ok
    PROVE  Rewrote(RewriteEncryptedToClear(segment, params).boxes, info, new, segment, params)
<1> DEFINE moof == MoofOf(segment)
           mdat == MdatOf(segment)
           traf == moof.trafs[1]
           sizes == traf.sizes
           senc == traf.senc
           data == DecryptSamples(mdat.data, sizes, senc, params)
           out == << RebuildMoofStripSenc(moof), Mdat(data) >>
           traf2 == OneTraf(traf, NoSenc, FALSE)
<1>1. FragmentWellFormed(info, moof, mdat)
  BY DEF Premises
<1>2. /\ moof = Moof(<<traf>>) /\ IsTraf(traf) /\ Covered(mdat.data, sizes)
      /\ TrunOf(moof) = traf /\ SencOf(moof) = senc /\ SencWellFormed(senc, Len(sizes), info)
  BY <1>1, FragmentParts
<1>3. RewriteEncryptedToClear(segment, params).boxes = out
  <2>1. RewriteEncryptedToClear(segment, params) \in {OkSegment(out), ErrSegment}
    BY <1>2 DEF RewriteEncryptedToClear
  <2>2. RewriteEncryptedToClear(segment, params) = OkSegment(out)
    BY <2>1 DEF ErrSegment
  <2> HIDE DEF out
  <2> QED BY <2>2 DEF OkSegment
<1>4. /\ Covered(data, sizes) /\ AllBare(data, sizes)
      /\ Raw(data, sizes) = ReadFragment(info, moof, mdat)
  BY DecryptedData
<1> HIDE DEF traf, moof, mdat, data
<1>5. RebuildMoofStripSenc(moof) = Moof(<<traf2>>)
  BY <1>2, MoofsRebuilt
<1>6. IsTraf(traf2) /\ traf2.senc = NoSenc /\ traf2.sizes = sizes /\ traf2.track = traf.track
  <2>1. \A y : LET x == OneTraf(traf, NoSenc, y)
              IN  IsTraf(x) /\ x.senc = NoSenc /\ x.sizes = sizes /\ x.track = traf.track
    BY OneTrafIs
  <2> QED BY <2>1, Zenon
<1> HIDE DEF traf2
<1>7. Result(new, Moof(<<traf2>>), Mdat(data), Raw(data, traf2.sizes))
  BY <1>4, <1>6, ClearGives
<1>8. /\ out = <<out[1], out[2]>> /\ out[1] = Moof(<<traf2>>) /\ out[2] = Mdat(data)
      /\ out[1].trafs[1] = traf2 /\ out[1].type = "moof" /\ out[2].type = "mdat"
  BY <1>5 DEF Moof, Mdat
<1> HIDE DEF out
<1>9. Rewrote(out, info, new, segment, params)
  BY <1>4, <1>6, <1>7, <1>8 DEF Rewrote, moof, mdat, traf
<1> QED BY <1>3, <1>9

(***************************************************************************)
(* rewrite_segment, for every pair of schemes of which one encrypts: the   *)
(* last fragment of a segment that is as its init segment says comes out   *)
(* as one from whose mdat payload, cut by the trun from its start on, the  *)
(* new init segment and the new senc decrypt the same samples.  It says    *)
(* nothing of data_offset, which is copied while the moof changes size.    *)
(***************************************************************************)
THEOREM RewriteKeepsSamples ==
    ASSUME NEW segment, NEW info, NEW new, NEW params, Premises(segment, info, new, params),
           info.present \/ new.present, info.present \in BOOLEAN,
           RewriteSegment(segment, params).ok
    PROVE  Rewrote(RewriteSegment(segment, params).boxes, info, new, segment, params)
<1>1. IsEncrypted(params.sourceScheme) <=> info.present
  BY DEF Premises, SourceParams, IsEncrypted
<1>2. IsEncrypted(params.targetScheme) <=> new.present
  BY DEF Premises, TargetParams
<1>3. CASE info.present /\ new.present
  <2>1. RewriteSegment(segment, params) = RewriteEncryptedToEncrypted(segment, params)
    BY <1>1, <1>2, <1>3 DEF RewriteSegment
  <2> QED BY <1>3, <2>1, EncryptedToEncrypted
<1>4. CASE ~info.present /\ new.present
  <2>1. RewriteSegment(segment, params) = RewriteClearToEncrypted(segment, params)
    BY <1>1, <1>2, <1>4 DEF RewriteSegment
  <2> QED BY <1>4, <2>1, ClearToEncrypted
<1>5. CASE info.present /\ ~new.present
  <2>1. RewriteSegment(segment, params) = RewriteEncryptedToClear(segment, params)
    BY <1>1, <1>2, <1>5 DEF RewriteSegment
  <2> QED BY <1>5, <2>1, EncryptedToClear
<1> QED BY <1>3, <1>4, <1>5

-----------------------------------------------------------------------------
(* What the outputs of a job are *)

\* The key of the first key id is there.
KeysFound == NeedsKeys => HasKey(keySet, PrimaryKid(Mapping))

\* An output is what the steps of the job make of its source, so far.
Processed(s) ==
    LET o == outputs[s]
    IN  /\ o.ts = (request.container = "ts") /\ o.init = NewInit(s) /\ o.drm = NewDrmInfo(s)
        /\ \A i \in 1 .. next : /\ source.ts => CanDemux(source.segments[i])
                                /\ Rewritten(s, i).ok /\ o.segments[i] = Rewritten(s, i).boxes

Underway == Readable /\ ValidRequest(Targets, SourceTracks) /\ KeysFound

ProcessedInv ==
    /\ phase = "keyed" => KeysFound
    /\ DOMAIN outputs # {} => Underway
    /\ \A s \in DOMAIN outputs : Processed(s)

\* With the same source, request and keys a job makes the same of them.
LEMMA SameResults ==
    ASSUME source' = source, request' = request, keySet' = keySet
    PROVE  /\ KeysFound' <=> KeysFound
           /\ Underway' <=> Underway
           /\ \A s : NewInit(s)' = NewInit(s) /\ NewDrmInfo(s)' = NewDrmInfo(s)
           /\ \A s, i : Rewritten(s, i)' = Rewritten(s, i)
<1>1. /\ Readable' <=> Readable
      /\ ValidRequest(Targets, SourceTracks)' <=> ValidRequest(Targets, SourceTracks)
      /\ Targets' = Targets /\ Mapping' = Mapping /\ \A i : SegmentData(i)' = SegmentData(i)
    BY SameJob
<1>2. SourceInit' = SourceInit
    BY DEF SourceInit, InitOfSource
<1>3. SourceInfo' = SourceInfo
    BY <1>2 DEF SourceInfo
<1>4. FromScheme' = FromScheme
    BY <1>3 DEF FromScheme
<1>5. NeedsKeys' = NeedsKeys
    BY <1>1, <1>4 DEF NeedsKeys
<1>6. KeysFound' <=> KeysFound
    BY <1>1, <1>5 DEF KeysFound
<1>7. \A s : NewInit(s)' = NewInit(s)
    BY <1>1, <1>2, <1>4, Zenon DEF NewInit
<1>8. \A s : NewDrmInfo(s)' = NewDrmInfo(s)
    BY <1>1, Zenon DEF NewDrmInfo
<1>9. \A s, i : Params(s, i)' = Params(s, i)
    BY <1>1, <1>3, <1>4, <1>5, Zenon DEF Params
<1>10. \A s, i : TsOutput(s, i)' = TsOutput(s, i)
    BY <1>1, <1>2, <1>9, Zenon DEF TsOutput
<1>11. \A s, i : Rewritten(s, i)' = Rewritten(s, i)
    BY <1>1, <1>9, <1>10, Zenon DEF Rewritten
<1>12. Underway' <=> Underway
    BY <1>1, <1>6 DEF Underway
<1> QED BY <1>6, <1>7, <1>8, <1>11, <1>12

\* Once the keys are there, they stay for the job.
LEMMA KeysHeld ==
    ASSUME JobInv, [Next]_vars, phase = "keyed" \/ DOMAIN outputs # {}, phase' # "idle"
    PROVE  source' = source /\ request' = request /\ keySet' = keySet
<1>1. phase # "validated"
    BY DEF JobInv, OutputsInv
<1>2. ~GetKeys
    BY <1>1 DEF GetKeys
<1>3. ~(NewJob \/ Republish)
    BY StepKinds DEF StartJob
<1>4. JobSteps
    BY <1>3, StepKinds
<1>5. keySet' = keySet
    BY <1>2, <1>4 DEF JobSteps, FetchSource, Validate, BuildOutputs, ProcessSegment, SegmentLost,
           Finish, ExpireKeys, vars
<1> QED BY <1>4, <1>5, StepKinds

\* GetKeys finds the key it asks for, or the job ends there.
LEMMA KeysAreFound ==
    ASSUME JobInv, [Next]_vars, phase' = "keyed", phase # "keyed"
    PROVE  KeysFound'
<1>1. ~(NewJob \/ Republish)
    BY StepKinds DEF StartJob
<1>2. JobSteps
    BY <1>1, StepKinds
<1>3. GetKeys
    BY <1>2 DEF JobSteps, FetchSource, Validate, BuildOutputs, ProcessSegment, SegmentLost,
           Finish, ExpireKeys, vars, Fail
<1>4. source' = source /\ request' = request
    BY <1>3, GetKeysGets
<1>5. Mapping' = Mapping /\ NeedsKeys' = NeedsKeys
  <2>1. Targets' = Targets /\ Mapping' = Mapping
      BY <1>4, SameJob
  <2>2. SourceInit' = SourceInit
      BY <1>4 DEF SourceInit, InitOfSource
  <2>3. FromScheme' = FromScheme
      BY <2>2 DEF FromScheme, SourceInfo
  <2> QED BY <2>1, <2>3 DEF NeedsKeys
<1>6. \A keys : UseKeys(keys) => keySet' = keys /\ HasKey(keys, PrimaryKid(Mapping))
    BY DEF UseKeys
<1>7. \A why : ~Fail(why)
    BY DEF Fail
<1>8. ASSUME NeedsKeys PROVE HasKey(keySet', PrimaryKid(Mapping))
  <2>1. \/ UseKeys(RawKeySet(request.raw)) \/ UseKeys(keyCache.set)
        \/ \E document \in Answers(KidList(Mapping)) : UseKeys(ParseCpixResponse(document))
      BY <1>3, <1>7, <1>8, Zenon DEF GetKeys
  <2> QED BY <1>6, <2>1, Zenon
<1> QED BY <1>5, <1>8 DEF KeysFound

\* A segment that is processed could be demuxed.
LEMMA GrownDemuxes ==
    ASSUME JobInv, [Next]_vars, Grown
    PROVE  source.ts => CanDemux(source.segments[next + 1])
<1>1. next \in Nat /\ next' = next + 1 /\ phase = "processing" /\ phase' = "processing"
    BY DEF Grown, JobInv, TypeOK
<1>2. ~(NewJob \/ Republish)
    BY <1>1, StepKinds DEF StartJob
<1>3. JobSteps
    BY <1>2, StepKinds
<1>4. next' # next
    BY <1>1
<1>5. ProcessSegment
    BY <1>1, <1>3, <1>4 DEF JobSteps, FetchSource, Validate, GetKeys, BuildOutputs, SegmentLost,
           Finish, ExpireKeys, vars
<1>6. ~Fail("segment")
    BY <1>1 DEF Fail
<1> QED BY <1>5, <1>6, Zenon DEF ProcessSegment

\* Every step keeps the outputs what the job makes of its source.
LEMMA ProcessedStep == JobInv /\ ProcessedInv /\ [Next]_vars => ProcessedInv'
<1> SUFFICES ASSUME JobInv, ProcessedInv, [Next]_vars PROVE ProcessedInv'
    OBVIOUS
<1>1. (phase = "keyed" => KeysFound)'
  <2>1. CASE phase' = "keyed" /\ phase # "keyed"
      BY <2>1, KeysAreFound
  <2>2. CASE phase' = "keyed" /\ phase = "keyed"
      BY <2>2, KeysHeld, SameResults DEF ProcessedInv
  <2> QED BY <2>1, <2>2
<1>2. ASSUME phase' # "idle", phase = "keyed" \/ DOMAIN outputs # {}
      PROVE  /\ source' = source /\ request' = request /\ keySet' = keySet
             /\ Underway' <=> Underway
             /\ \A s : NewInit(s)' = NewInit(s) /\ NewDrmInfo(s)' = NewDrmInfo(s)
             /\ \A s, i : Rewritten(s, i)' = Rewritten(s, i)
    BY <1>2, KeysHeld, SameResults
<1>3. CASE Untouched
  <2>1. ASSUME DOMAIN outputs # {}, phase' # "idle"
        PROVE  Underway' /\ \A s \in DOMAIN outputs : Processed(s)'
    <3>1. Underway /\ \A s \in DOMAIN outputs : Processed(s)
        BY <2>1 DEF ProcessedInv
    <3> QED BY <1>2, <1>3, <2>1, <3>1 DEF Untouched, Processed
  <2>2. DOMAIN outputs # {} => phase' # "idle"
      BY <1>3 DEF Untouched, JobInv, OutputsInv
  <2>3. outputs' = outputs
      BY <1>3 DEF Untouched
  <2> QED BY <1>1, <2>1, <2>2, <2>3 DEF ProcessedInv
<1>4. CASE Created
  <2>1. phase = "keyed" /\ phase' = "processing" /\ next' = 0
        /\ DOMAIN outputs' = Targets /\ \A s \in Targets : outputs'[s] = NewOutput(s)
      BY <1>4 DEF Created
  <2>2. Underway
      BY <2>1 DEF ProcessedInv, Underway, JobInv, GateInv
  <2>3. ASSUME NEW s \in Targets PROVE Processed(s)'
    <3> DEFINE o == NewOutput(s)
    <3>1. o.ts = (request.container = "ts") /\ o.init = NewInit(s) /\ o.drm = NewDrmInfo(s)
        BY DEF NewOutput
    <3> HIDE DEF o
    <3>2. o = outputs'[s] /\ request' = request
          /\ NewInit(s)' = NewInit(s) /\ NewDrmInfo(s)' = NewDrmInfo(s)
        BY <1>2, <2>1 DEF o
    <3> QED BY <2>1, <3>1, <3>2 DEF Processed
  <2> QED BY <1>1, <1>2, <2>1, <2>2, <2>3 DEF ProcessedInv
<1>5. CASE Grown
  <2>1. /\ phase = "processing" /\ phase' = "processing" /\ next' = next + 1
        /\ DOMAIN outputs = Targets /\ DOMAIN outputs' = Targets
        /\ \A s \in Targets : Rewritten(s, next + 1).ok
      BY <1>5 DEF Grown, JobInv, OutputsInv
  <2>2. source.ts => CanDemux(source.segments[next + 1])
      BY <1>5, GrownDemuxes
  <2>3. ASSUME NEW s \in Targets PROVE Underway' /\ Processed(s)'
    <3> DEFINE o == outputs[s]
               new == outputs'[s]
               i == next + 1
    <3>1. Grows(s)
        BY <1>5, GrownGrows
    <3>2. /\ next \in Nat /\ IsOutput(o) /\ Len(o.segments) = next
          /\ new.ts = o.ts /\ new.init = o.init /\ new.drm = o.drm
          /\ new.segments = Append(o.segments, Rewritten(s, i).boxes)
        BY <3>1 DEF Grows, Extends, OutputFits
    <3>3. IsList(o.segments)
        BY <3>2 DEF IsOutput
    <3>4. Underway /\ Processed(s)
        BY <2>1 DEF ProcessedInv
    <3>5. /\ source' = source /\ request' = request
          /\ Underway' <=> Underway
          /\ NewInit(s)' = NewInit(s) /\ NewDrmInfo(s)' = NewDrmInfo(s)
          /\ \A j : Rewritten(s, j)' = Rewritten(s, j)
        BY <1>2, <2>1
    <3> HIDE DEF new
    <3>6. ASSUME NEW j \in 1 .. next + 1
          PROVE  /\ source.ts => CanDemux(source.segments[j])
                 /\ Rewritten(s, j).ok /\ new.segments[j] = Rewritten(s, j).boxes
      <4>1. CASE j \in 1 .. next
        <5>1. new.segments[j] = o.segments[j]
            BY <3>2, <3>3, <4>1, AppendIsList
        <5> QED BY <3>4, <4>1, <5>1 DEF Processed
      <4>2. CASE j = next + 1
        <5>1. new.segments[j] = Rewritten(s, i).boxes
            BY <3>2, <3>3, <4>2, AppendIsList
        <5> QED BY <2>1, <2>2, <4>2, <5>1
      <4> QED BY <3>2, <4>1, <4>2
    <3>7. new.ts = (request.container = "ts") /\ new.init = NewInit(s) /\ new.drm = NewDrmInfo(s)
        BY <3>2, <3>4 DEF Processed
    <3> QED BY <2>1, <3>4, <3>5, <3>6, <3>7 DEF Processed, new
  <2> QED BY <1>1, <2>1, <2>3 DEF ProcessedInv
<1>6. CASE Dropped
    BY <1>1, <1>6 DEF Dropped, ProcessedInv
<1> QED BY <1>3, <1>4, <1>5, <1>6, OutputsChange

-----------------------------------------------------------------------------
(* The boxes of a segment *)

\* The boxes of one type of two lists of boxes in a row.
LEMMA BoxesOfJoined ==
    ASSUME NEW x, IsList(x), NEW y, IsList(y), NEW type
    PROVE  BoxesOf(Joined(x, y), type) = Joined(BoxesOf(x, type), BoxesOf(y, type))
<1> DEFINE S == Range(x) \union Range(y)
           z == x \o y
           I == {b \in 1 .. Len(z) : z[b].type = type}
           J == {b \in 1 .. Len(x) : x[b].type = type}
           K == {b \in 1 .. Len(y) : y[b].type = type}
           L == {k \in 1 .. Len(y) : Len(x) + k \in I}
<1>1. x \in Seq(S) /\ y \in Seq(S)
  <2>1. x \in Seq(Range(x)) /\ y \in Seq(Range(y))
      BY DEF IsList
  <2>2. \A A, B : A \subseteq B => Seq(A) \subseteq Seq(B)
      OBVIOUS
  <2> HIDE DEF S
  <2>3. Range(x) \subseteq S /\ Range(y) \subseteq S
      BY DEF S
  <2> QED BY <2>1, <2>2, <2>3
<1>2. IsJoin(z, x, y)
    BY JoinedIsList DEF Joined
<1>3. ChosenOfBoth(x, y, I)
  <2> HIDE DEF S, I
  <2> QED BY <1>1, ChosenOfConcat
<1> HIDE DEF S
<1>4. Chosen(x, I) = Chosen(x, J)
  <2>1. \A i \in 1 .. Len(x) : i \in I <=> i \in J
    <3> HIDE DEF z
    <3> QED BY <1>2 DEF IsJoin
  <2> HIDE DEF I, J
  <2> QED BY <1>1, <2>1, ChosenAgree
<1>5. Chosen(y, L) = Chosen(y, K)
  <2>1. \A i \in 1 .. Len(y) : i \in L <=> i \in K
    <3> HIDE DEF z
    <3> QED BY <1>2 DEF IsJoin
  <2> HIDE DEF L, K
  <2> QED BY <1>1, <2>1, ChosenAgree
<1> HIDE DEF I, J, K
<1>6. Chosen(z, I) = Joined(Chosen(x, J), Chosen(y, K))
    BY <1>3, <1>4, <1>5, Zenon DEF ChosenOfBoth, Joined
<1> QED BY <1>6, Zenon DEF BoxesOf, Joined, I, J, K

\* A list is told by its length and its items.
LEMMA ListOfTwo ==
    ASSUME NEW z, IsList(z)
    PROVE  /\ Len(z) = 1 => z = <<z[1]>>
           /\ Len(z) = 2 => z = <<z[1], z[2]>>
<1>1. z \in Seq(Range(z))
    BY DEF IsList
<1> DEFINE S == Range(z)
<1> HIDE DEF S
<1>2. z \in Seq(S)
    BY <1>1 DEF S
<1> QED BY <1>2

\* The first item of a list, and the second.
LEMMA AppendToNone == ASSUME NEW e PROVE Append(<<>>, e) = <<e>>
<1> DEFINE z == Append(<<>>, e)
<1>1. /\ IsList(z) /\ Len(z) = Len(<<>>) + 1 /\ z[Len(<<>>) + 1] = e
    BY EmptyIsList, AppendIsList
<1>2. Len(<<>>) + 1 = 1
    OBVIOUS
<1> HIDE DEF z
<1>3. IsList(z) /\ Len(z) = 1 /\ z[1] = e
    BY <1>1, <1>2
<1> QED BY <1>3, ListOfTwo DEF z

\* Of one item and another, a list of two: the code behaviour is two calls of push.
LEMMA AppendToOne == ASSUME NEW a, NEW b PROVE Append(<<a>>, b) = <<a, b>>
<1> DEFINE one == <<a>>
           z == Append(one, b)
<1>1. IsList(one) /\ Len(one) = 1 /\ one[1] = a
    BY DEF IsList, Range
<1> HIDE DEF one
<1>2. /\ IsList(z) /\ Len(z) = Len(one) + 1 /\ z[Len(one) + 1] = b
      /\ \A i \in 1 .. Len(one) : z[i] = one[i]
    BY <1>1, AppendIsList
<1> HIDE DEF z
<1>3. IsList(z) /\ Len(z) = 2 /\ z[1] = a /\ z[2] = b
    BY <1>1, <1>2
<1> QED BY <1>3, ListOfTwo DEF z, one

\* What is chosen of a list of two.
LEMMA ChosenOfTwo ==
    ASSUME NEW a, NEW b, NEW I
    PROVE  /\ 1 \in I /\ 2 \notin I => Chosen(<<a, b>>, I) = <<a>>
           /\ 1 \notin I /\ 2 \in I => Chosen(<<a, b>>, I) = <<b>>
<1> DEFINE S == {a, b}
           none == <<>>
           one == <<a>>
           other == <<b>>
           both == <<a, b>>
<1>1. a \in S /\ b \in S
    OBVIOUS
<1>2. \A x \in S : none \in Seq(S) /\ <<x>> \in Seq(S)
  <2> HIDE DEF S
  <2> QED OBVIOUS
<1>3. Append(none, a) = one /\ Append(none, b) = other /\ Append(one, b) = both
    BY AppendToNone, AppendToOne
<1>4. Len(none) + 1 = 1 /\ Len(one) + 1 = 2
    OBVIOUS
<1>5. Chosen(none, I) = none
    BY ChosenOfEmpty
<1> HIDE DEF S, none
<1>6. none \in Seq(S) /\ one \in Seq(S)
    BY <1>1, <1>2
<1> HIDE DEF one, other, both
<1>7. Chosen(one, I) = IF 1 \in I THEN one ELSE none
  <2>1. Chosen(Append(none, a), I) = IF Len(none) + 1 \in I THEN Append(Chosen(none, I), a)
                                     ELSE Chosen(none, I)
      BY <1>1, <1>6, ChosenOfAppend
  <2> QED BY <1>3, <1>4, <1>5, <2>1
<1>8. Chosen(both, I) = IF 2 \in I THEN Append(Chosen(one, I), b) ELSE Chosen(one, I)
  <2>1. Chosen(Append(one, b), I) = IF Len(one) + 1 \in I THEN Append(Chosen(one, I), b)
                                    ELSE Chosen(one, I)
      BY <1>1, <1>6, ChosenOfAppend
  <2> QED BY <1>3, <1>4, <2>1
<1> QED BY <1>3, <1>7, <1>8 DEF one, other, both

\* Of a moof and its mdat each is the one of its type.
LEMMA BoxesOfPair ==
    ASSUME NEW a, NEW b, a.type = "moof", b.type = "mdat"
    PROVE  BoxesOf(<<a, b>>, "moof") = <<a>> /\ BoxesOf(<<a, b>>, "mdat") = <<b>>
<1> DEFINE I(type) == {i \in 1 .. Len(<<a, b>>) : <<a, b>>[i].type = type}
<1>1. 1 \in I("moof") /\ 2 \notin I("moof") /\ 1 \notin I("mdat") /\ 2 \in I("mdat")
    OBVIOUS
<1> HIDE DEF I
<1>2. Chosen(<<a, b>>, I("moof")) = <<a>> /\ Chosen(<<a, b>>, I("mdat")) = <<b>>
    BY <1>1, ChosenOfTwo
<1> QED BY <1>2, Zenon DEF BoxesOf, I

\* One item more goes to the end of the first k.
LEMMA FirstItems ==
    ASSUME NEW x, NEW k \in Nat
    PROVE  Joined([i \in 1 .. k |-> x[i]], <<x[k + 1]>>) = [i \in 1 .. k + 1 |-> x[i]]
<1> DEFINE S == {x[i] : i \in 1 .. k + 1}
           first == [i \in 1 .. k |-> x[i]]
           one == <<x[k + 1]>>
           all == [i \in 1 .. k + 1 |-> x[i]]
           z == Joined(first, one)
<1>1. IsList(first) /\ Len(first) = k /\ IsList(one) /\ Len(one) = 1 /\ one[1] = x[k + 1]
  <2>1. IsList(first) /\ Len(first) = k
      BY FunctionIsList
  <2>2. IsList(one)
      BY DEF IsList, Range
  <2> QED BY <2>1, <2>2
<1>2. \A i \in 1 .. k : first[i] = x[i]
    OBVIOUS
<1> HIDE DEF first, one
<1>3. IsJoin(z, first, one)
    BY <1>1, JoinedIsList
<1> HIDE DEF z
<1>4. IsList(z) /\ Len(z) = k + 1
    BY <1>1, <1>3 DEF IsJoin
<1>5. \A i \in 1 .. k + 1 : z[i] = x[i]
  <2>1. \A i \in 1 .. k : z[i] = x[i]
      BY <1>1, <1>2, <1>3 DEF IsJoin
  <2>2. z[k + 1] = x[k + 1]
    <3>1. z[Len(first) + 1] = one[1]
        BY <1>1, <1>3 DEF IsJoin
    <3> QED BY <1>1, <3>1
  <2> QED BY <2>1, <2>2
<1>6. z = [i \in 1 .. k + 1 |-> z[i]]
    BY <1>4 DEF IsList
<1>7. z = all
    BY <1>5, <1>6
<1> QED BY <1>7 DEF z, first, one

\* A moof of each of the fragments, and an mdat.
LEMMA BoxesOfPairs ==
    ASSUME NEW n \in Nat, NEW a, NEW b, IsList(a), IsList(b), Len(a) = n, Len(b) = n,
           \A s \in 1 .. n : a[s].type = "moof" /\ b[s].type = "mdat"
    PROVE  LET segment == FlattenSeq([s \in 1 .. n |-> <<a[s], b[s]>>])
           IN  BoxesOf(segment, "moof") = a /\ BoxesOf(segment, "mdat") = b
<1> DEFINE S == Range(a) \union Range(b)
           pairs == [s \in 1 .. n |-> <<a[s], b[s]>>]
<1>1. \A s \in 1 .. n : a[s] \in S /\ b[s] \in S
  <2>1. DOMAIN a = 1 .. n /\ DOMAIN b = 1 .. n
      BY DEF IsList
  <2> QED BY <2>1 DEF Range
<1> HIDE DEF S
<1>2. pairs \in Seq(Seq(S)) /\ Len(pairs) = n
    BY <1>1
<1>3. \A s \in 1 .. n : pairs[s] = <<a[s], b[s]>>
    OBVIOUS
<1> HIDE DEF pairs
<1>4. PICK f : IsFlat(f, pairs, S)
    BY <1>2, FlatExists
<1>5. FlattenSeq(pairs) = f[n]
    BY <1>2, <1>4, FlattenIsFlat
<1> DEFINE first(x, k) == [i \in 1 .. k |-> x[i]]
           T == {k \in 0 .. n : /\ BoxesOf(f[k], "moof") = first(a, k)
                                /\ BoxesOf(f[k], "mdat") = first(b, k)}
<1>6. 0 \in T
  <2>1. f[0] = <<>>
      BY <1>4 DEF IsFlat
  <2>2. \A type : BoxesOf(<<>>, type) = <<>>
      BY ChosenOfEmpty DEF BoxesOf
  <2>3. first(a, 0) = <<>> /\ first(b, 0) = <<>>
      OBVIOUS
  <2> QED BY <2>1, <2>2, <2>3
<1>7. ASSUME NEW k \in 0 .. n, k < n, k \in T PROVE k + 1 \in T
  <2>1. k + 1 \in 1 .. n /\ k + 1 \in 0 .. n /\ (k + 1) - 1 = k /\ k \in Nat
      BY <1>7
  <2>2. f[k + 1] = Joined(f[k], <<a[k + 1], b[k + 1]>>)
      BY <1>2, <1>3, <1>4, <2>1 DEF IsFlat
  <2>3. IsList(f[k])
    <3>1. f[k] \in Seq(S)
        BY <1>2, <1>4 DEF IsFlat
    <3> QED BY <3>1, SeqIsList, Zenon
  <2>4. IsList(<<a[k + 1], b[k + 1]>>)
      BY DEF IsList, Range
  <2>5. \A type : BoxesOf(f[k + 1], type)
                      = Joined(BoxesOf(f[k], type), BoxesOf(<<a[k + 1], b[k + 1]>>, type))
      BY <2>2, <2>3, <2>4, BoxesOfJoined
  <2>6. /\ BoxesOf(<<a[k + 1], b[k + 1]>>, "moof") = <<a[k + 1]>>
        /\ BoxesOf(<<a[k + 1], b[k + 1]>>, "mdat") = <<b[k + 1]>>
      BY <2>1, BoxesOfPair
  <2>7. \A x : Joined(first(x, k), <<x[k + 1]>>) = first(x, k + 1)
      BY <2>1, FirstItems
  <2>8. BoxesOf(f[k], "moof") = first(a, k) /\ BoxesOf(f[k], "mdat") = first(b, k)
      BY <1>7
  <2> HIDE DEF first
  <2> QED BY <2>1, <2>5, <2>6, <2>7, <2>8
<1>8. n \in T
  <2> HIDE DEF T
  <2>1. \A k \in 0 .. n : k < n /\ k \in T => k + 1 \in T
      BY <1>7
  <2>2. \A k \in 0 .. n : k \in T
      BY <1>6, <2>1, CountUp, Zenon
  <2> QED BY <2>2
<1>9. first(a, n) = a /\ first(b, n) = b
    BY DEF IsList
<1> HIDE DEF first
<1> QED BY <1>5, <1>8, <1>9 DEF pairs

-----------------------------------------------------------------------------
(* What the source of a job holds *)

\* A fragment made of samples gives those samples: the traf of transmux_to_cmaf
\* has their sizes and no senc.
LEMMA FragmentGives ==
    ASSUME NEW track, NEW samples, IsList(samples), \A i \in 1 .. Len(samples) : IsBare(samples[i]),
           NEW first, NEW info, ~info.present
    PROVE  Result(info, Moof(<<ClearTraf(track, samples, first)>>), Mdat(FlattenSeq(samples)), samples)
<1> DEFINE sizes == [i \in 1 .. Len(samples) |-> Len(samples[i])]
           traf == ClearTraf(track, samples, first)
           data == FlattenSeq(samples)
<1>1. IsTraf(traf) /\ traf.sizes = sizes /\ traf.senc = NoSenc
    BY DEF ClearTraf, IsTraf
<1> HIDE DEF traf
<1>2. Len(samples) \in Nat /\ \A i \in 1 .. Len(samples) : IsList(samples[i]) /\ Len(samples[i]) \in Nat
    BY DEF IsBare, IsList
<1>3. IsList(sizes) /\ Len(sizes) = Len(samples)
    BY <1>2, FunctionIsList
<1>4. AreSizes(sizes) /\ AreSamples(samples, sizes)
    BY <1>2, <1>3 DEF AreSizes, AreSamples
<1>5. SamplesAre(data, sizes, samples)
  <2> HIDE DEF sizes
  <2> QED BY <1>4, SamplesOfFlat
<1> HIDE DEF data, sizes
<1>6. Covered(data, sizes) /\ \A i \in 1 .. Len(sizes) : Sample(data, sizes, i) = samples[i]
    BY <1>4, <1>5 DEF Covered, SamplesAre
<1>7. AllBare(data, sizes)
    BY <1>3, <1>6 DEF AllBare
<1>8. Raw(data, sizes) = samples
  <2>1. samples = [i \in 1 .. Len(samples) |-> samples[i]]
      BY DEF IsList
  <2> QED BY <1>3, <1>6, <2>1 DEF Raw
<1>9. Result(info, Moof(<<traf>>), Mdat(data), Raw(data, traf.sizes))
    BY <1>1, <1>6, <1>7, ClearGives
<1> QED BY <1>1, <1>8, <1>9 DEF traf, data

\* The fragments of a transport stream that becomes CMAF: one for each stream,
\* of its track, that gives its samples.
LEMMA TransmuxHolds ==
    ASSUME NEW segment, TsWellFormed(segment), NEW clear, TsHolds(segment, clear),
           NEW info, ~info.present
    PROVE  LET streams == segment[1].streams
               moofs == BoxesOf(TransmuxToCmaf(segment), "moof")
           IN  /\ SegmentHolds(info, TransmuxToCmaf(segment), clear)
               /\ Len(moofs) = Len(streams)
               /\ \A f \in 1 .. Len(streams) : moofs[f].trafs[1].track = streams[f].track
<1> DEFINE streams == segment[1].streams
           n == Len(streams)
           a == [s \in 1 .. n |-> Moof(<<ClearTraf(streams[s].track, streams[s].samples, "absent")>>)]
           b == [s \in 1 .. n |-> Mdat(FlattenSeq(streams[s].samples))]
           out == TransmuxToCmaf(segment)
<1>1. n \in Nat
    BY DEF TsWellFormed, IsList
<1>2. /\ clear = [s \in 1 .. n |-> streams[s].samples]
      /\ \A s \in 1 .. n : /\ IsList(streams[s].samples)
                           /\ \A i \in 1 .. Len(streams[s].samples) : IsBare(streams[s].samples[i])
    BY DEF TsHolds
<1>3. IsList(a) /\ IsList(b) /\ Len(a) = n /\ Len(b) = n
    BY <1>1, FunctionIsList
<1>4. \A s \in 1 .. n :
          /\ a[s] = Moof(<<ClearTraf(streams[s].track, streams[s].samples, "absent")>>)
          /\ b[s] = Mdat(FlattenSeq(streams[s].samples))
    OBVIOUS
<1>5. out = FlattenSeq([s \in 1 .. n |-> <<a[s], b[s]>>])
  <2>1. [s \in 1 .. n |-> Fragment(streams[s].track, streams[s].samples, "absent")]
            = [s \in 1 .. n |-> <<a[s], b[s]>>]
      BY <1>4 DEF Fragment
  <2> HIDE DEF a, b
  <2> QED BY <2>1, Zenon DEF TransmuxToCmaf
<1> HIDE DEF a, b, out, streams
<1>6. \A s \in 1 .. n : a[s].type = "moof" /\ b[s].type = "mdat"
                        /\ a[s].trafs[1].track = streams[s].track
  <2>1. \A track, samples : ClearTraf(track, samples, "absent").track = track
      BY DEF ClearTraf
  <2>2. \A traf : Moof(<<traf>>).trafs[1] = traf /\ Moof(<<traf>>).type = "moof"
      BY DEF Moof
  <2>3. \A data : Mdat(data).type = "mdat"
      BY DEF Mdat
  <2>4. \A s \in 1 .. n : a[s].trafs[1] = ClearTraf(streams[s].track, streams[s].samples, "absent")
      BY <1>4, <2>2
  <2>5. \A s \in 1 .. n : a[s].trafs[1].track = streams[s].track
      BY <2>1, <2>4, Zenon
  <2>6. \A s \in 1 .. n : a[s].type = "moof" /\ b[s].type = "mdat"
    <3> TAKE s \in 1 .. n
    <3>1. a[s] = Moof(<<ClearTraf(streams[s].track, streams[s].samples, "absent")>>)
          /\ b[s] = Mdat(FlattenSeq(streams[s].samples))
        BY <1>4
    <3>2. \A x : Moof(x).type = "moof" /\ Mdat(x).type = "mdat"
        BY DEF Moof, Mdat
    <3>3. a[s].type = "moof"
        BY <3>1, <3>2, Zenon
    <3> QED BY <3>1, <3>2, <3>3, Zenon
  <2> QED BY <2>5, <2>6
<1>7. BoxesOf(out, "moof") = a /\ BoxesOf(out, "mdat") = b
    BY <1>1, <1>3, <1>5, <1>6, BoxesOfPairs
<1>8. \A s \in 1 .. n : Result(info, a[s], b[s], streams[s].samples)
    BY <1>2, <1>4, FragmentGives
<1>9. FragmentsWellFormed(info, out)
    BY <1>3, <1>7, <1>8 DEF FragmentsWellFormed, Result
<1>10. ReadSegment(info, out) = clear
  <2>1. ReadSegment(info, out) = [f \in 1 .. n |-> ReadFragment(info, a[f], b[f])]
      BY <1>3, <1>7 DEF ReadSegment
  <2>2. \A f \in 1 .. n : ReadFragment(info, a[f], b[f]) = streams[f].samples
      BY <1>8 DEF Result
  <2> QED BY <1>2, <2>1, <2>2
<1> QED BY <1>3, <1>6, <1>7, <1>9, <1>10 DEF SegmentHolds, out, streams

\* The init segment that the first TS segment makes protects nothing.
LEMMA SynthesizedIsClear ==
    ASSUME WellFormed(source), Readable, source.ts
    PROVE  SourceInfo = NoSinf
<1>1. InitWellFormed(SourceInit)
    BY SourceInitFits
<1>2. ASSUME NEW t \in 1 .. Len(SourceInit.tracks) PROVE ~Protected(SourceInit, t)
  <2> DEFINE streams == source.segments[1][1].streams
             tracks == [s \in 1 .. Len(streams) |->
                           [type |-> streams[s].track,
                            entries |-> << [format |-> TsFormat(streams[s].track), sinf |-> NoSinf] >>]]
  <2>1. SourceInit.tracks = tracks
      BY DEF SourceInit, InitOfSource, SynthesizeInit
  <2>2. Len(streams) \in Nat
    <3>1. TsWellFormed(source.segments[1])
      <4>1. 1 \in 1 .. Len(source.segments)
          BY DEF WellFormed, IsList
      <4> QED BY <4>1 DEF WellFormed
    <3> QED BY <3>1 DEF TsWellFormed, IsList
  <2> HIDE DEF streams
  <2>3. t \in 1 .. Len(streams)
      BY <2>1, <2>2
  <2>4. tracks[t].entries[1].sinf = NoSinf
      BY <2>3
  <2> QED BY <2>1, <2>4 DEF Protected, EntryOf, NoSinf
<1> QED BY <1>1, <1>2, InfoOfInit DEF SourceInfo

\* What the job reads of a segment has the samples of the segment.
LEMMA SegmentDataHolds ==
    ASSUME WellFormed(source), Holds(source), Readable, NEW i \in 1 .. Len(source.segments)
    PROVE  SegmentHolds(SourceInfo, SegmentData(i), source.clear[i])
<1>1. CASE source.ts
  <2>1. TsWellFormed(source.segments[i]) /\ TsHolds(source.segments[i], source.clear[i])
      BY <1>1 DEF WellFormed, Holds
  <2>2. ~SourceInfo.present
      BY <1>1, SynthesizedIsClear DEF NoSinf
  <2>3. SegmentData(i) = TransmuxToCmaf(source.segments[i])
      BY <1>1 DEF SegmentData, DataOfSource
  <2> QED BY <2>1, <2>2, <2>3, TransmuxHolds
<1>2. CASE ~source.ts
  <2>1. SourceInfo = ParseProtectionInfo(source.init) /\ SegmentData(i) = source.segments[i]
      BY <1>2 DEF SourceInfo, SourceInit, InitOfSource, SegmentData, DataOfSource
  <2> QED BY <1>2, <2>1 DEF Holds
<1> QED BY <1>1, <1>2

-----------------------------------------------------------------------------
(* The parameters of a rewrite *)

\* An init segment without protection says nothing, and otherwise its first
\* protected track speaks.
LEMMA FirstSpeaks ==
    ASSUME NEW init, InitWellFormed(init)
    PROVE  \/ /\ ParseProtectionInfo(init) = NoSinf
              /\ \A t \in 1 .. Len(init.tracks) : ~Protected(init, t)
           \/ \E m \in 1 .. Len(init.tracks) :
                 /\ Protected(init, m) /\ \A t \in 1 .. m - 1 : ~Protected(init, t)
                 /\ ParseProtectionInfo(init) = EntryOf(init, m).sinf
                 /\ ParseProtectionInfo(init).present
<1>1. CASE \A t \in 1 .. Len(init.tracks) : ~Protected(init, t)
    BY <1>1, InfoOfInit
<1>2. CASE \E t \in 1 .. Len(init.tracks) : Protected(init, t)
  <2> DEFINE S == {t \in 1 .. Len(init.tracks) : Protected(init, t)}
  <2>1. Len(init.tracks) \in Nat
      BY DEF InitWellFormed, IsList
  <2>2. S \subseteq Nat /\ S # {}
      BY <1>2, <2>1
  <2> HIDE DEF S
  <2>3. PICK m \in S : \A t \in S : m <= t
      BY <2>2, LeastNatural
  <2>4. m \in 1 .. Len(init.tracks) /\ Protected(init, m)
      BY <2>3 DEF S
  <2>5. \A t \in 1 .. m - 1 : ~Protected(init, t)
      BY <2>1, <2>3, <2>4 DEF S
  <2>6. ParseProtectionInfo(init) = EntryOf(init, m).sinf
      BY <2>4, <2>5, InfoOfInit
  <2> QED BY <2>4, <2>5, <2>6 DEF Protected
<1> QED BY <1>1, <1>2

\* The first key id of a job is that of its source, if the source has one.
LEMMA PrimaryIsSource ==
    ASSUME WellFormed(source), Readable, SourceInfo.present
    PROVE  PrimaryKid(Mapping) = SourceInfo.tenc.kid
<1>1. InitWellFormed(SourceInit) /\ SourceInfo = ParseProtectionInfo(SourceInit)
    BY SourceInitFits DEF SourceInfo
<1>2. SourceInfo # NoSinf
    BY DEF NoSinf
<1>3. PICK m \in 1 .. Len(SourceInit.tracks) :
          /\ Protected(SourceInit, m) /\ \A t \in 1 .. m - 1 : ~Protected(SourceInit, t)
          /\ SourceInfo = EntryOf(SourceInit, m).sinf
    BY <1>1, <1>2, FirstSpeaks
<1> QED BY <1>3, JobMapping

\* The key of the first key id, as find_key_for_kid finds it.
LEMMA KeyIsPrimary ==
    ASSUME JobInv, Underway, NeedsKeys
    PROVE  KeyOf(keySet, PrimaryKid(Mapping)) = PrimaryKid(Mapping)
<1> DEFINE keys == keySet.keys
           kid == PrimaryKid(Mapping)
           at == {i \in 1 .. Len(keys) : keys[i].kid = kid}
<1>1. IsList(keys) /\ SelfKeyed(keys)
    BY DEF JobInv, KeysInv, KeysTyped
<1>2. keys \in Seq(Range(keys))
    BY <1>1 DEF IsList
<1>3. HasKey(keySet, kid)
    BY DEF Underway, KeysFound
<1>4. PICK j \in 1 .. Len(keys) : keys[j].kid = kid
    BY <1>3 DEF HasKey
<1>5. KeyOf(keySet, kid) = Chosen(keys, at)[1].key
    BY Zenon DEF KeyOf
<1> HIDE DEF keys, kid
<1>6. PICK k \in 1 .. Len(Chosen(keys, at)) : Chosen(keys, at)[k] = keys[j]
    BY <1>2, <1>4, ChosenAt
<1>7. 1 \in 1 .. Len(Chosen(keys, at))
    BY <1>2, <1>6, ChosenType
<1>8. PICK i \in 1 .. Len(keys) : keys[i].kid = kid /\ keys[i] = Chosen(keys, at)[1]
  <2>1. \A i \in at : keys[i].kid = kid
      OBVIOUS
  <2> HIDE DEF at
  <2> QED BY <1>2, <1>7, <2>1, ChosenFrom
<1>9. keys[i].key = kid
    BY <1>1, <1>8 DEF SelfKeyed
<1> QED BY <1>5, <1>8, <1>9 DEF kid

\* A rewrite is told of the source what its init segment says.
LEMMA SourceParamsHold ==
    ASSUME JobInv, Underway, NEW target, NEW i
    PROVE  SourceParams(Params(target, i), SourceInfo)
<1> DEFINE p == Params(target, i)
<1>1. WellFormed(source) /\ Readable
    BY DEF JobInv, SourceInv, Underway
<1>2. /\ p.sourceScheme = FromScheme /\ p.sourcePattern = SourceInfo.tenc.pattern
      /\ p.sourceIvSize = SourceInfo.tenc.ivSize /\ p.constantIv = SourceInfo.tenc.constantIv
      /\ p.sourceKey = IF NeedsKeys THEN KeyOf(keySet, PrimaryKid(Mapping)) ELSE Unset
    BY DEF Params
<1> HIDE DEF p
<1>3. CASE SourceInfo.present
  <2>1. ~source.ts
      BY <1>1, <1>3, SynthesizedIsClear DEF NoSinf
  <2>2. SourceInfo = ParseProtectionInfo(source.init)
      BY <2>1 DEF SourceInfo, SourceInit, InitOfSource
  <2>3. SourceInfo.schm \in {"cbcs", "cenc"}
      BY <1>1, <1>3, <2>1, <2>2 DEF Readable, SchemeKnown
  <2>4. FromScheme = SourceInfo.schm
      BY <1>3 DEF FromScheme, SourceScheme
  <2>5. NeedsKeys
      BY <2>3, <2>4 DEF NeedsKeys, IsEncrypted
  <2>6. p.sourceKey = SourceInfo.tenc.kid
      BY <1>1, <1>2, <1>3, <2>5, KeyIsPrimary, PrimaryIsSource
  <2> QED BY <1>2, <1>3, <2>3, <2>4, <2>6 DEF SourceParams, p
<1>4. CASE ~SourceInfo.present
  <2>1. FromScheme = "none"
      BY <1>4 DEF FromScheme, SourceScheme
  <2> QED BY <1>2, <1>4, <2>1 DEF SourceParams, p
<1> QED BY <1>3, <1>4

\* What the key ids, IV sizes and patterns of a tenc are.
LEMMA TencIs ==
    ASSUME NEW kid, NEW target
    PROVE  /\ TargetTenc(kid, target).kid = kid
           /\ TargetTenc(kid, target).ivSize = DefaultIvSize(target)
           /\ TargetTenc(kid, target).pattern = DefaultVideoPattern(target)
BY DEF TargetTenc, BuildTenc

\* A rewrite is told of the target what the new init segment says.
LEMMA TargetParamsHold ==
    ASSUME JobInv, Underway, NEW s \in Targets, NEW i
    PROVE  TargetParams(Params(s, i), ParseProtectionInfo(NewInit(s)))
<1> DEFINE p == Params(s, i)
           new == ParseProtectionInfo(NewInit(s))
<1>1. WellFormed(source) /\ Readable /\ ValidRequest(Targets, SourceTracks)
    BY DEF JobInv, SourceInv, Underway
<1>2. s \in Schemes
    BY RequestsAssumption DEF JobInv, SourceInv, Targets
<1>3. /\ p.targetScheme = s /\ p.targetPattern = DefaultVideoPattern(s)
      /\ p.targetKey = IF NeedsKeys THEN KeyOf(keySet, PrimaryKid(Mapping)) ELSE Unset
    BY DEF Params
<1>4. new.present \in BOOLEAN
    BY <1>1, NewInitFits, InfoIsBoolean
<1>5. CASE IsEncrypted(s)
  <2>1. Says(NewInit(s), Mapping, s)
      BY <1>1, <1>5, NewInitFits
  <2>2. /\ new.present /\ new.schm = s
        /\ new.tenc = TargetTenc(PrimaryKid(Mapping), s)
      BY <2>1 DEF Says
  <2>3. NeedsKeys
      BY <1>5 DEF NeedsKeys
  <2>4. p.targetKey = PrimaryKid(Mapping)
      BY <1>3, <2>3, KeyIsPrimary
  <2>5. /\ new.tenc.kid = PrimaryKid(Mapping) /\ new.tenc.ivSize = DefaultIvSize(s)
        /\ new.tenc.pattern = DefaultVideoPattern(s)
      BY <2>2, TencIs
  <2>6. new.present = IsEncrypted(p.targetScheme)
    <3>1. IsEncrypted(s) \in BOOLEAN
        BY DEF IsEncrypted
    <3> QED BY <1>3, <1>4, <1>5, <2>2, <3>1
  <2> HIDE DEF p, new
  <2> QED BY <1>2, <1>3, <2>2, <2>4, <2>5, <2>6 DEF TargetParams, p, new
<1>6. CASE ~IsEncrypted(s)
  <2>1. ~new.present
      BY <1>1, <1>6, NewInitFits
  <2>2. new.present = IsEncrypted(p.targetScheme)
    <3>1. IsEncrypted(s) \in BOOLEAN
        BY DEF IsEncrypted
    <3> QED BY <1>3, <1>4, <1>6, <2>1, <3>1
  <2> HIDE DEF p, new
  <2> QED BY <1>2, <1>3, <2>1, <2>2 DEF TargetParams, p, new
<1> QED BY <1>5, <1>6

\* A TS output is made from clear fragments, which no init segment describes.
LEMMA ClearParamsHold == ASSUME NEW i PROVE TargetParams(Params("none", i), NoSinf)
<1> DEFINE p == Params("none", i)
<1>1. p.targetScheme = "none"
    BY DEF Params
<1> HIDE DEF p
<1>2. "none" \in Schemes /\ NoSinf.present = FALSE
    BY DEF Schemes, NoSinf
<1>3. IsEncrypted("none") = FALSE
    BY DEF IsEncrypted
<1> QED BY <1>1, <1>2, <1>3 DEF TargetParams, p

-----------------------------------------------------------------------------
(* What an output gives *)

\* The last fragment of a segment is one of its fragments.
LEMMA LastFragment ==
    ASSUME NEW info, NEW segment, FragmentsWellFormed(info, segment), HasMoofMdat(segment)
    PROVE  Result(info, MoofOf(segment), MdatOf(segment), Last(ReadSegment(info, segment)))
<1> DEFINE moofs == BoxesOf(segment, "moof")
           mdats == BoxesOf(segment, "mdat")
           n == Len(moofs)
           found == [f \in 1 .. n |-> ReadFragment(info, moofs[f], mdats[f])]
<1>1. /\ IsList(moofs) /\ IsList(mdats) /\ Len(moofs) = Len(mdats) /\ moofs # <<>>
      /\ \A f \in 1 .. Len(moofs) : FragmentWellFormed(info, moofs[f], mdats[f])
    BY DEF FragmentsWellFormed, HasMoofMdat
<1>2. MoofOf(segment) = Last(moofs) /\ MdatOf(segment) = Last(mdats)
    BY DEF MoofOf, MdatOf
<1>3. ReadSegment(info, segment) = found
    BY DEF ReadSegment
<1> HIDE DEF moofs, mdats
<1>4. n \in Nat /\ n > 0
    BY <1>1 DEF IsList
<1>5. Last(moofs) = moofs[n] /\ Last(mdats) = mdats[n]
    BY <1>1 DEF Last
<1>6. Last(found) = ReadFragment(info, moofs[n], mdats[n])
  <2>1. Len(found) = n /\ found[n] = ReadFragment(info, moofs[n], mdats[n])
      BY <1>4
  <2> HIDE DEF found
  <2> QED BY <2>1 DEF Last
<1> HIDE DEF found
<1>7. FragmentWellFormed(info, moofs[n], mdats[n])
    BY <1>1, <1>4
<1> QED BY <1>2, <1>3, <1>5, <1>6, <1>7 DEF Result

\* A moof with its mdat is a segment of one fragment.
LEMMA PairHolds ==
    ASSUME NEW info, NEW a, NEW b, a.type = "moof", b.type = "mdat", NEW found,
           Result(info, a, b, found)
    PROVE  /\ SegmentHolds(info, <<a, b>>, <<found>>)
           /\ HasMoofMdat(<<a, b>>) /\ MoofOf(<<a, b>>) = a /\ MdatOf(<<a, b>>) = b
<1>1. BoxesOf(<<a, b>>, "moof") = <<a>> /\ BoxesOf(<<a, b>>, "mdat") = <<b>>
    BY BoxesOfPair
<1>2. ASSUME NEW x
      PROVE  IsList(<<x>>) /\ Len(<<x>>) = 1 /\ <<x>>[1] = x /\ <<x>> # <<>> /\ Last(<<x>>) = x
  <2>1. <<x>> \in Seq({x}) /\ Len(<<x>>) = 1 /\ <<x>>[1] = x /\ <<x>> # <<>>
      OBVIOUS
  <2>2. IsList(<<x>>)
      BY <2>1, SeqIsList
  <2> QED BY <2>1, <2>2 DEF Last
<1>3. FragmentsWellFormed(info, <<a, b>>)
    BY <1>1, <1>2 DEF FragmentsWellFormed, Result
<1>4. ReadSegment(info, <<a, b>>) = <<found>>
  <2>1. ReadSegment(info, <<a, b>>) = [f \in 1 .. 1 |-> ReadFragment(info, <<a>>[f], <<b>>[f])]
      BY <1>1 DEF ReadSegment
  <2>2. ReadFragment(info, <<a>>[1], <<b>>[1]) = found
      BY DEF Result
  <2>3. \A g : (g = [f \in 1 .. 1 |-> ReadFragment(info, <<a>>[f], <<b>>[f])]) => g = <<g[1]>>
      OBVIOUS
  <2> QED BY <2>1, <2>2, <2>3
<1> QED BY <1>1, <1>2, <1>3, <1>4 DEF SegmentHolds, HasMoofMdat, MoofOf, MdatOf

\* A rewrite that encrypts or decrypts needs a moof and an mdat.
LEMMA RewriteNeeds ==
    ASSUME NEW segment, NEW params, RewriteSegment(segment, params).ok,
           IsEncrypted(params.sourceScheme) \/ IsEncrypted(params.targetScheme)
    PROVE  HasMoofMdat(segment)
<1>1. ErrSegment.ok = FALSE
    BY DEF ErrSegment
<1>2. /\ RewriteEncryptedToEncrypted(segment, params).ok => HasMoofMdat(segment)
      /\ RewriteClearToEncrypted(segment, params).ok => HasMoofMdat(segment)
      /\ RewriteEncryptedToClear(segment, params).ok => HasMoofMdat(segment)
    BY <1>1 DEF RewriteEncryptedToEncrypted, RewriteClearToEncrypted, RewriteEncryptedToClear
<1>3. \/ RewriteSegment(segment, params) = RewriteEncryptedToEncrypted(segment, params)
      \/ RewriteSegment(segment, params) = RewriteClearToEncrypted(segment, params)
      \/ RewriteSegment(segment, params) = RewriteEncryptedToClear(segment, params)
    BY DEF RewriteSegment
<1> QED BY <1>2, <1>3

\* What a rewrite of the job makes of a segment, read by the init segment that
\* it was made for: the samples of the last fragment of the source.
LEMMA RewriteHolds ==
    ASSUME JobInv, Underway, Holds(source), NEW i \in 1 .. Len(source.segments),
           NEW target, NEW new, TargetParams(Params(target, i), new),
           SourceInfo.present \/ new.present,
           RewriteSegment(SegmentData(i), Params(target, i)).ok
    PROVE  LET out == RewriteSegment(SegmentData(i), Params(target, i)).boxes
           IN  /\ Rewrote(out, SourceInfo, new, SegmentData(i), Params(target, i))
               /\ SegmentHolds(new, out, << Last(source.clear[i]) >>)
               /\ HasMoofMdat(SegmentData(i))
               /\ HasMoofMdat(out) /\ MoofOf(out) = out[1] /\ MdatOf(out) = out[2]
<1> DEFINE data == SegmentData(i)
           params == Params(target, i)
           out == RewriteSegment(data, params).boxes
           found == Last(source.clear[i])
<1>1. WellFormed(source) /\ Readable
    BY DEF JobInv, SourceInv, Underway
<1>2. SegmentHolds(SourceInfo, data, source.clear[i])
    BY <1>1, SegmentDataHolds
<1>3. SourceParams(params, SourceInfo)
    BY SourceParamsHold
<1>4. SourceInfo.present \in BOOLEAN
    BY <1>1, SourceInitFits, InfoIsBoolean DEF SourceInfo
<1>5. RewriteSegment(data, params).ok
    OBVIOUS
<1>6. TargetParams(params, new)
    OBVIOUS
<1> HIDE DEF data, params
<1>7. HasMoofMdat(data)
  <2>1. IsEncrypted(params.sourceScheme) \/ IsEncrypted(params.targetScheme)
      BY <1>3, <1>4, <1>6 DEF SourceParams, TargetParams, IsEncrypted
  <2> QED BY <1>5, <2>1, RewriteNeeds
<1>8. Result(SourceInfo, MoofOf(data), MdatOf(data), found)
    BY <1>2, <1>7, LastFragment DEF SegmentHolds
<1>9. Premises(data, SourceInfo, new, params)
    BY <1>3, <1>6, <1>8 DEF Premises, Result
<1>10. Rewrote(out, SourceInfo, new, data, params)
    BY <1>4, <1>5, <1>9, RewriteKeepsSamples
<1> HIDE DEF out, found
<1>11. /\ out = <<out[1], out[2]>> /\ out[1].type = "moof" /\ out[2].type = "mdat"
       /\ Result(new, out[1], out[2], found)
    BY <1>8, <1>10 DEF Rewrote, Result
<1>12. SegmentHolds(new, out, <<found>>)
       /\ HasMoofMdat(out) /\ MoofOf(out) = out[1] /\ MdatOf(out) = out[2]
    BY <1>11, PairHolds
<1> QED BY <1>7, <1>10, <1>12 DEF data, params, out, found

\* A segment of an output that is not TS reads, by the init segment of the
\* output, the fragments that the job keeps.
LEMMA RewrittenHolds ==
    ASSUME JobInv, Underway, Holds(source), original = source.clear,
           NEW i \in 1 .. Len(source.segments), NEW s \in Targets, request.container # "ts",
           Rewritten(s, i).ok
    PROVE  SegmentHolds(ParseProtectionInfo(NewInit(s)), Rewritten(s, i).boxes, KeptFragments(s, i))
<1> DEFINE new == ParseProtectionInfo(NewInit(s))
           params == Params(s, i)
<1>1. WellFormed(source) /\ Readable /\ ValidRequest(Targets, SourceTracks)
    BY DEF JobInv, SourceInv, Underway
<1>2. Rewritten(s, i) = RewriteSegment(SegmentData(i), params)
    BY DEF Rewritten
<1>3. TargetParams(params, new) /\ SourceParams(params, SourceInfo)
    BY TargetParamsHold, SourceParamsHold
<1>4. params.targetScheme = s /\ params.sourceScheme = FromScheme
    BY DEF Params
<1>5. InitWellFormed(SourceInit) /\ InitWellFormed(NewInit(s))
    BY <1>1, SourceInitFits, NewInitFits
<1>6. SourceInfo.present \in BOOLEAN /\ new.present \in BOOLEAN
    BY <1>5, InfoIsBoolean DEF SourceInfo
<1> HIDE DEF new, params
<1>7. (IsEncrypted(FromScheme) <=> SourceInfo.present) /\ (IsEncrypted(s) <=> new.present)
    BY <1>3, <1>4, <1>6 DEF SourceParams, TargetParams, IsEncrypted
<1>8. CASE SourceInfo.present \/ new.present
  <2>1. RewriteSegment(SegmentData(i), params).ok
      BY <1>2
  <2>2. SegmentHolds(new, RewriteSegment(SegmentData(i), params).boxes, << Last(source.clear[i]) >>)
      BY <1>3, <1>8, <2>1, RewriteHolds DEF params
  <2>3. KeptFragments(s, i) = << Last(source.clear[i]) >>
      BY <1>7, <1>8 DEF KeptFragments
  <2> QED BY <1>2, <2>2, <2>3 DEF new
<1>9. CASE ~SourceInfo.present /\ ~new.present
  <2>1. SourceInfo = NoSinf /\ new = NoSinf
      BY <1>5, <1>9, FirstSpeaks DEF SourceInfo, new
  <2>2. RewriteSegment(SegmentData(i), params) = OkSegment(SegmentData(i))
      BY <1>4, <1>7, <1>9 DEF RewriteSegment
  <2>3. KeptFragments(s, i) = source.clear[i]
      BY <1>7, <1>9 DEF KeptFragments
  <2>4. SegmentHolds(SourceInfo, SegmentData(i), source.clear[i])
      BY <1>1, SegmentDataHolds
  <2>5. OkSegment(SegmentData(i)).boxes = SegmentData(i)
      BY DEF OkSegment
  <2> QED BY <1>2, <2>1, <2>2, <2>3, <2>4, <2>5 DEF new
<1> QED BY <1>8, <1>9

-----------------------------------------------------------------------------
(* Transport streams *)

AreBare(samples) == IsList(samples) /\ \A i \in 1 .. Len(samples) : IsBare(samples[i])

IsMuxed(streams, track, samples) == streams = << Stream(track, samples) >> /\ AreBare(samples)

\* What is left of a sample that is not of the muxer's track.
LEMMA GarbledIsBare == IsBare(<< <<Garbled>> >>)
<1> DEFINE x == << <<Garbled>> >>
<1>1. x \in Seq({<<Garbled>>}) /\ Len(x) = 1 /\ x[1] = <<Garbled>> /\ x[1][1] = Garbled
    OBVIOUS
<1> HIDE DEF x
<1>2. IsList(x)
    BY <1>1, SeqIsList
<1>3. \A p \in 1 .. Len(x) : x[p] = << x[p][1] >>
    BY <1>1
<1> QED BY <1>2, <1>3 DEF IsBare, x

\* The muxer takes every sample of a clear fragment: no one is cut short.
LEMMA MuxCounts ==
    ASSUME NEW sizes, NEW data, Covered(data, sizes)
    PROVE  LET whole == {n \in 0 .. Len(sizes) : SampleEnd(sizes, n) <= Len(data)}
           IN  (CHOOSE n \in whole : \A m \in whole : m <= n) = Len(sizes)
<1> DEFINE whole == {n \in 0 .. Len(sizes) : SampleEnd(sizes, n) <= Len(data)}
           count == CHOOSE n \in whole : \A m \in whole : m <= n
<1>1. Len(sizes) \in Nat /\ Len(data) \in Nat /\ SampleEnd(sizes, Len(sizes)) = Len(data)
    BY DEF Covered, AreSizes, IsList
<1>2. Len(sizes) \in whole /\ \A m \in whole : m <= Len(sizes)
    BY <1>1
<1>3. count \in whole /\ \A m \in whole : m <= count
  <2> HIDE DEF whole
  <2>1. \E n \in whole : \A m \in whole : m <= n
      BY <1>2
  <2> QED BY <2>1
<1>4. count \in 0 .. Len(sizes)
    BY <1>3
<1> HIDE DEF count
<1>5. Len(sizes) <= count /\ count <= Len(sizes)
    BY <1>2, <1>3
<1>6. count = Len(sizes)
    BY <1>1, <1>4, <1>5
<1> QED BY <1>6 DEF count

\* The muxer writes the samples of a clear fragment, if the fragment is of the
\* track that it expects: mux_to_ts.
LEMMA MuxGives ==
    ASSUME NEW segment, NEW found, Result(NoSinf, MoofOf(segment), MdatOf(segment), found),
           NEW track
    PROVE  \E samples : /\ IsMuxed(MuxToTs(segment, track), track, samples)
                        /\ MoofOf(segment).trafs[1].track = track => samples = found
<1> DEFINE moof == MoofOf(segment)
           mdat == MdatOf(segment)
           traf == moof.trafs[1]
           data == mdat.data
           sizes == traf.sizes
           n == Len(sizes)
           sample(i) == IF traf.track = track THEN Sample(data, sizes, i) ELSE << <<Garbled>> >>
           samples == [i \in 1 .. n |-> sample(i)]
<1>1. NoSinf.present = FALSE
    BY DEF NoSinf
<1>2. FragmentWellFormed(NoSinf, moof, mdat) /\ ReadFragment(NoSinf, moof, mdat) = found
    BY DEF Result
<1>3. Covered(data, sizes) /\ traf.senc = NoSenc /\ \A i \in 1 .. n : IsBare(found[i])
    BY <1>1, <1>2, FragmentParts
<1>4. found = [i \in 1 .. n |-> Sample(data, sizes, i)]
  <2>1. ~traf.senc.present
      BY <1>3 DEF NoSenc
  <2> QED BY <1>1, <1>2, <2>1 DEF ReadFragment
<1>5. MuxToTs(segment, track) = << Stream(track, samples) >>
  <2> DEFINE whole == {k \in 0 .. n : SampleEnd(sizes, k) <= Len(data)}
             count == CHOOSE k \in whole : \A m \in whole : m <= k
  <2>1. count = n
      BY <1>3, MuxCounts
  <2>2. MuxToTs(segment, track) = << Stream(track, [i \in 1 .. count |-> sample(i)]) >>
      BY DEF MuxToTs
  <2> HIDE DEF count
  <2> QED BY <2>1, <2>2
<1> HIDE DEF moof, mdat
<1>6. \A i \in 1 .. n : IsBare(samples[i])
    BY <1>3, <1>4, GarbledIsBare
<1>7. n \in Nat
    BY <1>3 DEF Covered, AreSizes, IsList
<1>8. IsList(samples) /\ Len(samples) = n
    BY <1>7, FunctionIsList
<1>9. traf.track = track => samples = found
    BY <1>4
<1> HIDE DEF samples, traf
<1> QED BY <1>5, <1>6, <1>8, <1>9 DEF IsMuxed, AreBare, traf, moof

\* The last fragment of a segment that mux_to_ts is given: what the source
\* gives, under its own track.
LEMMA MuxReads ==
    ASSUME JobInv, Underway, Holds(source), NEW i \in 1 .. Len(source.segments),
           RewriteSegment(SegmentData(i), Params("none", i)).ok,
           HasMoofMdat(RewriteSegment(SegmentData(i), Params("none", i)).boxes)
    PROVE  LET clear == RewriteSegment(SegmentData(i), Params("none", i)).boxes
           IN  /\ Result(NoSinf, MoofOf(clear), MdatOf(clear), Last(source.clear[i]))
               /\ HasMoofMdat(SegmentData(i))
               /\ MoofOf(clear).trafs[1].track = MoofOf(SegmentData(i)).trafs[1].track
<1> DEFINE params == Params("none", i)
           result == RewriteSegment(SegmentData(i), params)
           clear == result.boxes
<1>1. WellFormed(source) /\ Readable
    BY DEF JobInv, SourceInv, Underway
<1>2. TargetParams(params, NoSinf)
    BY ClearParamsHold
<1>3. SegmentHolds(SourceInfo, SegmentData(i), source.clear[i])
    BY <1>1, SegmentDataHolds
<1>4. SourceParams(params, SourceInfo)
    BY SourceParamsHold
<1>5. params.targetScheme = "none"
    BY DEF Params
<1>6. CASE SourceInfo.present
  <2>1. /\ Rewrote(clear, SourceInfo, NoSinf, SegmentData(i), params)
        /\ SegmentHolds(NoSinf, clear, << Last(source.clear[i]) >>)
        /\ HasMoofMdat(SegmentData(i)) /\ MoofOf(clear) = clear[1]
      BY <1>2, <1>6, RewriteHolds
  <2>2. MoofOf(clear).trafs[1].track = MoofOf(SegmentData(i)).trafs[1].track
      BY <2>1 DEF Rewrote
  <2>3. Result(NoSinf, MoofOf(clear), MdatOf(clear), Last(ReadSegment(NoSinf, clear)))
    <3> HIDE DEF result
    <3> QED BY <2>1, LastFragment DEF SegmentHolds, result
  <2>4. Last(ReadSegment(NoSinf, clear)) = Last(source.clear[i])
    <3>1. \A x : Last(<<x>>) = x
        BY DEF Last
    <3>2. ReadSegment(NoSinf, clear) = << Last(source.clear[i]) >>
        BY <2>1 DEF SegmentHolds
    <3> QED BY <3>1, <3>2, Zenon
  <2> QED BY <2>1, <2>2, <2>3, <2>4
<1>7. CASE ~SourceInfo.present
  <2>1. SourceInfo = NoSinf
      BY <1>1, <1>7, SourceInitFits, FirstSpeaks DEF SourceInfo
  <2>2. ~IsEncrypted(params.sourceScheme) /\ ~IsEncrypted(params.targetScheme)
      BY <1>4, <1>5, <1>7 DEF SourceParams, IsEncrypted
  <2> HIDE DEF params
  <2>3. result = OkSegment(SegmentData(i))
      BY <2>2 DEF RewriteSegment
  <2>4. clear = SegmentData(i)
      BY <2>3 DEF OkSegment
  <2>5. HasMoofMdat(SegmentData(i))
      BY <2>4 DEF params
  <2>6. Result(NoSinf, MoofOf(SegmentData(i)), MdatOf(SegmentData(i)), Last(source.clear[i]))
      BY <1>3, <2>1, <2>5, LastFragment DEF SegmentHolds
  <2> QED BY <2>4, <2>5, <2>6 DEF params
<1> QED BY <1>6, <1>7

\* The cipher of a segment of a TS output.
CipherOf(s, i) ==
    IF IsEncrypted(s) THEN [present |-> TRUE, key |-> PrimaryKid(Mapping), iv |-> i - 1] ELSE NoCipher

\* A segment of a TS output: one stream with the samples of the last fragment,
\* under the key that the playlist names and the number of the segment.
LEMMA TsOutputIs ==
    ASSUME JobInv, Underway, Holds(source), NEW i \in 1 .. Len(source.segments),
           NEW s, s \in Targets, request.container = "ts", Rewritten(s, i).ok
    PROVE  \E streams, samples :
               /\ Rewritten(s, i).boxes = TsSegment(streams, CipherOf(s, i))
               /\ IsMuxed(streams, MuxTrack(SourceInit), samples)
               /\ Muxable(source) => samples = Last(source.clear[i])
               /\ HasMoofMdat(SegmentData(i))
<1> DEFINE clear == RewriteSegment(SegmentData(i), Params("none", i))
           streams == MuxToTs(clear.boxes, MuxTrack(SourceInit))
           cipher == IF IsEncrypted(s)
                     THEN [present |-> TRUE, key |-> Params(s, i).targetKey, iv |-> i - 1]
                     ELSE NoCipher
<1>1. cipher = CipherOf(s, i)
  <2>1. IsEncrypted(s) => NeedsKeys
      BY DEF NeedsKeys
  <2>2. NeedsKeys => Params(s, i).targetKey = PrimaryKid(Mapping)
      BY KeyIsPrimary DEF Params
  <2> QED BY <2>1, <2>2 DEF CipherOf
<1>2. /\ clear.ok /\ HasMoofMdat(clear.boxes)
      /\ Rewritten(s, i).boxes = TsSegment(streams, cipher)
  <2> HIDE DEF clear, streams, cipher
  <2>1. Rewritten(s, i) = IF clear.ok /\ HasMoofMdat(clear.boxes)
                          THEN OkSegment(TsSegment(streams, cipher)) ELSE ErrSegment
      BY DEF Rewritten, TsOutput, clear, streams, cipher
  <2>2. ErrSegment.ok = FALSE
      BY DEF ErrSegment
  <2>3. clear.ok /\ HasMoofMdat(clear.boxes)
      BY <2>1, <2>2
  <2>4. \A x : OkSegment(x).boxes = x
      BY DEF OkSegment
  <2> QED BY <2>1, <2>3, <2>4
<1>3. /\ Result(NoSinf, MoofOf(clear.boxes), MdatOf(clear.boxes), Last(source.clear[i]))
      /\ HasMoofMdat(SegmentData(i))
      /\ MoofOf(clear.boxes).trafs[1].track = MoofOf(SegmentData(i)).trafs[1].track
    BY <1>2, MuxReads
<1> HIDE DEF clear, cipher
<1>4. PICK samples :
          /\ IsMuxed(streams, MuxTrack(SourceInit), samples)
          /\ MoofOf(clear.boxes).trafs[1].track = MuxTrack(SourceInit) => samples = Last(source.clear[i])
    BY <1>3, MuxGives
<1>5. Muxable(source) => MoofOf(SegmentData(i)).trafs[1].track = MuxTrack(SourceInit)
    BY <1>3 DEF Muxable, SegmentData, DataOfSource, SourceInit, InitOfSource
<1> HIDE DEF streams
<1> QED BY <1>1, <1>2, <1>3, <1>4, <1>5

-----------------------------------------------------------------------------
(* From one job to the next *)

\* What the source of a job holds is what is read of it.
HoldsInv == Holds(source) /\ original = source.clear

\* A TS segment whose cipher the playlist announces gives its samples.
LEMMA TsGives ==
    ASSUME NEW o, o.ts, NEW i, NEW s, o.drm = NewDrmInfo(s), NEW streams, NEW track, NEW samples,
           o.segments[i] = TsSegment(streams, CipherOf(s, i)), IsMuxed(streams, track, samples)
    PROVE  Read(o, i) = << samples >> /\ TsHolds(o.segments[i], Read(o, i))
<1> DEFINE segment == o.segments[i]
           cipher == CipherOf(s, i)
<1>1. \A x, y : TsSegment(x, y)[1].streams = x /\ TsSegment(x, y)[1].cipher = y
    BY DEF TsSegment
<1>2. segment[1].streams = streams /\ segment[1].cipher = cipher
    BY <1>1
<1>3. IF o.drm.present
      THEN cipher.present /\ cipher.key = o.drm.defaultKid /\ cipher.iv = i - 1
      ELSE ~cipher.present
  <2>1. CASE IsEncrypted(s)
    <3>1. o.drm = DrmInfo(keySet, PrimaryKid(Mapping), AllKids(Mapping), s, request.systems)
        BY <2>1 DEF NewDrmInfo
    <3> DEFINE made == DrmInfo(keySet, PrimaryKid(Mapping), AllKids(Mapping), s, request.systems)
    <3>2. made.present /\ made.defaultKid = PrimaryKid(Mapping)
        BY DEF DrmInfo
    <3> HIDE DEF made
    <3>3. o.drm.present /\ o.drm.defaultKid = PrimaryKid(Mapping)
        BY <3>1, <3>2 DEF made
    <3>4. cipher.present /\ cipher.key = PrimaryKid(Mapping) /\ cipher.iv = i - 1
        BY <2>1 DEF CipherOf
    <3> QED BY <3>3, <3>4
  <2>2. CASE ~IsEncrypted(s)
      BY <2>2 DEF NewDrmInfo, NoDrmInfo, CipherOf, NoCipher
  <2> QED BY <2>1, <2>2
<1> HIDE DEF cipher
<1>4. Read(o, i) = [x \in 1 .. Len(streams) |-> streams[x].samples]
  <2> DEFINE found == [x \in 1 .. Len(streams) |-> streams[x].samples]
  <2>1. Read(o, i) = ReadTs(o, segment, i)
      BY DEF Read
  <2> HIDE DEF segment
  <2>2. ReadTs(o, segment, i) = found
      BY <1>2, <1>3 DEF ReadTs
  <2> QED BY <2>1, <2>2
<1>5. streams = << Stream(track, samples) >> /\ AreBare(samples)
    BY DEF IsMuxed
<1>6. Stream(track, samples).samples = samples
    BY DEF Stream
<1>7. Len(streams) = 1 /\ streams[1].samples = samples
    BY <1>5, <1>6
<1>8. Read(o, i) = << samples >>
  <2>1. Read(o, i) = [x \in 1 .. 1 |-> streams[x].samples]
      BY <1>4, <1>7
  <2>2. \A g : (g = [x \in 1 .. 1 |-> streams[x].samples]) => g = << g[1] >>
      OBVIOUS
  <2> QED BY <1>7, <2>1, <2>2
<1>9. TsHolds(segment, Read(o, i))
  <2>1. \A x \in 1 .. Len(streams) : x = 1
      BY <1>7
  <2> HIDE DEF segment
  <2> QED BY <1>2, <1>4, <1>5, <1>7, <2>1 DEF TsHolds, AreBare
<1> QED BY <1>8, <1>9

\* Each segment of an output holds what is read of it, and that is what the
\* job keeps of its source.
LEMMA OutputGives ==
    ASSUME JobInv, ProcessedInv, HoldsInv, NEW s \in DOMAIN outputs,
           NEW i \in 1 .. Len(outputs[s].segments)
    PROVE  LET o == outputs[s]
           IN  /\ IF o.ts THEN TsHolds(o.segments[i], Read(o, i))
                  ELSE SegmentHolds(ParseProtectionInfo(o.init), o.segments[i], Read(o, i))
               /\ (o.ts => Muxable(source)) => Read(o, i) = KeptFragments(s, i)
<1> DEFINE o == outputs[s]
<1>1. DOMAIN outputs = Targets /\ s \in Targets
    BY DEF JobInv, OutputsInv
<1>2. Underway /\ Processed(s)
    BY DEF ProcessedInv
<1>3. i \in 1 .. next /\ next \in 0 .. Len(source.segments)
    BY DEF JobInv, OutputsInv, OutputInv, OutputFits, TypeOK
<1>4. i \in 1 .. Len(source.segments)
  <2>1. Len(source.segments) \in Nat
      BY DEF JobInv, SourceInv, WellFormed, IsList
  <2> QED BY <1>3, <2>1
<1>5. /\ o.ts = (request.container = "ts") /\ o.init = NewInit(s) /\ o.drm = NewDrmInfo(s)
      /\ Rewritten(s, i).ok /\ o.segments[i] = Rewritten(s, i).boxes
    BY <1>2, <1>3 DEF Processed
<1>6. Holds(source) /\ original = source.clear
    BY DEF HoldsInv
<1> HIDE DEF o
<1>7. CASE request.container = "ts"
  <2>1. PICK streams, samples :
            /\ o.segments[i] = TsSegment(streams, CipherOf(s, i))
            /\ IsMuxed(streams, MuxTrack(SourceInit), samples)
            /\ Muxable(source) => samples = Last(source.clear[i])
      BY <1>1, <1>2, <1>4, <1>5, <1>6, <1>7, TsOutputIs
  <2>2. Read(o, i) = << samples >> /\ TsHolds(o.segments[i], Read(o, i))
      BY <1>5, <1>7, <2>1, TsGives
  <2>3. KeptFragments(s, i) = << Last(source.clear[i]) >>
      BY <1>6, <1>7 DEF KeptFragments
  <2> QED BY <1>5, <1>7, <2>1, <2>2, <2>3 DEF o
<1>8. CASE request.container # "ts"
  <2>1. SegmentHolds(ParseProtectionInfo(o.init), o.segments[i], KeptFragments(s, i))
      BY <1>1, <1>2, <1>4, <1>5, <1>6, <1>8, RewrittenHolds
  <2>2. Read(o, i) = ReadSegment(ParseProtectionInfo(o.init), o.segments[i])
      BY <1>5, <1>8 DEF Read
  <2>3. Read(o, i) = KeptFragments(s, i)
      BY <2>1, <2>2 DEF SegmentHolds
  <2> QED BY <1>5, <1>8, <2>1, <2>3 DEF o
<1> QED BY <1>7, <1>8

\* The source that Republish makes of an output.
Republished(o, src) ==
    /\ src.ts = o.ts /\ src.init = o.init /\ src.segments = o.segments
    /\ src.clear = [i \in 1 .. Len(o.segments) |-> Read(o, i)]

\* Republish takes an output for the source, with what is read of it.
LEMMA RepublishTakes ==
    ASSUME Republish
    PROVE  /\ original' = source'.clear /\ request' \in Requests
           /\ \E s \in Targets : Republished(outputs[s], source')
<1>1. PICK s \in Targets, parts \in BOOLEAN :
          LET o == outputs[s]
              clear == [i \in 1 .. Len(o.segments) |-> Read(o, i)]
          IN  /\ source' = [ts |-> o.ts, init |-> o.init, segments |-> o.segments,
                            parts |-> parts, live |-> ~o.ended, clear |-> clear]
              /\ original' = clear
    BY Zenon DEF Republish
<1> DEFINE clear == [i \in 1 .. Len(outputs[s].segments) |-> Read(outputs[s], i)]
<1>2. /\ source' = [ts |-> outputs[s].ts, init |-> outputs[s].init, segments |-> outputs[s].segments,
                    parts |-> parts, live |-> ~outputs[s].ended, clear |-> clear]
      /\ original' = clear
    BY <1>1
<1>3. Republished(outputs[s], source') /\ source'.clear = clear
  <2> HIDE DEF clear
  <2> QED BY <1>2 DEF Republished, clear
<1>4. request' \in Requests
    BY DEF Republish, StartJob
<1> QED BY <1>2, <1>3, <1>4

\* What a republished output holds is what is read of it.
LEMMA RepublishedHolds ==
    ASSUME JobInv, ProcessedInv, HoldsInv, phase = "done", NEW s \in Targets,
           NEW src, Republished(outputs[s], src)
    PROVE  Holds(src)
<1> DEFINE o == outputs[s]
<1>1. s \in DOMAIN outputs
    BY DEF JobInv, OutputsInv
<1>2. ASSUME NEW i \in 1 .. Len(src.segments)
      PROVE  IF src.ts THEN TsHolds(src.segments[i], src.clear[i])
             ELSE SegmentHolds(ParseProtectionInfo(src.init), src.segments[i], src.clear[i])
  <2>1. i \in 1 .. Len(o.segments) /\ src.clear[i] = Read(o, i)
        /\ src.ts = o.ts /\ src.init = o.init /\ src.segments[i] = o.segments[i]
      BY DEF Republished
  <2>2. IF o.ts THEN TsHolds(o.segments[i], Read(o, i))
        ELSE SegmentHolds(ParseProtectionInfo(o.init), o.segments[i], Read(o, i))
      BY <1>1, <2>1, OutputGives
  <2> HIDE DEF o
  <2> QED BY <2>1, <2>2
<1> QED BY <1>2 DEF Holds

\* Every step keeps that the source of the job holds what is read of it.
LEMMA HoldsStep == JobInv /\ ProcessedInv /\ HoldsInv /\ [Next]_vars => HoldsInv'
<1> SUFFICES ASSUME JobInv, ProcessedInv, HoldsInv, [Next]_vars PROVE HoldsInv'
    OBVIOUS
<1>1. CASE JobSteps
  <2>1. source' = source /\ original' = original
      BY <1>1 DEF JobSteps, FetchSource, Validate, GetKeys, BuildOutputs, ProcessSegment, SegmentLost,
             Finish, ExpireKeys, vars
  <2>2. Holds(source)' <=> Holds(source)
      BY <2>1
  <2> QED BY <2>1, <2>2 DEF HoldsInv
<1>2. CASE NewJob
    BY <1>2, JobSourcesAssumption DEF NewJob, HoldsInv
<1>3. CASE Republish
  <2>1. phase = "done"
      BY <1>3 DEF Republish
  <2>2. original' = source'.clear /\ \E s \in Targets : Republished(outputs[s], source')
      BY <1>3, RepublishTakes
  <2>3. \A src : (\E s \in Targets : Republished(outputs[s], src)) => Holds(src)
      BY <2>1, RepublishedHolds
  <2>4. Holds(source')
      BY <2>2, <2>3
  <2> QED BY <2>2, <2>4 DEF HoldsInv
<1> QED BY <1>1, <1>2, <1>3, StepKinds

-----------------------------------------------------------------------------
(* Tracks of an output, and what can be muxed *)

\* The codec of a sample entry, as parse_trak reports it.
CodecOf(entry) ==
    IF IsEncryptedEntry(entry.format) /\ entry.sinf.present THEN entry.sinf.frma ELSE entry.format

\* A clear entry has its codec for its type.
LEMMA ClearCodec ==
    ASSUME NEW entry, EntryWellFormed(entry), ~entry.sinf.present
    PROVE  CodecOf(entry) = entry.format
BY DEF CodecOf

\* No rewrite changes the codec of a track: a type that is replaced is kept in
\* the frma box.
LEMMA CodecsKept ==
    ASSUME NEW entry, EntryWellFormed(entry), NEW kid, kid # NoKid, NEW target
    PROVE  /\ CodecOf(RewriteSampleEntry(entry, kid, target)) = CodecOf(entry)
           /\ CodecOf(StripProtection(entry)) = CodecOf(entry)
           /\ ~entry.sinf.present => CodecOf(InjectProtection(entry, kid, target)) = CodecOf(entry)
<1>1. /\ entry.sinf.present <=> IsEncryptedEntry(entry.format)
      /\ entry.sinf.present => SinfWellFormed(entry.sinf)
    BY EntryKinds
<1>2. CodecOf(RewriteSampleEntry(entry, kid, target)) = CodecOf(entry)
  <2> DEFINE new == RewriteSampleEntry(entry, kid, target)
  <2>1. /\ new.sinf.present <=> entry.sinf.present
        /\ new.format = entry.format
        /\ entry.sinf.present => new.sinf.frma = entry.sinf.frma
      BY RewrittenEntry
  <2> HIDE DEF new
  <2> QED BY <2>1 DEF CodecOf, new
<1>3. CodecOf(StripProtection(entry)) = CodecOf(entry)
  <2> DEFINE new == StripProtection(entry)
  <2>1. EntryWellFormed(new) /\ ~new.sinf.present
      BY StrippedEntry
  <2>2. CodecOf(new) = new.format
      BY <2>1, ClearCodec
  <2>3. CASE entry.sinf.present
    <3>1. new.format = entry.sinf.frma
        BY <1>1, <2>3 DEF StripProtection
    <3> QED BY <1>1, <2>2, <2>3, <3>1 DEF CodecOf
  <2>4. CASE ~entry.sinf.present
      BY <1>1, <2>4 DEF StripProtection
  <2> QED BY <2>3, <2>4
<1>4. ASSUME ~entry.sinf.present PROVE CodecOf(InjectProtection(entry, kid, target)) = CodecOf(entry)
  <2> DEFINE new == InjectProtection(entry, kid, target)
  <2>1. CodecOf(entry) = entry.format
      BY <1>4, ClearCodec
  <2>2. CASE HasEncryptedType(entry.format)
    <3>1. new.format = EncryptedType(entry.format) /\ new.sinf.present
          /\ new.sinf.frma = entry.format
        BY <2>2 DEF InjectProtection, BuildSinf
    <3>2. IsEncryptedEntry(EncryptedType(entry.format))
        BY DEF EncryptedType, IsEncryptedEntry
    <3> HIDE DEF new
    <3> QED BY <2>1, <3>1, <3>2 DEF CodecOf, new
  <2>3. CASE ~HasEncryptedType(entry.format)
      BY <2>3 DEF InjectProtection
  <2> QED BY <2>2, <2>3
<1> QED BY <1>2, <1>3, <1>4

\* An init segment with the tracks of another one, but for their protection.
SameTracks(new, init) ==
    /\ Len(new.tracks) = Len(init.tracks)
    /\ \A t \in 1 .. Len(init.tracks) :
          /\ new.tracks[t].type = init.tracks[t].type
          /\ CodecOf(EntryOf(new, t)) = CodecOf(EntryOf(init, t))

\* An output has the tracks of the source.
LEMMA NewTracks ==
    ASSUME WellFormed(source), Readable, ValidRequest(Targets, SourceTracks), NEW s \in Targets
    PROVE  SameTracks(NewInit(s), SourceInit)
<1> DEFINE init == SourceInit
           mapping == Mapping
           n == Len(init.tracks)
           types == TypesOf(init)
           boxes == BuildPsshBoxes(keySet, mapping, s)
           brands == Brands(request.container)
           rewritten == RewrittenEntries(init, mapping, s)
           injected == InjectedEntries(init, mapping, s)
           stripped == StrippedEntries(init)
           same == SameEntries(init)
<1>1. InitWellFormed(init)
    BY SourceInitFits
<1>2. /\ RewriteInitSegment(init, keySet, mapping, s, request.container) =
             BuiltInit(brands, boxes, n, types, rewritten)
      /\ CreateProtectionInfo(init, keySet, mapping, s, request.container) =
             BuiltInit(brands, init.pssh \union boxes, n, types, injected)
      /\ StripProtectionInfo(init, request.container) = BuiltInit(brands, {}, n, types, stripped)
      /\ RewriteFtypOnly(init, request.container) = BuiltInit(brands, init.pssh, n, types, same)
  <2>1. RewritesTracks(init, keySet, mapping, s, request.container)
      BY <1>1, InitRewrites
  <2> QED BY <2>1 DEF RewritesTracks
<1>3. IsEncrypted(FromScheme) <=> \E t \in 1 .. n : Protected(init, t)
    BY SourceIsProtected
<1>4. \A type : KidForTrack(mapping, type) # NoKid
    BY JobMapping
<1>5. n \in Nat /\ \A t \in 1 .. n : EntryWellFormed(EntryOf(init, t))
    BY <1>1, EntriesOfInit DEF InitWellFormed, IsList
<1>6. ASSUME NEW t \in 1 .. n
      PROVE  /\ types[t] = init.tracks[t].type
             /\ CodecOf(rewritten[t]) = CodecOf(EntryOf(init, t))
             /\ CodecOf(stripped[t]) = CodecOf(EntryOf(init, t))
             /\ CodecOf(same[t]) = CodecOf(EntryOf(init, t))
             /\ ~IsEncrypted(FromScheme) => CodecOf(injected[t]) = CodecOf(EntryOf(init, t))
  <2> DEFINE entry == EntryOf(init, t)
             kid == KidForTrack(mapping, init.tracks[t].type)
  <2>1. EntryWellFormed(entry) /\ kid # NoKid
      BY <1>4, <1>5
  <2>2. /\ types[t] = init.tracks[t].type
        /\ rewritten[t] = RewriteSampleEntry(entry, kid, s)
        /\ injected[t] = InjectProtection(entry, kid, s)
        /\ stripped[t] = StripProtection(entry)
        /\ same[t] = entry
      BY DEF TypesOf, RewrittenEntries, InjectedEntries, StrippedEntries, SameEntries
  <2>3. ~IsEncrypted(FromScheme) => ~entry.sinf.present
      BY <1>3 DEF Protected
  <2> HIDE DEF types, rewritten, injected, stripped, same, entry, kid
  <2>4. /\ CodecOf(RewriteSampleEntry(entry, kid, s)) = CodecOf(entry)
        /\ CodecOf(StripProtection(entry)) = CodecOf(entry)
        /\ ~entry.sinf.present => CodecOf(InjectProtection(entry, kid, s)) = CodecOf(entry)
      BY <2>1, CodecsKept
  <2> QED BY <2>2, <2>3, <2>4 DEF entry
<1> HIDE DEF types, boxes, brands, n, rewritten, injected, stripped, same
<1>7. \/ \E b, p : NewInit(s) = BuiltInit(b, p, n, types, rewritten)
      \/ \E b, p : NewInit(s) = BuiltInit(b, p, n, types, stripped)
      \/ \E b, p : NewInit(s) = BuiltInit(b, p, n, types, same)
      \/ ~IsEncrypted(FromScheme) /\ \E b, p : NewInit(s) = BuiltInit(b, p, n, types, injected)
    BY <1>2, Zenon DEF NewInit
<1>8. ASSUME NEW b, NEW p, NEW entries,
             \A t \in 1 .. n : CodecOf(entries[t]) = CodecOf(EntryOf(init, t)),
             NewInit(s) = BuiltInit(b, p, n, types, entries)
      PROVE  SameTracks(NewInit(s), init)
  <2> DEFINE tracks == [t \in 1 .. n |-> [type |-> types[t], entries |-> <<entries[t]>>]]
  <2>1. NewInit(s).tracks = tracks
      BY <1>8 DEF BuiltInit
  <2>2. Len(tracks) = n /\ \A t \in 1 .. n : tracks[t].type = types[t] /\ tracks[t].entries[1] = entries[t]
      BY <1>5 DEF n
  <2> HIDE DEF tracks
  <2> QED BY <1>6, <1>8, <2>1, <2>2 DEF SameTracks, EntryOf, n
<1>9. CASE \E b, p : NewInit(s) = BuiltInit(b, p, n, types, rewritten)
    BY <1>6, <1>8, <1>9
<1>10. CASE \E b, p : NewInit(s) = BuiltInit(b, p, n, types, stripped)
    BY <1>6, <1>8, <1>10
<1>11. CASE \E b, p : NewInit(s) = BuiltInit(b, p, n, types, same)
    BY <1>6, <1>8, <1>11
<1>12. CASE ~IsEncrypted(FromScheme) /\ \E b, p : NewInit(s) = BuiltInit(b, p, n, types, injected)
    BY <1>6, <1>8, <1>12
<1> QED BY <1>7, <1>9, <1>10, <1>11, <1>12

\* Of init segments with the same tracks the same requests are valid, and the
\* muxer takes the same track.
LEMMA TracksMean ==
    ASSUME NEW new, NEW init, SameTracks(new, init), Len(init.tracks) \in Nat
    PROVE  /\ MuxTrack(new) = MuxTrack(init)
           /\ \A targets : ValidRequest(targets, ExtractTracks(new))
                               <=> ValidRequest(targets, ExtractTracks(init))
<1> DEFINE n == Len(init.tracks)
<1>1. n \in Nat /\ Len(new.tracks) = n
    BY DEF SameTracks
<1>2. \A t \in 1 .. n : /\ new.tracks[t].type = init.tracks[t].type
                        /\ CodecOf(EntryOf(new, t)) = CodecOf(EntryOf(init, t))
    BY DEF SameTracks
<1>3. MuxTrack(new) = MuxTrack(init)
    BY <1>1, <1>2 DEF MuxTrack
<1>4. ASSUME NEW x, Len(x.tracks) = n
      PROVE  /\ Len(ExtractTracks(x)) = n
             /\ \A t \in 1 .. n : ExtractTracks(x)[t].codec = CodecOf(EntryOf(x, t))
  <2> DEFINE info == [t \in 1 .. n |-> TrackInfo(x.tracks[t])]
  <2>1. ExtractTracks(x) = info
      BY <1>4 DEF ExtractTracks
  <2>2. Len(info) = n /\ \A t \in 1 .. n : info[t] = TrackInfo(x.tracks[t])
      BY <1>1
  <2>3. \A track : TrackInfo(track).codec =
                      IF IsEncryptedEntry(track.entries[1].format) /\ track.entries[1].sinf.present
                      THEN track.entries[1].sinf.frma ELSE track.entries[1].format
      BY DEF TrackInfo
  <2> HIDE DEF info
  <2> QED BY <2>1, <2>2, <2>3 DEF CodecOf, EntryOf
<1>5. /\ Len(ExtractTracks(new)) = n /\ Len(ExtractTracks(init)) = n
      /\ \A t \in 1 .. n : ExtractTracks(new)[t].codec = ExtractTracks(init)[t].codec
    BY <1>1, <1>2, <1>4
<1>6. ASSUME NEW targets
      PROVE  ValidRequest(targets, ExtractTracks(new)) <=> ValidRequest(targets, ExtractTracks(init))
  <2>1. \A t \in 1 .. n : \A s \in targets :
            CodecAllows(ExtractTracks(new)[t].codec, s) <=> CodecAllows(ExtractTracks(init)[t].codec, s)
      BY <1>5
  <2> HIDE DEF n
  <2> QED BY <1>5, <2>1, Zenon DEF ValidRequest
<1> QED BY <1>3, <1>6

\* The fragment that a job keeps has the track of the one it read.
LEMMA RewrittenTrack ==
    ASSUME JobInv, Underway, Holds(source), NEW i \in 1 .. Len(source.segments),
           NEW s \in Targets, request.container # "ts", Rewritten(s, i).ok,
           HasMoofMdat(Rewritten(s, i).boxes)
    PROVE  /\ HasMoofMdat(SegmentData(i))
           /\ MoofOf(Rewritten(s, i).boxes).trafs[1].track = MoofOf(SegmentData(i)).trafs[1].track
<1> DEFINE new == ParseProtectionInfo(NewInit(s))
           params == Params(s, i)
           result == RewriteSegment(SegmentData(i), params)
<1>1. Rewritten(s, i) = result
    BY DEF Rewritten
<1>2. TargetParams(params, new) /\ SourceParams(params, SourceInfo)
    BY TargetParamsHold, SourceParamsHold
<1>3. CASE SourceInfo.present \/ new.present
  <2>1. /\ Rewrote(result.boxes, SourceInfo, new, SegmentData(i), params)
        /\ HasMoofMdat(SegmentData(i)) /\ MoofOf(result.boxes) = result.boxes[1]
      BY <1>1, <1>2, <1>3, RewriteHolds
  <2>2. MoofOf(result.boxes).trafs[1].track = MoofOf(SegmentData(i)).trafs[1].track
      BY <2>1 DEF Rewrote
  <2> QED BY <1>1, <2>1, <2>2
<1>4. CASE ~SourceInfo.present /\ ~new.present
  <2> HIDE DEF params, new
  <2>1. ~IsEncrypted(params.sourceScheme)
      BY <1>2, <1>4 DEF SourceParams, IsEncrypted
  <2>2. ~IsEncrypted(params.targetScheme)
    <3>1. IsEncrypted(params.targetScheme) \in BOOLEAN
        BY DEF IsEncrypted
    <3> QED BY <1>2, <1>4, <3>1 DEF TargetParams
  <2>3. result = OkSegment(SegmentData(i))
      BY <2>1, <2>2 DEF RewriteSegment
  <2>4. result.boxes = SegmentData(i)
      BY <2>3 DEF OkSegment
  <2> QED BY <1>1, <2>4
<1> QED BY <1>3, <1>4

\* What one stream of a segment says of the track and the samples.
LEMMA OneStream ==
    ASSUME NEW track, NEW samples, NEW streams, streams = << Stream(track, samples) >>
    PROVE  /\ IsList(streams) /\ Len(streams) = 1
           /\ streams[1].track = track /\ streams[1].samples = samples
<1> DEFINE stream == Stream(track, samples)
<1>1. stream.track = track /\ stream.samples = samples
    BY DEF Stream
<1> HIDE DEF stream
<1>2. <<stream>> \in Seq({stream}) /\ Len(<<stream>>) = 1 /\ <<stream>>[1] = stream
    OBVIOUS
<1>3. IsList(<<stream>>)
    BY <1>2, SeqIsList
<1>4. streams = <<stream>>
    BY DEF stream
<1> QED BY <1>1, <1>2, <1>3, <1>4

\* A transport stream of one stream in each segment can be muxed again.
LEMMA MuxedMuxable ==
    ASSUME NEW src, src.ts, Len(src.segments) \in Nat, NEW track \in {"video", "audio"},
           \A i \in 1 .. Len(src.segments) :
               \E streams, cipher, samples : /\ src.segments[i] = TsSegment(streams, cipher)
                                             /\ IsMuxed(streams, track, samples)
    PROVE  Muxable(src)
<1> SUFFICES ASSUME NEW i \in 1 .. Len(src.segments)
             PROVE  MoofOf(TransmuxToCmaf(src.segments[i])).trafs[1].track
                        = MuxTrack(SynthesizeInit(src.segments[1]))
    BY DEF Muxable, DataOfSource, InitOfSource
<1>1. 1 \in 1 .. Len(src.segments)
    OBVIOUS
<1>2. ASSUME NEW j \in 1 .. Len(src.segments)
      PROVE  \E samples : /\ src.segments[j][1].streams = << Stream(track, samples) >>
                          /\ AreBare(samples)
  <2>1. PICK streams, cipher, samples : src.segments[j] = TsSegment(streams, cipher)
                                        /\ IsMuxed(streams, track, samples)
      OBVIOUS
  <2>2. src.segments[j][1].streams = streams
      BY <2>1 DEF TsSegment
  <2> QED BY <2>1, <2>2 DEF IsMuxed
<1>3. MuxTrack(SynthesizeInit(src.segments[1])) = track
  <2> DEFINE streams == src.segments[1][1].streams
             tracks == [s \in 1 .. Len(streams) |->
                           [type |-> streams[s].track,
                            entries |-> << [format |-> TsFormat(streams[s].track), sinf |-> NoSinf] >>]]
  <2>1. SynthesizeInit(src.segments[1]).tracks = tracks
      BY DEF SynthesizeInit
  <2>2. PICK samples : streams = << Stream(track, samples) >>
      BY <1>1, <1>2
  <2> HIDE DEF streams
  <2>4. Len(streams) = 1 /\ streams[1].track = track
      BY <2>2, OneStream
  <2>3. Len(tracks) = 1 /\ tracks[1].type = track
      BY <2>4
  <2> HIDE DEF tracks
  <2> QED BY <2>1, <2>3 DEF MuxTrack
<1>4. MoofOf(TransmuxToCmaf(src.segments[i])).trafs[1].track = track
  <2> DEFINE segment == src.segments[i]
             streams == segment[1].streams
             clear == [s \in 1 .. Len(streams) |-> streams[s].samples]
             moofs == BoxesOf(TransmuxToCmaf(segment), "moof")
  <2>7. PICK samples : streams = << Stream(track, samples) >> /\ AreBare(samples)
      BY <1>2
  <2> HIDE DEF streams
  <2>1. /\ IsList(streams) /\ Len(streams) = 1 /\ streams[1].track = track
        /\ AreBare(streams[1].samples)
      BY <2>7, OneStream
  <2> USE DEF streams
  <2>2. TsWellFormed(segment)
      BY <2>1 DEF TsWellFormed
  <2>3. TsHolds(segment, clear)
    <3> DEFINE only == streams[1].samples
    <3>1. IsList(only) /\ \A n \in 1 .. Len(only) : IsBare(only[n])
      <4> HIDE DEF streams
      <4> QED BY <2>1 DEF AreBare
    <3>2. \A s \in 1 .. Len(streams) : s = 1
        BY <2>1
    <3>3. \A s \in 1 .. Len(streams) :
             /\ IsList(streams[s].samples)
             /\ \A n \in 1 .. Len(streams[s].samples) : IsBare(streams[s].samples[n])
        BY <3>1, <3>2, Zenon
    <3> QED BY <3>3 DEF TsHolds
  <2>4. ~NoSinf.present
      BY DEF NoSinf
  <2> HIDE DEF clear
  <2>5. Len(moofs) = 1 /\ moofs[1].trafs[1].track = track
      BY <2>1, <2>2, <2>3, <2>4, TransmuxHolds
  <2> HIDE DEF segment
  <2>6. MoofOf(TransmuxToCmaf(segment)) = moofs[1]
      BY <2>5 DEF MoofOf, Last
  <2> HIDE DEF moofs
  <2> QED BY <2>5, <2>6 DEF segment
<1> QED BY <1>3, <1>4

\* The sources are ones whose kept fragment has the track that the muxer takes,
\* if a request makes transport streams of them.
SourcesMuxable == \A src \in Sources : MuxableFor(src, Requests)

MuxInv == MuxableFor(source, Requests)

\* A job that makes transport streams has a source that the muxer can take.
LEMMA JobMuxable ==
    ASSUME MuxInv, ValidRequest(Targets, SourceTracks), request \in Requests,
           request.container = "ts"
    PROVE  Muxable(source)
<1> DEFINE tracks == SourceTracks
<1>1. tracks = ExtractTracks(InitOfSource(source))
    BY DEF SourceTracks, SourceInit
<1>2. Targets = Range(request.schemes)
    BY DEF Targets
<1> HIDE DEF tracks
<1>3. \A r \in Requests : r.container = "ts" /\ ValidRequest(Range(r.schemes), tracks)
                             => Muxable(source)
    BY <1>1, Zenon DEF MuxInv, MuxableFor
<1> QED BY <1>2, <1>3 DEF tracks

\* So has one that starts from an output.
LEMMA RepublishedMuxable ==
    ASSUME JobInv, ProcessedInv, HoldsInv, MuxInv, phase = "done", NEW s \in Targets,
           NEW src, Republished(outputs[s], src)
    PROVE  MuxableFor(src, Requests)
<1> DEFINE o == outputs[s]
<1>1. s \in DOMAIN outputs
    BY DEF JobInv, OutputsInv
<1>2. Underway /\ Processed(s) /\ ValidRequest(Targets, SourceTracks) /\ Readable
    BY <1>1 DEF ProcessedInv, Underway
<1>3. /\ src.ts = (request.container = "ts") /\ src.init = NewInit(s)
      /\ src.segments = o.segments
    BY <1>2 DEF Processed, Republished
<1>4. WellFormed(source) /\ Len(source.segments) \in Nat /\ Holds(source)
    BY DEF JobInv, SourceInv, WellFormed, IsList, HoldsInv
<1>5. /\ next \in 0 .. Len(source.segments) /\ Len(src.segments) = next
    BY <1>1, <1>3 DEF JobInv, TypeOK, OutputsInv, OutputInv, OutputFits
<1>6. ASSUME NEW i \in 1 .. Len(src.segments)
      PROVE  /\ i \in 1 .. Len(source.segments) /\ Rewritten(s, i).ok
             /\ src.segments[i] = Rewritten(s, i).boxes
  <2>1. i \in 1 .. next /\ i \in 1 .. Len(source.segments)
      BY <1>4, <1>5
  <2> QED BY <1>2, <1>3, <2>1 DEF Processed
<1> HIDE DEF o
<1>7. CASE request.container = "ts"
  <2>1. ASSUME NEW i \in 1 .. Len(src.segments)
        PROVE  \E streams, cipher, samples : /\ src.segments[i] = TsSegment(streams, cipher)
                                             /\ IsMuxed(streams, MuxTrack(SourceInit), samples)
    <3>1. PICK streams, samples : /\ Rewritten(s, i).boxes = TsSegment(streams, CipherOf(s, i))
                                  /\ IsMuxed(streams, MuxTrack(SourceInit), samples)
        BY <1>2, <1>4, <1>6, <1>7, TsOutputIs
    <3> QED BY <1>6, <3>1
  <2>2. MuxTrack(SourceInit) \in {"video", "audio"}
      BY MuxTrackFits
  <2>3. Len(src.segments) \in Nat
      BY <1>5
  <2>5. src.ts
      BY <1>3, <1>7, Zenon
  <2>4. Muxable(src)
      BY <2>1, <2>2, <2>3, <2>5, MuxedMuxable
  <2> QED BY <2>4 DEF MuxableFor
<1>8. CASE request.container # "ts"
  <2> DEFINE init == NewInit(s)
  <2>1. Len(SourceInit.tracks) \in Nat
      BY <1>2, <1>4, SourceInitFits DEF InitWellFormed, IsList
  <2>2. SameTracks(init, SourceInit)
      BY <1>2, <1>4, NewTracks
  <2> HIDE DEF init
  <2>3. /\ MuxTrack(init) = MuxTrack(SourceInit)
        /\ \A targets : ValidRequest(targets, ExtractTracks(init))
                            <=> ValidRequest(targets, SourceTracks)
      BY <2>1, <2>2, TracksMean DEF SourceTracks
  <2>4. ~src.ts /\ src.init = init
      BY <1>3, <1>8 DEF init
  <2>5. ASSUME Muxable(source)
        PROVE  Muxable(src)
    <3>1. ASSUME NEW i \in 1 .. Len(src.segments), HasMoofMdat(src.segments[i])
          PROVE  MoofOf(src.segments[i]).trafs[1].track = MuxTrack(init)
      <4>1. /\ HasMoofMdat(SegmentData(i))
            /\ MoofOf(Rewritten(s, i).boxes).trafs[1].track
                   = MoofOf(SegmentData(i)).trafs[1].track
          BY <1>2, <1>4, <1>6, <1>8, <3>1, RewrittenTrack
      <4>2. MoofOf(SegmentData(i)).trafs[1].track = MuxTrack(SourceInit)
          BY <1>6, <2>5, <4>1 DEF Muxable, SegmentData, DataOfSource, SourceInit, InitOfSource
      <4> QED BY <1>6, <2>3, <4>1, <4>2
    <3> QED BY <2>4, <3>1 DEF Muxable, DataOfSource, InitOfSource
  <2>6. \A targets : ValidRequest(targets, ExtractTracks(init))
            => ValidRequest(targets, ExtractTracks(InitOfSource(source)))
      BY <2>3 DEF SourceTracks, SourceInit, InitOfSource
  <2>7. ASSUME NEW r \in Requests, r.container = "ts",
               ValidRequest(Range(r.schemes), ExtractTracks(init))
        PROVE  Muxable(src)
    <3>1. ValidRequest(Range(r.schemes), ExtractTracks(InitOfSource(source)))
        BY <2>6, <2>7
    <3>2. Muxable(source)
        BY <2>7, <3>1 DEF MuxInv, MuxableFor
    <3> QED BY <2>5, <3>2
  <2> QED BY <2>4, <2>7 DEF MuxableFor, InitOfSource
<1> QED BY <1>7, <1>8

\* Every step keeps that the source can be muxed by the requests that may come.
LEMMA MuxStep ==
    SourcesMuxable /\ JobInv /\ ProcessedInv /\ HoldsInv /\ MuxInv /\ [Next]_vars => MuxInv'
<1> SUFFICES ASSUME SourcesMuxable, JobInv, ProcessedInv, HoldsInv, MuxInv, [Next]_vars
             PROVE  MuxInv'
    OBVIOUS
<1>1. CASE JobSteps
  <2>1. source' = source
      BY <1>1 DEF JobSteps, FetchSource, Validate, GetKeys, BuildOutputs, ProcessSegment, SegmentLost,
             Finish, ExpireKeys, vars
  <2> QED BY <2>1 DEF MuxInv
<1>2. CASE NewJob
  <2>1. source' \in Sources
      BY <1>2 DEF NewJob
  <2> QED BY <2>1 DEF MuxInv, SourcesMuxable
<1>3. CASE Republish
  <2>1. phase = "done"
      BY <1>3 DEF Republish
  <2>2. \E s \in Targets : Republished(outputs[s], source')
      BY <1>3, RepublishTakes
  <2>3. \A src : (\E s \in Targets : Republished(outputs[s], src)) => MuxableFor(src, Requests)
      BY <2>1, RepublishedMuxable
  <2>4. MuxableFor(source', Requests)
      BY <2>2, <2>3
  <2> QED BY <2>4 DEF MuxInv
<1> QED BY <1>1, <1>2, <1>3, StepKinds

\* In a state of these invariants each output gives what the job keeps of its
\* source.
LEMMA FoundInv == JobInv /\ ProcessedInv /\ HoldsInv /\ MuxInv => SamplesRecoverable
<1> SUFFICES ASSUME JobInv, ProcessedInv, HoldsInv, MuxInv, NEW s \in DOMAIN outputs,
                    NEW i \in 1 .. Len(outputs[s].segments)
             PROVE  Read(outputs[s], i) = KeptFragments(s, i)
    BY DEF SamplesRecoverable
<1>1. Underway /\ ValidRequest(Targets, SourceTracks)
      /\ outputs[s].ts = (request.container = "ts")
    BY DEF ProcessedInv, Processed, Underway
<1>2. request \in Requests
    BY DEF JobInv, SourceInv
<1>3. outputs[s].ts => Muxable(source)
    BY <1>1, <1>2, JobMuxable
<1> QED BY <1>3, OutputGives

\* Initially there are no outputs, and the source is one of those given.
LEMMA SampleInit == SourcesMuxable /\ Init => ProcessedInv /\ HoldsInv /\ MuxInv
<1> SUFFICES ASSUME SourcesMuxable, Init PROVE ProcessedInv /\ HoldsInv /\ MuxInv
    OBVIOUS
<1>1. DOMAIN outputs = {} /\ phase = "idle"
    BY DEF Init
<1>2. source \in Sources /\ original = source.clear
    BY DEF Init
<1> QED BY <1>1, <1>2, JobSourcesAssumption DEF ProcessedInv, HoldsInv, MuxInv, SourcesMuxable

\* Cut by its trun from the start of the mdat payload on (wherever data_offset
\* points) and decrypted by what its own init segment and playlist say, a segment
\* of an output gives the samples of the source that a rewrite keeps: for every
\* pair of schemes, whatever subsample maps, IVs and keys the source came with,
\* through transport streams, and over any number of jobs that each start from
\* what an earlier one published.
THEOREM SamplesAlwaysRecoverable == SourcesMuxable => (Spec => []SamplesRecoverable)
<1>1. SourcesMuxable /\ Init => JobInv /\ ProcessedInv /\ HoldsInv /\ MuxInv
    BY JobInit, SampleInit
<1>2. SourcesMuxable /\ JobInv /\ ProcessedInv /\ HoldsInv /\ MuxInv /\ [Next]_vars
          => (JobInv /\ ProcessedInv /\ HoldsInv /\ MuxInv)'
    BY JobStep, ProcessedStep, HoldsStep, MuxStep
<1>3. JobInv /\ ProcessedInv /\ HoldsInv /\ MuxInv => SamplesRecoverable
    BY FoundInv
<1> SUFFICES ASSUME SourcesMuxable PROVE Spec => []SamplesRecoverable
    OBVIOUS
<1>4. SourcesMuxable
    OBVIOUS
<1>5. Init => JobInv /\ ProcessedInv /\ HoldsInv /\ MuxInv
    BY <1>1, <1>4
<1>6. JobInv /\ ProcessedInv /\ HoldsInv /\ MuxInv /\ [Next]_vars
          => (JobInv /\ ProcessedInv /\ HoldsInv /\ MuxInv)'
    BY <1>2, <1>4
<1> QED BY <1>3, <1>5, <1>6, PTL DEF Spec

-----------------------------------------------------------------------------
(* The units of the samples that an encrypting rewrite writes *)

\* Each item of a flattened list comes from a place of one of the lists.
Comes(flat, f, ss) ==
    \A m \in 1 .. Len(flat) : \E i \in 1 .. Len(ss) : \E j \in 1 .. Len(ss[i]) :
        m = f[i - 1] + j /\ flat[m] = ss[i][j]

\* Each place of one of the lists goes to a place of the flattened one.
Goes(flat, ss) ==
    \A i \in 1 .. Len(ss) : \A j \in 1 .. Len(ss[i]) : \E m \in 1 .. Len(flat) : flat[m] = ss[i][j]

\* The items of a flattened list and where they come from.
LEMMA FlatComes ==
    ASSUME NEW ss, IsList(ss), \A i \in 1 .. Len(ss) : IsList(ss[i])
    PROVE  /\ IsList(FlattenSeq(ss)) /\ Goes(FlattenSeq(ss), ss)
           /\ \E f : Comes(FlattenSeq(ss), f, ss)
<1> DEFINE n == Len(ss)
           flat == FlattenSeq(ss)
           S == UNION {Range(ss[i]) : i \in 1 .. n}
<1>1. n \in Nat /\ ss = [i \in 1 .. n |-> ss[i]] /\ \A i \in 1 .. n : Len(ss[i]) \in Nat
    BY DEF IsList
<1>2. ss \in Seq(Seq(S))
  <2>1. ASSUME NEW i \in 1 .. n PROVE ss[i] \in Seq(S)
    <3>1. Range(ss[i]) \subseteq S
        OBVIOUS
    <3>2. ss[i] \in Seq(Range(ss[i]))
        BY DEF IsList
    <3> HIDE DEF S
    <3> QED BY <3>1, <3>2
  <2> HIDE DEF S
  <2>2. [i \in 1 .. n |-> ss[i]] \in Seq(Seq(S))
      BY <1>1, <2>1
  <2> QED BY <1>1, <2>2
<1> HIDE DEF S
<1>3. \A i \in 1 .. n : Lengths(ss)[i] = Len(ss[i])
    BY DEF Lengths
<1>4. PICK f : IsSum(f, Lengths(ss), n)
    BY <1>1, <1>3, SumExists
<1>5. FlatAt(flat, f, ss) /\ IsList(flat)
    BY <1>2, <1>4, FlattenPlaces, FlattenType, SeqIsList
<1> HIDE DEF flat
<1>6. Len(flat) = f[n] /\ \A i \in 1 .. n : \A j \in 1 .. Len(ss[i]) : flat[f[i - 1] + j] = ss[i][j]
    BY <1>5 DEF FlatAt
<1>7. ASSUME NEW m \in 1 .. Len(flat)
      PROVE  \E i \in 1 .. n : \E j \in 1 .. Len(ss[i]) : m = f[i - 1] + j /\ flat[m] = ss[i][j]
  <2>1. PICK i \in 1 .. n : m - f[i - 1] \in 1 .. Lengths(ss)[i]
      BY <1>1, <1>3, <1>4, <1>6, SumPlace
  <2> DEFINE j == m - f[i - 1]
  <2>2. f[i - 1] \in Nat
    <3>1. i - 1 \in 0 .. n
        BY <1>1
    <3> QED BY <1>4, <3>1 DEF IsSum
  <2>3. j \in 1 .. Len(ss[i])
      BY <1>3, <2>1
  <2>4. m \in Nat
      BY <1>5 DEF IsList
  <2>5. m = f[i - 1] + j
      BY <2>2, <2>4
  <2> HIDE DEF j
  <2>6. flat[m] = ss[i][j]
      BY <1>6, <2>3, <2>5
  <2> QED BY <2>3, <2>5, <2>6
<1>8. ASSUME NEW i \in 1 .. n, NEW j \in 1 .. Len(ss[i])
      PROVE  f[i - 1] + j \in 1 .. Len(flat)
  <2>1. i - 1 \in 0 .. n /\ i \in 0 .. n /\ n \in 0 .. n /\ i <= n
      BY <1>1
  <2>2. f[i - 1] \in Nat /\ f[i] \in Nat /\ f[n] \in Nat /\ f[i] = f[i - 1] + Len(ss[i])
      BY <1>3, <1>4, <2>1 DEF IsSum
  <2>3. f[i] <= f[n]
      BY <1>1, <1>3, <1>4, <2>1, SumMonotone
  <2>4. f[i - 1] + j \in 1 .. f[n]
      BY <1>1, <2>2, <2>3, PlaceWithin, Zenon
  <2> QED BY <1>6, <2>4
<1>9. Goes(flat, ss)
    BY <1>6, <1>8 DEF Goes
<1>10. Comes(flat, f, ss)
    BY <1>7 DEF Comes
<1> QED BY <1>5, <1>9, <1>10 DEF flat

\* A unit with a layer over what it was, or without one.
Sealed(unit, layer) ==
    IF layer = NoLayer THEN Layers(unit) = 0 ELSE Layers(unit) = 1 /\ unit[Len(unit)] = layer

\* A cipher puts at most one layer on a unit of a bare sample.
LEMMA SealedUnit ==
    ASSUME NEW sample, IsBare(sample), NEW p \in 1 .. Len(sample),
           NEW scheme, NEW key, NEW pattern, NEW iv, NEW map
    PROVE  Sealed(EncryptSample(scheme, key, pattern, iv, sample, map)[p],
                  Layer(scheme, key, pattern, iv, Regions(Len(sample), map), p))
<1> DEFINE layer == Layer(scheme, key, pattern, iv, Regions(Len(sample), map), p)
           a == sample[p][1]
<1>1. sample[p] = <<a>>
    BY DEF IsBare
<1>2. EncryptSample(scheme, key, pattern, iv, sample, map)[p] = AddLayer(sample[p], layer)
    BY DEF EncryptSample
<1> HIDE DEF layer, a
<1>3. CASE layer = NoLayer
  <2>1. AddLayer(<<a>>, layer) = <<a>>
      BY <1>3 DEF AddLayer
  <2>2. Layers(<<a>>) = 0
      BY DEF Layers
  <2> QED BY <1>1, <1>2, <1>3, <2>1, <2>2 DEF Sealed, layer
<1>4. CASE layer # NoLayer
  <2>1. AddLayer(<<a>>, layer) = <<a, layer>>
      BY <1>4, AppendToOne DEF AddLayer
  <2>2. Layers(<<a, layer>>) = 1 /\ Len(<<a, layer>>) = 2 /\ <<a, layer>>[2] = layer
      BY DEF Layers
  <2> DEFINE unit == <<a, layer>>
  <2>3. Layers(unit) = 1 /\ unit[Len(unit)] = layer
      BY <2>2
  <2> HIDE DEF unit
  <2>4. Sealed(unit, layer)
      BY <1>4, <2>3 DEF Sealed
  <2> QED BY <1>1, <1>2, <2>1, <2>4 DEF unit, layer
<1> QED BY <1>3, <1>4

\* The layer that a rewrite puts on unit p of sample n.
LayerAt(samples, maps, params, n, p) ==
    Layer(params.targetScheme, params.targetKey, params.targetPattern,
          GenerateIv(params.targetScheme, params.segmentNumber, n - 1),
          Regions(Len(samples[n]), maps[n]), p)

\* Each unit that is written comes from one of a sample, with its layer.
Spread(data, f, samples, maps, params) ==
    \A m \in 1 .. Len(data) : \E n \in 1 .. Len(samples) : \E p \in 1 .. Len(samples[n]) :
        m = f[n - 1] + p /\ Sealed(data[m], LayerAt(samples, maps, params, n, p))

\* Each unit of a sample is written, with its layer.
Kept(data, samples, maps, params) ==
    \A n \in 1 .. Len(samples) : \A p \in 1 .. Len(samples[n]) :
        \E m \in 1 .. Len(data) : Sealed(data[m], LayerAt(samples, maps, params, n, p))

\* The units of the data that an encrypting rewrite makes of bare samples.
LEMMA WrittenUnits ==
    ASSUME NEW samples, AreBare(samples), NEW maps, NEW params, NEW data,
           WrittenBy(data, samples, maps, params)
    PROVE  /\ IsList(data) /\ Kept(data, samples, maps, params)
           /\ \E f : Spread(data, f, samples, maps, params)
<1> DEFINE sealed(n) == EncryptSample(params.targetScheme, params.targetKey, params.targetPattern,
                            GenerateIv(params.targetScheme, params.segmentNumber, n - 1),
                            samples[n], maps[n])
           ss == [n \in 1 .. Len(samples) |-> sealed(n)]
<1>1. data = FlattenSeq(ss)
    BY DEF WrittenBy
<1>2. Len(samples) \in Nat /\ \A n \in 1 .. Len(samples) : IsBare(samples[n]) /\ IsList(samples[n])
    BY DEF AreBare, IsBare, IsList
<1>3. IsList(ss) /\ Len(ss) = Len(samples)
    BY <1>2, FunctionIsList
<1>4. \A n \in 1 .. Len(samples) : ss[n] = sealed(n)
    OBVIOUS
<1>5. ASSUME NEW n \in 1 .. Len(samples)
      PROVE  /\ IsList(ss[n]) /\ Len(ss[n]) = Len(samples[n])
             /\ \A p \in 1 .. Len(samples[n]) : Sealed(ss[n][p], LayerAt(samples, maps, params, n, p))
  <2>1. IsList(sealed(n)) /\ Len(sealed(n)) = Len(samples[n])
      BY <1>2, CipherKeepsList
  <2>2. ASSUME NEW p \in 1 .. Len(samples[n])
        PROVE  Sealed(sealed(n)[p], LayerAt(samples, maps, params, n, p))
      BY <1>2, SealedUnit DEF LayerAt
  <2> QED BY <1>4, <2>1, <2>2
<1> HIDE DEF ss
<1>6. /\ IsList(data) /\ Goes(data, ss) /\ \E f : Comes(data, f, ss)
    BY <1>1, <1>3, <1>5, FlatComes
<1>7. PICK f : Comes(data, f, ss)
    BY <1>6
<1>8. Spread(data, f, samples, maps, params)
    BY <1>3, <1>5, <1>7 DEF Comes, Spread
<1>9. Kept(data, samples, maps, params)
    BY <1>3, <1>5, <1>6 DEF Goes, Kept
<1> QED BY <1>6, <1>8, <1>9

\* The samples of the last fragment of segment i, and the maps that they are
\* encrypted with.
LastFound(i) == ReadFragment(SourceInfo, MoofOf(SegmentData(i)), MdatOf(SegmentData(i)))
LastMaps(i) ==
    LET traf == MoofOf(SegmentData(i)).trafs[1]
    IN  [n \in 1 .. Len(traf.sizes) |-> IF SourceInfo.present THEN MapsOf(traf)[n] ELSE Whole]

\* Written with the same maps a rewrite writes the same.
LEMMA WrittenWith ==
    ASSUME NEW data, NEW samples, NEW maps, NEW params, WrittenBy(data, samples, maps, params),
           NEW others, \A n \in 1 .. Len(samples) : maps[n] = others[n]
    PROVE  WrittenBy(data, samples, others, params)
<1> DEFINE sealed(n, m) == EncryptSample(params.targetScheme, params.targetKey, params.targetPattern,
                            GenerateIv(params.targetScheme, params.segmentNumber, n - 1),
                            samples[n], m)
<1>1. \A n \in 1 .. Len(samples) : sealed(n, maps[n]) = sealed(n, others[n])
    OBVIOUS
<1>2. data = FlattenSeq([n \in 1 .. Len(samples) |-> sealed(n, maps[n])])
    BY DEF WrittenBy
<1> HIDE DEF sealed
<1>3. [n \in 1 .. Len(samples) |-> sealed(n, maps[n])]
          = [n \in 1 .. Len(samples) |-> sealed(n, others[n])]
    BY <1>1
<1>4. data = FlattenSeq([n \in 1 .. Len(samples) |-> sealed(n, others[n])])
    BY <1>2, <1>3
<1> QED BY <1>4 DEF WrittenBy, sealed

\* One list flattened.
LEMMA FlattenOfOne == ASSUME NEW x, IsList(x) PROVE FlattenSeq(<<x>>) = x
<1> DEFINE S == Range(x)
<1>1. x \in Seq(S)
    BY DEF IsList
<1>2. <<>> \in Seq(Seq(S))
    OBVIOUS
<1> HIDE DEF S
<1>3. FlattenSeq(Append(<<>>, x)) = Joined(FlattenSeq(<<>>), x)
    BY <1>1, <1>2, FlattenOfAppend DEF Joined
<1> QED BY <1>1, <1>3, AppendToNone, FlattenOfEmpty, JoinedToEmpty

\* What a segment of an encrypted output that is not TS holds: the samples of
\* the last fragment of the source, each encrypted once with its IV and its map.
LEMMA SealedOutput ==
    ASSUME JobInv, ProcessedInv, HoldsInv, NEW s \in DOMAIN outputs, ~outputs[s].ts, IsEncrypted(s),
           NEW i \in 1 .. Len(outputs[s].segments)
    PROVE  /\ i \in 1 .. Len(source.segments) /\ HasMoofMdat(SegmentData(i))
           /\ AreBare(LastFound(i))
           /\ WrittenBy(SampleUnits(outputs[s], i), LastFound(i), LastMaps(i), Params(s, i))
<1> DEFINE o == outputs[s]
           new == ParseProtectionInfo(NewInit(s))
           params == Params(s, i)
           out == RewriteSegment(SegmentData(i), params).boxes
           traf == MoofOf(SegmentData(i)).trafs[1]
           found == LastFound(i)
<1>1. DOMAIN outputs = Targets /\ s \in Targets
    BY DEF JobInv, OutputsInv
<1>2. Underway /\ Processed(s)
    BY DEF ProcessedInv
<1>3. i \in 1 .. next /\ next \in 0 .. Len(source.segments)
    BY DEF JobInv, OutputsInv, OutputInv, OutputFits, TypeOK
<1>4. i \in 1 .. Len(source.segments)
  <2>1. Len(source.segments) \in Nat
      BY DEF JobInv, SourceInv, WellFormed, IsList
  <2> QED BY <1>3, <2>1
<1>5. /\ o.ts = (request.container = "ts")
      /\ Rewritten(s, i).ok /\ o.segments[i] = Rewritten(s, i).boxes
    BY <1>2, <1>3 DEF Processed
<1>6. Holds(source)
    BY DEF HoldsInv
<1>7. Rewritten(s, i) = RewriteSegment(SegmentData(i), params)
    BY <1>5 DEF Rewritten
<1>8. TargetParams(params, new)
    BY <1>1, <1>2, TargetParamsHold
<1>9. params.targetScheme = s
    BY DEF Params
<1>10. new.present
    BY <1>8, <1>9 DEF TargetParams
<1>11. /\ Rewrote(out, SourceInfo, new, SegmentData(i), params) /\ HasMoofMdat(SegmentData(i))
    BY <1>2, <1>4, <1>5, <1>6, <1>7, <1>8, <1>10, RewriteHolds
<1>12. o.segments[i] = out
    BY <1>5, <1>7
<1> HIDE DEF o, out, params, new
<1>13. /\ out = <<out[1], out[2]>> /\ out[1].type = "moof" /\ out[2].type = "mdat"
       /\ Result(new, out[1], out[2], found)
       /\ out[1].trafs[1].sizes = traf.sizes
       /\ WrittenBy(out[2].data, found, MapsOf(out[1].trafs[1]), params)
       /\ \A n \in 1 .. Len(traf.sizes) :
             MapsOf(out[1].trafs[1])[n] = IF SourceInfo.present THEN MapsOf(traf)[n] ELSE Whole
    BY <1>10, <1>11 DEF Rewrote, LastFound
<1>14. /\ Len(traf.sizes) \in Nat /\ found = [n \in 1 .. Len(traf.sizes) |-> found[n]]
       /\ \A n \in 1 .. Len(traf.sizes) : IsBare(found[n])
  <2>1. Covered(out[2].data, traf.sizes) /\ \A n \in 1 .. Len(traf.sizes) : IsBare(found[n])
      BY <1>13, FragmentParts DEF Result
  <2>2. Len(traf.sizes) \in Nat
      BY <2>1 DEF Covered, AreSizes, IsList
  <2>3. found = [n \in 1 .. Len(traf.sizes) |-> found[n]]
      BY DEF LastFound, ReadFragment
  <2> HIDE DEF found
  <2> QED BY <2>1, <2>2, <2>3
<1>15. IsList(found) /\ Len(found) = Len(traf.sizes)
    BY <1>14, FunctionIsList
<1>16. AreBare(found)
    BY <1>14, <1>15 DEF AreBare
<1>17. \A n \in 1 .. Len(found) : MapsOf(out[1].trafs[1])[n] = LastMaps(i)[n]
    BY <1>13, <1>15 DEF LastMaps
<1> HIDE DEF found
<1>18. WrittenBy(out[2].data, found, LastMaps(i), params)
    BY <1>13, <1>17, WrittenWith
<1>19. IsList(out[2].data)
    BY <1>16, <1>18, WrittenUnits
<1>20. SampleUnits(o, i) = out[2].data
  <2>1. BoxesOf(o.segments[i], "mdat") = << out[2] >>
      BY <1>12, <1>13, BoxesOfPair
  <2>2. SampleUnits(o, i) = FlattenSeq([m \in 1 .. 1 |-> << out[2] >>[m].data])
      BY <2>1 DEF SampleUnits
  <2>3. \A g : (g = [m \in 1 .. 1 |-> << out[2] >>[m].data]) => g = << out[2].data >>
      OBVIOUS
  <2>4. SampleUnits(o, i) = FlattenSeq(<< out[2].data >>)
      BY <2>2, <2>3
  <2> QED BY <1>19, <2>4, FlattenOfOne
<1> QED BY <1>4, <1>11, <1>16, <1>18, <1>20 DEF o, params, found

-----------------------------------------------------------------------------
(* Counters *)

\* The counter and the key that a layer of cenc has.
LEMMA CounterLayer ==
    ASSUME NEW samples, NEW maps, NEW params, params.targetScheme = "cenc", NEW n, NEW p,
           LayerAt(samples, maps, params, n, p) # NoLayer
    PROVE  LET regions == Regions(Len(samples[n]), maps[n])
           IN  /\ InRegion(regions, p) # {}
               /\ LayerAt(samples, maps, params, n, p)
                      = CencLayer(params.targetKey, GenerateIv("cenc", params.segmentNumber, n - 1),
                                  regions, p)
<1> DEFINE regions == Regions(Len(samples[n]), maps[n])
           layer == CencLayer(params.targetKey, GenerateIv("cenc", params.segmentNumber, n - 1),
                              regions, p)
<1>1. LayerAt(samples, maps, params, n, p) = layer
    BY DEF LayerAt, Layer
<1>2. InRegion(regions, p) = {} => layer = NoLayer
    BY DEF CencLayer
<1> HIDE DEF layer, regions
<1> QED BY <1>1, <1>2 DEF layer, regions

\* A rewrite encrypts unit p of sample n by cenc.
Hides(samples, maps, params, n, p) ==
    /\ params.targetScheme = "cenc" /\ params.segmentNumber \in Nat
    /\ n \in Nat \ {0} /\ p \in Nat /\ LayerAt(samples, maps, params, n, p) # NoLayer

\* Two units that a rewrite encrypts by cenc under one key: their layers differ
\* unless they are the same unit of the same segment.
LEMMA LayersDiffer ==
    ASSUME NEW samples1, NEW maps1, NEW params1, NEW n1, NEW p1,
           Hides(samples1, maps1, params1, n1, p1),
           NEW samples2, NEW maps2, NEW params2, NEW n2, NEW p2,
           Hides(samples2, maps2, params2, n2, p2),
           params1.targetKey = params2.targetKey,
           params1.segmentNumber = params2.segmentNumber => samples1 = samples2 /\ maps1 = maps2,
           ~ (params1.segmentNumber = params2.segmentNumber /\ n1 = n2 /\ p1 = p2)
    PROVE  LayerAt(samples1, maps1, params1, n1, p1) # LayerAt(samples2, maps2, params2, n2, p2)
<1> DEFINE k1 == params1.segmentNumber
           k2 == params2.segmentNumber
           r1 == Regions(Len(samples1[n1]), maps1[n1])
           r2 == Regions(Len(samples2[n2]), maps2[n2])
           key == params1.targetKey
<1>1. /\ InRegion(r1, p1) # {}
      /\ LayerAt(samples1, maps1, params1, n1, p1) = CencLayer(key, GenerateIv("cenc", k1, n1 - 1), r1, p1)
    BY CounterLayer DEF Hides
<1>2. /\ InRegion(r2, p2) # {}
      /\ LayerAt(samples2, maps2, params2, n2, p2) = CencLayer(key, GenerateIv("cenc", k2, n2 - 1), r2, p2)
    BY CounterLayer DEF Hides
<1>3. <<k1, n1 - 1>> = <<k2, n2 - 1>> => k1 = k2 /\ n1 = n2
    BY DEF Hides
<1>4. <<k1, n1 - 1>> = <<k2, n2 - 1>> => r1 = r2
    BY <1>3
<1>5. <<k1, n1 - 1, p1>> # <<k2, n2 - 1, p2>>
    BY DEF Hides
<1>6. /\ k1 \in Nat /\ k2 \in Nat /\ n1 - 1 \in Nat /\ n2 - 1 \in Nat
      /\ p1 \in Nat /\ p2 \in Nat
    BY DEF Hides
<1> HIDE DEF k1, k2, r1, r2, key
<1>7. CencLayer(key, GenerateIv("cenc", k1, n1 - 1), r1, p1)
          # CencLayer(key, GenerateIv("cenc", k2, n2 - 1), r2, p2)
    BY <1>1, <1>2, <1>4, <1>5, <1>6, KeystreamUsedOnce
<1> QED BY <1>1, <1>2, <1>7

\* Initially there are no outputs, and the source is one of those given.
LEMMA PlainInit == Init => ProcessedInv /\ HoldsInv
<1>1. Init => DOMAIN outputs = {} /\ phase = "idle" /\ source \in Sources /\ original = source.clear
    BY DEF Init
<1> QED BY <1>1, JobSourcesAssumption DEF ProcessedInv, HoldsInv

\* In a state of these invariants no counter is used twice under one key.
LEMMA CountersInv == JobInv /\ ProcessedInv /\ HoldsInv => CountersDistinct
<1> SUFFICES ASSUME JobInv, ProcessedInv, HoldsInv, NEW s \in DOMAIN outputs, s = "cenc", ~outputs[s].ts
             PROVE  LET all == FlattenSeq([i \in 1 .. Len(outputs[s].segments) |-> SampleUnits(outputs[s], i)])
                        at(n) == all[n][Len(all[n])]
                    IN  \A m, n \in 1 .. Len(all) :
                            m # n /\ Layers(all[m]) = 1 /\ Layers(all[n]) = 1 => at(m) # at(n)
    BY DEF CountersDistinct
<1> DEFINE o == outputs[s]
           last == Len(o.segments)
           units == [i \in 1 .. last |-> SampleUnits(o, i)]
           all == FlattenSeq(units)
           top(unit) == unit[Len(unit)]
           by(i, n, p) == LayerAt(LastFound(i), LastMaps(i), Params(s, i), n, p)
           of(i, f) == Spread(SampleUnits(o, i), f, LastFound(i), LastMaps(i), Params(s, i))
<1>1. IsEncrypted(s)
    BY DEF IsEncrypted
<1>2. ASSUME NEW i \in 1 .. last
      PROVE  IsList(SampleUnits(o, i)) /\ AreBare(LastFound(i)) /\ \E f : of(i, f)
  <2>1. /\ AreBare(LastFound(i))
        /\ WrittenBy(SampleUnits(o, i), LastFound(i), LastMaps(i), Params(s, i))
      BY <1>1, SealedOutput
  <2> QED BY <2>1, WrittenUnits
<1>3. /\ \A i : Params(s, i).targetScheme = "cenc" /\ Params(s, i).segmentNumber = i - 1
      /\ \A i, k : Params(s, i).targetKey = Params(s, k).targetKey
    BY DEF Params
<1>4. last \in Nat
    BY DEF JobInv, OutputsInv, OutputInv, OutputFits, TypeOK
<1>5. IsList(units) /\ Len(units) = last
    BY <1>4, FunctionIsList
<1>6. \A i \in 1 .. last : units[i] = SampleUnits(o, i)
    OBVIOUS
<1> HIDE DEF o, last, units
<1>7. PICK g : Comes(all, g, units)
  <2>1. \A i \in 1 .. Len(units) : IsList(units[i])
      BY <1>2, <1>5, <1>6
  <2> QED BY <1>5, <2>1, FlatComes
<1>8. ASSUME NEW m \in 1 .. Len(all)
      PROVE  \E i \in 1 .. last : \E j \in 1 .. Len(SampleUnits(o, i)) :
                 m = g[i - 1] + j /\ all[m] = SampleUnits(o, i)[j]
  <2>1. PICK i \in 1 .. Len(units) : \E j \in 1 .. Len(units[i]) :
                 m = g[i - 1] + j /\ all[m] = units[i][j]
    <3> HIDE DEF all
    <3> QED BY <1>7 DEF Comes
  <2> HIDE DEF all
  <2>2. i \in 1 .. last /\ units[i] = SampleUnits(o, i)
      BY <1>5, <1>6
  <2> QED BY <2>1, <2>2
<1> HIDE DEF all
<1>9. ASSUME NEW i \in 1 .. last, NEW f, of(i, f), NEW j \in 1 .. Len(SampleUnits(o, i)),
             Layers(SampleUnits(o, i)[j]) = 1
      PROVE  \E n \in Nat \ {0} : \E p \in Nat :
                 /\ j = f[n - 1] + p /\ by(i, n, p) # NoLayer
                 /\ top(SampleUnits(o, i)[j]) = by(i, n, p)
  <2>1. PICK n \in 1 .. Len(LastFound(i)) : \E p \in 1 .. Len(LastFound(i)[n]) :
            j = f[n - 1] + p /\ Sealed(SampleUnits(o, i)[j], by(i, n, p))
      BY <1>9 DEF Spread
  <2>2. PICK p \in 1 .. Len(LastFound(i)[n]) :
            j = f[n - 1] + p /\ Sealed(SampleUnits(o, i)[j], by(i, n, p))
      BY <2>1
  <2>3. Len(LastFound(i)) \in Nat /\ Len(LastFound(i)[n]) \in Nat
      BY <1>2 DEF AreBare, IsBare, IsList
  <2>4. n \in Nat \ {0} /\ p \in Nat
      BY <2>3
  <2> HIDE DEF by, of
  <2>5. by(i, n, p) # NoLayer /\ top(SampleUnits(o, i)[j]) = by(i, n, p)
    <3>1. Layers(SampleUnits(o, i)[j]) # 0
        BY <1>9
    <3> QED BY <2>2, <3>1 DEF Sealed
  <2> QED BY <2>2, <2>4, <2>5
<1> HIDE DEF by, top
<1>10. ASSUME NEW m \in 1 .. Len(all), NEW k \in 1 .. Len(all), m # k,
              Layers(all[m]) = 1, Layers(all[k]) = 1
       PROVE  top(all[m]) # top(all[k])
  <2>1. PICK i1 \in 1 .. last : \E j \in 1 .. Len(SampleUnits(o, i1)) :
                 m = g[i1 - 1] + j /\ all[m] = SampleUnits(o, i1)[j]
      BY <1>8
  <2>2. PICK j1 \in 1 .. Len(SampleUnits(o, i1)) :
                 m = g[i1 - 1] + j1 /\ all[m] = SampleUnits(o, i1)[j1]
      BY <2>1
  <2>3. PICK i2 \in 1 .. last : \E j \in 1 .. Len(SampleUnits(o, i2)) :
                 k = g[i2 - 1] + j /\ all[k] = SampleUnits(o, i2)[j]
      BY <1>8
  <2>4. PICK j2 \in 1 .. Len(SampleUnits(o, i2)) :
                 k = g[i2 - 1] + j2 /\ all[k] = SampleUnits(o, i2)[j2]
      BY <2>3
  <2>5. ~ (i1 = i2 /\ j1 = j2)
      BY <1>10, <2>2, <2>4
  <2>6. PICK f1 : of(i1, f1)
      BY <1>2
  <2>7. PICK f2 : of(i2, f2) /\ (i1 = i2 => f1 = f2)
    <3>1. CASE i1 = i2
        BY <2>6, <3>1
    <3>2. CASE i1 # i2
        BY <1>2, <3>2
    <3> QED BY <3>1, <3>2
  <2>8. Layers(SampleUnits(o, i1)[j1]) = 1 /\ Layers(SampleUnits(o, i2)[j2]) = 1
      BY <1>10, <2>2, <2>4
  <2> HIDE DEF of
  <2>9. \E n \in Nat \ {0} : \E p \in Nat :
                 /\ j1 = f1[n - 1] + p /\ by(i1, n, p) # NoLayer
                 /\ top(SampleUnits(o, i1)[j1]) = by(i1, n, p)
      BY <1>9, <2>6, <2>8
  <2>10. \E n \in Nat \ {0} : \E p \in Nat :
                 /\ j2 = f2[n - 1] + p /\ by(i2, n, p) # NoLayer
                 /\ top(SampleUnits(o, i2)[j2]) = by(i2, n, p)
      BY <1>9, <2>7, <2>8
  <2>11. PICK n1 \in Nat \ {0}, p1 \in Nat :
                 /\ j1 = f1[n1 - 1] + p1 /\ by(i1, n1, p1) # NoLayer
                 /\ top(SampleUnits(o, i1)[j1]) = by(i1, n1, p1)
      BY <2>9
  <2>12. PICK n2 \in Nat \ {0}, p2 \in Nat :
                 /\ j2 = f2[n2 - 1] + p2 /\ by(i2, n2, p2) # NoLayer
                 /\ top(SampleUnits(o, i2)[j2]) = by(i2, n2, p2)
      BY <2>10
  <2> DEFINE a == Params(s, i1)
             b == Params(s, i2)
  <2>13. /\ a.targetScheme = "cenc" /\ b.targetScheme = "cenc" /\ a.targetKey = b.targetKey
         /\ a.segmentNumber = i1 - 1 /\ b.segmentNumber = i2 - 1
         /\ a.segmentNumber \in Nat /\ b.segmentNumber \in Nat
      BY <1>3, <1>4
  <2>14. a.segmentNumber = b.segmentNumber => i1 = i2
      BY <1>4, <2>13
  <2>15. ~ (a.segmentNumber = b.segmentNumber /\ n1 = n2 /\ p1 = p2)
    <3>1. ~ (i1 = i2 /\ n1 = n2 /\ p1 = p2)
        BY <2>5, <2>7, <2>11, <2>12
    <3> QED BY <2>14, <3>1
  <2>16. a.segmentNumber = b.segmentNumber
             => LastFound(i1) = LastFound(i2) /\ LastMaps(i1) = LastMaps(i2)
      BY <2>14
  <2> HIDE DEF a, b
  <2>17. LayerAt(LastFound(i1), LastMaps(i1), a, n1, p1)
             # LayerAt(LastFound(i2), LastMaps(i2), b, n2, p2)
    <3>1. /\ Hides(LastFound(i1), LastMaps(i1), a, n1, p1)
          /\ Hides(LastFound(i2), LastMaps(i2), b, n2, p2)
      <4>1. /\ LayerAt(LastFound(i1), LastMaps(i1), a, n1, p1) # NoLayer
            /\ LayerAt(LastFound(i2), LastMaps(i2), b, n2, p2) # NoLayer
          BY <2>11, <2>12 DEF a, b, by
      <4> QED BY <2>11, <2>12, <2>13, <4>1 DEF Hides
    <3> QED BY <2>13, <2>15, <2>16, <3>1, LayersDiffer
  <2>18. by(i1, n1, p1) # by(i2, n2, p2)
      BY <2>17 DEF a, b, by
  <2> QED BY <2>2, <2>4, <2>11, <2>12, <2>18
<1>11. \A m, n \in 1 .. Len(all) :
           m # n /\ Layers(all[m]) = 1 /\ Layers(all[n]) = 1
               => all[m][Len(all[m])] # all[n][Len(all[n])]
    BY <1>10 DEF top
<1> QED BY <1>11 DEF all, units, last, o

\* Under one key no counter of a cenc output is used for two units, in whatever
\* number of segments and samples and with whatever subsample maps: the IVs of
\* generate_sample_iv keep the key streams of all its samples apart.
THEOREM CountersNeverReused == Spec => []CountersDistinct
<1>1. Init => JobInv /\ ProcessedInv /\ HoldsInv
    BY JobInit, PlainInit
<1>2. JobInv /\ ProcessedInv /\ HoldsInv /\ [Next]_vars => (JobInv /\ ProcessedInv /\ HoldsInv)'
    BY JobStep, ProcessedStep, HoldsStep
<1>3. JobInv /\ ProcessedInv /\ HoldsInv => CountersDistinct
    BY CountersInv
<1> QED BY <1>1, <1>2, <1>3, PTL DEF Spec

-----------------------------------------------------------------------------
(* What an output protects *)

\* Which units a cipher works on does not depend on the key or the IV.
LEMMA LayerRegardless ==
    ASSUME NEW scheme, NEW pattern, NEW regions, NEW p, NEW key1, NEW iv1, NEW key2, NEW iv2,
           Layer(scheme, key1, pattern, iv1, regions, p) # NoLayer
    PROVE  Layer(scheme, key2, pattern, iv2, regions, p) # NoLayer
<1>1. \A key, start, at : [mode |-> "ctr", key |-> key, start |-> start, at |-> at] # NoLayer
  <2>1. \A key, start, at : [mode |-> "ctr", key |-> key, start |-> start, at |-> at].mode = "ctr"
      OBVIOUS
  <2>2. NoLayer.mode = "clear"
      BY DEF NoLayer
  <2> QED BY <2>1, <2>2
<1>2. \A key, unit, chain : [mode |-> "cbc", key |-> key, unit |-> unit, chain |-> chain] # NoLayer
  <2>1. \A key, unit, chain : [mode |-> "cbc", key |-> key, unit |-> unit, chain |-> chain].mode = "cbc"
      OBVIOUS
  <2>2. NoLayer.mode = "clear"
      BY DEF NoLayer
  <2> QED BY <2>1, <2>2
<1> DEFINE inside == InRegion(regions, p)
<1>3. CASE scheme = "cbcs"
  <2> DEFINE region == regions[CHOOSE i \in inside : TRUE]
             block == (p - region.from - 1) \div BlockSize
             hit == block < (region.to - region.from) \div BlockSize /\ InPattern(pattern, block)
  <2>1. \A key, iv : Layer(scheme, key, pattern, iv, regions, p)
                         = IF inside = {} THEN NoLayer ELSE CbcsLayerAt(key, iv, pattern, region, p)
      BY <1>3 DEF Layer, CbcsLayer
  <2> HIDE DEF region, inside
  <2>2. ASSUME NEW key, NEW iv
        PROVE  CbcsLayerAt(key, iv, pattern, region, p) # NoLayer <=> hit
      BY <1>2 DEF CbcsLayerAt
  <2> HIDE DEF hit
  <2> QED BY <2>1, <2>2
<1>4. CASE scheme # "cbcs"
  <2>1. \A key, iv : Layer(scheme, key, pattern, iv, regions, p) = CencLayer(key, iv, regions, p)
      BY <1>4 DEF Layer
  <2>2. ASSUME NEW key, NEW iv
        PROVE  CencLayer(key, iv, regions, p) # NoLayer <=> inside # {}
      BY <1>1 DEF CencLayer
  <2> HIDE DEF inside
  <2> QED BY <2>1, <2>2
<1> QED BY <1>3, <1>4

\* A sample that has something to encrypt leaves a unit with a layer.
LEMMA FilledIsSealed ==
    ASSUME NEW data, NEW samples, NEW maps, NEW params, Kept(data, samples, maps, params),
           params.targetScheme \in Schemes \ {"none"},
           params.targetPattern = DefaultVideoPattern(params.targetScheme),
           NEW n \in 1 .. Len(samples), Fills(samples[n], maps[n])
    PROVE  \E m \in 1 .. Len(data) : Layers(data[m]) = 1
<1>1. PICK p \in 1 .. Len(samples[n]) :
          Layer(params.targetScheme, Unset, DefaultVideoPattern(params.targetScheme), << >>,
                Regions(Len(samples[n]), maps[n]), p) # NoLayer
    BY DEF Fills
<1>2. LayerAt(samples, maps, params, n, p) # NoLayer
    BY <1>1, LayerRegardless DEF LayerAt
<1>3. PICK m \in 1 .. Len(data) : Sealed(data[m], LayerAt(samples, maps, params, n, p))
    BY DEF Kept
<1>4. Layers(data[m]) = 1
    BY <1>2, <1>3 DEF Sealed
<1> QED BY <1>4

\* The last fragment of segment i has a sample with something to encrypt.
LEMMA LastFills ==
    ASSUME WellFormed(source), Readable, Protectable(source), NEW i \in 1 .. Len(source.segments),
           HasMoofMdat(SegmentData(i))
    PROVE  FillsSegment(SourceInfo, SegmentData(i))
<1>1. SegmentData(i) = DataOfSource(source, i)
    BY DEF SegmentData
<1>2. SourceInfo = IF source.ts THEN NoSinf ELSE ParseProtectionInfo(source.init)
  <2>1. CASE source.ts
      BY <2>1, SynthesizedIsClear
  <2>2. CASE ~source.ts
      BY <2>2 DEF SourceInfo, SourceInit, InitOfSource
  <2> QED BY <2>1, <2>2
<1> QED BY <1>1, <1>2 DEF Protectable

\* In a segment of an encrypted output no unit has two layers, and one has one.
LEMMA EncryptedOnce ==
    ASSUME JobInv, ProcessedInv, HoldsInv, Protectable(source), NEW s \in DOMAIN outputs,
           ~outputs[s].ts, IsEncrypted(s), NEW i \in 1 .. Len(outputs[s].segments)
    PROVE  LET units == SampleUnits(outputs[s], i)
           IN  /\ IsList(units) /\ \A m \in 1 .. Len(units) : Layers(units[m]) \in {0, 1}
               /\ \E m \in 1 .. Len(units) : Layers(units[m]) = 1
<1> DEFINE units == SampleUnits(outputs[s], i)
           samples == LastFound(i)
           maps == LastMaps(i)
           params == Params(s, i)
<1>1. /\ i \in 1 .. Len(source.segments) /\ HasMoofMdat(SegmentData(i))
      /\ AreBare(samples) /\ WrittenBy(units, samples, maps, params)
    BY SealedOutput
<1>2. /\ WellFormed(source) /\ Readable
    BY DEF JobInv, SourceInv, ProcessedInv, Underway
<1>3. params.targetScheme \in Schemes \ {"none"}
      /\ params.targetPattern = DefaultVideoPattern(params.targetScheme)
  <2>1. params.targetScheme = s /\ params.targetPattern = DefaultVideoPattern(s)
      BY DEF Params
  <2>2. s \in Schemes
      BY RequestsAssumption DEF JobInv, SourceInv, Targets, OutputsInv
  <2> QED BY <2>1, <2>2 DEF IsEncrypted
<1>4. FillsSegment(SourceInfo, SegmentData(i))
    BY <1>1, <1>2, LastFills
<1>5. PICK n \in 1 .. Len(samples) : Fills(samples[n], maps[n])
  <2> DEFINE traf == MoofOf(SegmentData(i)).trafs[1]
             fits(n) == /\ Fills(samples[n], Whole)
                        /\ SourceInfo.present => Fills(samples[n], traf.senc.entries[n].subsamples)
  <2>1. PICK n \in DOMAIN samples : fits(n)
      BY <1>4 DEF FillsSegment, LastFound
  <2>2. DOMAIN samples = 1 .. Len(traf.sizes) /\ DOMAIN samples = 1 .. Len(samples)
    <3>1. DOMAIN samples = 1 .. Len(traf.sizes)
        BY DEF LastFound, ReadFragment
    <3> HIDE DEF samples
    <3>2. DOMAIN samples = 1 .. Len(samples)
        BY <1>1 DEF AreBare, IsList
    <3> QED BY <3>1, <3>2
  <2>3. maps[n] = IF SourceInfo.present THEN traf.senc.entries[n].subsamples ELSE Whole
      BY <2>2 DEF LastMaps, MapsOf
  <2> HIDE DEF samples, maps
  <2> QED BY <2>1, <2>2, <2>3
<1> HIDE DEF units, samples, maps, params
<1>6. /\ IsList(units) /\ Kept(units, samples, maps, params)
      /\ \E f : Spread(units, f, samples, maps, params)
    BY <1>1, WrittenUnits
<1>7. \A m \in 1 .. Len(units) : Layers(units[m]) \in {0, 1}
    BY <1>6 DEF Spread, Sealed
<1>8. \E m \in 1 .. Len(units) : Layers(units[m]) = 1
    BY <1>3, <1>5, <1>6, FilledIsSealed
<1> QED BY <1>6, <1>7, <1>8 DEF units

\* A fragment without protection holds nothing encrypted.
LEMMA ClearUnits ==
    ASSUME NEW info, ~info.present, NEW moof, NEW mdat, FragmentWellFormed(info, moof, mdat)
    PROVE  IsList(mdat.data) /\ \A m \in 1 .. Len(mdat.data) : Layers(mdat.data[m]) = 0
<1> DEFINE traf == moof.trafs[1]
           sizes == traf.sizes
           data == mdat.data
           found == ReadFragment(info, moof, mdat)
<1>1. /\ Covered(data, sizes) /\ traf.senc = NoSenc
      /\ \A n \in 1 .. Len(sizes) : IsBare(found[n])
    BY FragmentParts
<1>2. \A n \in 1 .. Len(sizes) : found[n] = Sample(data, sizes, n)
  <2>1. ~traf.senc.present
      BY <1>1 DEF NoSenc
  <2> QED BY <2>1 DEF ReadFragment
<1> HIDE DEF found, sizes, data
<1>3. \A n \in 1 .. Len(sizes) : IsBare(Sample(data, sizes, n))
    BY <1>1, <1>2
<1>4. /\ AreSizes(sizes) /\ IsList(data) /\ SampleEnd(sizes, Len(sizes)) = Len(data)
      /\ Len(sizes) \in Nat /\ Len(data) \in Nat /\ \A n \in 1 .. Len(sizes) : sizes[n] \in Nat
    BY <1>1 DEF Covered, AreSizes, IsList
<1>5. PICK f : IsSum(f, sizes, Len(sizes))
    BY <1>4, SumExists
<1>6. \A n \in 0 .. Len(sizes) : SampleEnd(sizes, n) = f[n]
    BY <1>4, <1>5, SampleEnds
<1>7. Len(data) = f[Len(sizes)]
    BY <1>4, <1>6
<1>8. ASSUME NEW m \in 1 .. Len(data) PROVE Layers(data[m]) = 0
  <2>1. PICK n \in 1 .. Len(sizes) : f[n - 1] < m /\ m <= f[n] /\ m - f[n - 1] \in 1 .. sizes[n]
      BY <1>4, <1>5, <1>7, SumPlace
  <2>2. n \in 0 .. Len(sizes) /\ n - 1 \in 0 .. Len(sizes) /\ n <= Len(sizes)
      BY <1>4
  <2>3. f[n - 1] \in Nat /\ f[n] = f[n - 1] + sizes[n] /\ f[n] \in Nat
      BY <1>5, <2>2 DEF IsSum
  <2> DEFINE a == f[n - 1]
             k == sizes[n]
             q == m - a
             part == SubSeq(data, a + 1, a + k)
  <2>4. Sample(data, sizes, n) = part
    <3>1. SampleSize(sizes, n) = k /\ SampleEnd(sizes, n - 1) = a
        BY <1>4, <1>6, <2>2 DEF SampleSize
    <3> QED BY <3>1 DEF Sample
  <2>5. f[n] <= f[Len(sizes)]
    <3>1. Len(sizes) \in 0 .. Len(sizes)
        BY <1>4
    <3> QED BY <1>4, <1>5, <2>2, <3>1, SumMonotone
  <2>6. a \in Nat /\ k \in Nat /\ a + k <= Len(data) /\ q \in 1 .. k /\ a + q = m
    <3>1. m \in Nat
        BY <1>4
    <3> QED BY <1>4, <1>7, <2>1, <2>3, <2>5, <3>1
  <2> HIDE DEF a, k, q
  <2>7. Len(part) = k /\ \A j \in 1 .. k : part[j] = data[a + j]
      BY <1>4, <2>6, PartOfList
  <2>8. IsBare(part)
      BY <1>3, <2>4
  <2> HIDE DEF part
  <2>9. data[m] = << data[m][1] >>
      BY <2>6, <2>7, <2>8 DEF IsBare
  <2>10. \A x : Layers(<<x>>) = 0
      BY DEF Layers
  <2> QED BY <2>9, <2>10
<1> QED BY <1>4, <1>8 DEF data

\* In a segment of a clear output nothing is encrypted.
LEMMA NothingEncrypted ==
    ASSUME JobInv, ProcessedInv, HoldsInv, NEW s \in DOMAIN outputs,
           ~outputs[s].ts, ~IsEncrypted(s), NEW i \in 1 .. Len(outputs[s].segments)
    PROVE  LET units == SampleUnits(outputs[s], i)
           IN  IsList(units) /\ \A m \in 1 .. Len(units) : Layers(units[m]) = 0
<1> DEFINE o == outputs[s]
           info == ParseProtectionInfo(o.init)
           moofs == BoxesOf(o.segments[i], "moof")
           mdats == BoxesOf(o.segments[i], "mdat")
           parts == [m \in 1 .. Len(mdats) |-> mdats[m].data]
           units == SampleUnits(o, i)
<1>1. Underway /\ Processed(s) /\ s \in Targets
    BY DEF JobInv, OutputsInv, ProcessedInv
<1>2. o.init = NewInit(s)
    BY <1>1 DEF Processed
<1>3. ~info.present
  <2>1. TargetParams(Params(s, i), ParseProtectionInfo(NewInit(s)))
      BY <1>1, TargetParamsHold
  <2>2. Params(s, i).targetScheme = s
      BY DEF Params
  <2> QED BY <1>2, <2>1, <2>2 DEF TargetParams
<1>4. FragmentsWellFormed(info, o.segments[i])
    BY OutputGives DEF SegmentHolds
<1>5. /\ IsList(mdats) /\ Len(moofs) = Len(mdats)
      /\ \A m \in 1 .. Len(mdats) : FragmentWellFormed(info, moofs[m], mdats[m])
    BY <1>4 DEF FragmentsWellFormed
<1>6. units = FlattenSeq(parts)
    BY DEF SampleUnits
<1>7. Len(mdats) \in Nat
    BY <1>5 DEF IsList
<1>8. IsList(parts) /\ Len(parts) = Len(mdats)
    BY <1>7, FunctionIsList
<1>9. \A m \in 1 .. Len(mdats) : parts[m] = mdats[m].data
    OBVIOUS
<1> HIDE DEF units, parts, mdats, moofs, info, o
<1>10. \A m \in 1 .. Len(parts) : /\ IsList(parts[m])
                                  /\ \A j \in 1 .. Len(parts[m]) : Layers(parts[m][j]) = 0
    BY <1>3, <1>5, <1>8, <1>9, ClearUnits
<1>11. IsList(units) /\ \E f : Comes(units, f, parts)
    BY <1>6, <1>8, <1>10, FlatComes
<1>12. \A m \in 1 .. Len(units) : Layers(units[m]) = 0
    BY <1>10, <1>11 DEF Comes
<1> QED BY <1>11, <1>12 DEF units, o

\* A transport stream of one stream gives its samples again as CMAF.
LEMMA MuxedGives ==
    ASSUME NEW streams, NEW cipher, NEW track \in {"video", "audio"}, NEW samples,
           IsMuxed(streams, track, samples),
           HasMoofMdat(TransmuxToCmaf(TsSegment(streams, cipher)))
    PROVE  LET out == TransmuxToCmaf(TsSegment(streams, cipher))
           IN  Result(NoSinf, MoofOf(out), MdatOf(out), samples)
<1> DEFINE segment == TsSegment(streams, cipher)
           out == TransmuxToCmaf(segment)
           clear == [x \in 1 .. Len(streams) |-> streams[x].samples]
<1>1. /\ IsList(streams) /\ Len(streams) = 1 /\ streams[1].track = track
      /\ streams[1].samples = samples /\ AreBare(samples)
    BY OneStream DEF IsMuxed
<1>2. segment[1].streams = streams
    BY DEF TsSegment
<1> HIDE DEF segment, out
<1>3. \A x \in 1 .. Len(streams) : x = 1
    BY <1>1
<1>4. TsWellFormed(segment)
    BY <1>1, <1>2, <1>3 DEF TsWellFormed
<1>5. TsHolds(segment, clear)
  <2>1. \A x \in 1 .. Len(streams) :
            /\ IsList(streams[x].samples)
            /\ \A n \in 1 .. Len(streams[x].samples) : IsBare(streams[x].samples[n])
      BY <1>1, <1>3 DEF AreBare
  <2> QED BY <1>2, <2>1 DEF TsHolds
<1>6. Last(clear) = samples
  <2>1. Len(clear) = 1 /\ clear[1] = samples
      BY <1>1
  <2> HIDE DEF clear
  <2> QED BY <2>1 DEF Last
<1>7. NoSinf.present = FALSE
    BY DEF NoSinf
<1> HIDE DEF clear
<1>8. SegmentHolds(NoSinf, out, clear)
    BY <1>4, <1>5, <1>7, TransmuxHolds DEF out
<1>9. HasMoofMdat(out)
    BY DEF out, segment
<1>10. Result(NoSinf, MoofOf(out), MdatOf(out), Last(clear))
    BY <1>8, <1>9, LastFragment DEF SegmentHolds
<1> QED BY <1>6, <1>10 DEF out, segment

\* A segment that is not TS has, once rewritten, as much to encrypt as before.
LEMMA RewrittenFills ==
    ASSUME JobInv, Underway, Holds(source), NEW i \in 1 .. Len(source.segments), NEW s \in Targets,
           request.container # "ts", Rewritten(s, i).ok, HasMoofMdat(Rewritten(s, i).boxes),
           HasMoofMdat(SegmentData(i)) => FillsSegment(SourceInfo, SegmentData(i))
    PROVE  FillsSegment(ParseProtectionInfo(NewInit(s)), Rewritten(s, i).boxes)
<1> DEFINE new == ParseProtectionInfo(NewInit(s))
           params == Params(s, i)
           data == SegmentData(i)
           traf == MoofOf(data).trafs[1]
           found == ReadFragment(SourceInfo, MoofOf(data), MdatOf(data))
<1>1. WellFormed(source) /\ Readable /\ ValidRequest(Targets, SourceTracks)
    BY DEF JobInv, SourceInv, Underway
<1>2. Rewritten(s, i) = RewriteSegment(data, params)
    BY DEF Rewritten
<1>3. TargetParams(params, new) /\ SourceParams(params, SourceInfo)
    BY TargetParamsHold, SourceParamsHold
<1>4. InitWellFormed(SourceInit) /\ InitWellFormed(NewInit(s))
    BY <1>1, SourceInitFits, NewInitFits
<1>5. SourceInfo.present \in BOOLEAN /\ new.present \in BOOLEAN
    BY <1>4, InfoIsBoolean DEF SourceInfo
<1>6. CASE SourceInfo.present \/ new.present
  <2> DEFINE out == RewriteSegment(data, params).boxes
             traf2 == out[1].trafs[1]
  <2>1. RewriteSegment(data, params).ok
      BY <1>2
  <2>2. /\ Rewrote(out, SourceInfo, new, data, params) /\ HasMoofMdat(data)
        /\ MoofOf(out) = out[1] /\ MdatOf(out) = out[2]
      BY <1>3, <1>6, <2>1, RewriteHolds
  <2>3. FillsSegment(SourceInfo, data)
      BY <2>2
  <2>4. DOMAIN found = 1 .. Len(traf.sizes)
      BY DEF ReadFragment
  <2> HIDE DEF out, params, new, found
  <2>5. /\ ReadFragment(new, out[1], out[2]) = found /\ traf2.sizes = traf.sizes
        /\ new.present => \A n \in 1 .. Len(traf.sizes) :
               MapsOf(traf2)[n] = IF SourceInfo.present THEN MapsOf(traf)[n] ELSE Whole
      BY <2>2 DEF Rewrote, Result, found
  <2>6. PICK n \in DOMAIN found :
            /\ Fills(found[n], Whole)
            /\ SourceInfo.present => Fills(found[n], traf.senc.entries[n].subsamples)
      BY <2>3 DEF FillsSegment, found
  <2>7. new.present => Fills(found[n], traf2.senc.entries[n].subsamples)
    <3>1. /\ MapsOf(traf2)[n] = traf2.senc.entries[n].subsamples
          /\ MapsOf(traf)[n] = traf.senc.entries[n].subsamples
      <4>1. \A t : \A k \in 1 .. Len(t.sizes) : MapsOf(t)[k] = t.senc.entries[k].subsamples
          BY DEF MapsOf
      <4>2. n \in 1 .. Len(traf.sizes) /\ n \in 1 .. Len(traf2.sizes)
          BY <2>4, <2>5, <2>6
      <4> HIDE DEF traf, traf2
      <4> QED BY <4>1, <4>2, Zenon
    <3> QED BY <2>4, <2>5, <2>6, <3>1
  <2>8. FillsSegment(new, out)
      BY <2>2, <2>5, <2>6, <2>7 DEF FillsSegment
  <2> QED BY <1>2, <2>8 DEF out, new
<1>7. CASE ~SourceInfo.present /\ ~new.present
  <2>1. SourceInfo = NoSinf /\ new = NoSinf
      BY <1>4, <1>7, FirstSpeaks DEF SourceInfo, new
  <2>2. ~IsEncrypted(params.sourceScheme) /\ ~IsEncrypted(params.targetScheme)
      BY <1>3, <1>7 DEF SourceParams, TargetParams, IsEncrypted
  <2> HIDE DEF params, data, new
  <2>3. RewriteSegment(data, params) = OkSegment(data)
      BY <2>2 DEF RewriteSegment
  <2>4. OkSegment(data).boxes = data
      BY DEF OkSegment
  <2> QED BY <1>2, <2>1, <2>3, <2>4 DEF data, new
<1> QED BY <1>5, <1>6, <1>7

\* The sources have something to encrypt in every segment.
SourcesProtectable == \A src \in Sources : Protectable(src)

ProtectInv == Protectable(source)

\* In a state of these invariants each output is protected as its scheme asks.
LEMMA ProtectsInv == JobInv /\ ProcessedInv /\ HoldsInv /\ ProtectInv => ProtectedOnce
<1> SUFFICES ASSUME JobInv, ProcessedInv, HoldsInv, ProtectInv, NEW s \in DOMAIN outputs,
                    ~outputs[s].ts, NEW i \in 1 .. Len(outputs[s].segments)
             PROVE  LET units == Range(SampleUnits(outputs[s], i))
                    IN  /\ \A u \in units : Layers(u) <= (IF IsEncrypted(s) THEN 1 ELSE 0)
                        /\ IsEncrypted(s) => \E u \in units : Layers(u) = 1
    BY DEF ProtectedOnce
<1> DEFINE list == SampleUnits(outputs[s], i)
<1>1. CASE IsEncrypted(s)
  <2>1. /\ IsList(list) /\ \A m \in 1 .. Len(list) : Layers(list[m]) \in {0, 1}
        /\ \E m \in 1 .. Len(list) : Layers(list[m]) = 1
      BY <1>1, EncryptedOnce DEF ProtectInv
  <2> HIDE DEF list
  <2>2. Range(list) = {list[m] : m \in 1 .. Len(list)}
      BY <2>1 DEF IsList, Range
  <2>3. \A u \in Range(list) : Layers(u) \in {0, 1}
      BY <2>1, <2>2
  <2>4. \E u \in Range(list) : Layers(u) = 1
      BY <2>1, <2>2
  <2> QED BY <1>1, <2>3, <2>4 DEF list
<1>2. CASE ~IsEncrypted(s)
  <2>1. IsList(list) /\ \A m \in 1 .. Len(list) : Layers(list[m]) = 0
      BY <1>2, NothingEncrypted
  <2> HIDE DEF list
  <2>2. Range(list) = {list[m] : m \in 1 .. Len(list)}
      BY <2>1 DEF IsList, Range
  <2>3. \A u \in Range(list) : Layers(u) = 0
      BY <2>1, <2>2
  <2> QED BY <1>2, <2>3 DEF list
<1> QED BY <1>1, <1>2

\* So is one that starts from an output: what was rewritten gives the same
\* samples, with the maps they came with or with none.
LEMMA RepublishedProtectable ==
    ASSUME JobInv, ProcessedInv, HoldsInv, MuxInv, ProtectInv, phase = "done", NEW s \in Targets,
           NEW src, Republished(outputs[s], src)
    PROVE  Protectable(src)
<1> DEFINE o == outputs[s]
<1>1. s \in DOMAIN outputs
    BY DEF JobInv, OutputsInv
<1>2. Underway /\ Processed(s) /\ ValidRequest(Targets, SourceTracks) /\ Readable
    BY <1>1 DEF ProcessedInv, Underway
<1>3. /\ src.ts = (request.container = "ts") /\ src.init = NewInit(s)
      /\ src.segments = o.segments
    BY <1>2 DEF Processed, Republished
<1>4. /\ WellFormed(source) /\ Len(source.segments) \in Nat /\ Holds(source)
      /\ request \in Requests
    BY DEF JobInv, SourceInv, WellFormed, IsList, HoldsInv
<1>5. /\ next \in 0 .. Len(source.segments) /\ Len(src.segments) = next
    BY <1>1, <1>3 DEF JobInv, TypeOK, OutputsInv, OutputInv, OutputFits
<1>6. ASSUME NEW i \in 1 .. Len(src.segments)
      PROVE  /\ i \in 1 .. Len(source.segments) /\ Rewritten(s, i).ok
             /\ src.segments[i] = Rewritten(s, i).boxes
  <2>1. i \in 1 .. next /\ i \in 1 .. Len(source.segments)
      BY <1>4, <1>5
  <2> QED BY <1>2, <1>3, <2>1 DEF Processed
<1> HIDE DEF o
<1>7. ASSUME NEW i \in 1 .. Len(src.segments), HasMoofMdat(SegmentData(i))
      PROVE  /\ FillsSegment(SourceInfo, SegmentData(i))
             /\ Result(SourceInfo, MoofOf(SegmentData(i)), MdatOf(SegmentData(i)),
                       Last(source.clear[i]))
  <2>1. FillsSegment(SourceInfo, SegmentData(i))
      BY <1>2, <1>4, <1>6, <1>7, LastFills DEF ProtectInv
  <2>2. SegmentHolds(SourceInfo, SegmentData(i), source.clear[i])
      BY <1>2, <1>4, <1>6, SegmentDataHolds
  <2>3. Result(SourceInfo, MoofOf(SegmentData(i)), MdatOf(SegmentData(i)),
               Last(ReadSegment(SourceInfo, SegmentData(i))))
      BY <1>7, <2>2, LastFragment DEF SegmentHolds
  <2> QED BY <2>1, <2>2, <2>3 DEF SegmentHolds
<1>8. CASE request.container = "ts"
  <2>1. ASSUME NEW i \in 1 .. Len(src.segments), HasMoofMdat(TransmuxToCmaf(src.segments[i]))
        PROVE  FillsSegment(NoSinf, TransmuxToCmaf(src.segments[i]))
    <3> DEFINE segment == src.segments[i]
               out == TransmuxToCmaf(segment)
               samples == Last(source.clear[i])
    <3>1. Muxable(source)
        BY <1>2, <1>4, <1>8, JobMuxable
    <3>2. PICK streams : /\ segment = TsSegment(streams, CipherOf(s, i))
                         /\ IsMuxed(streams, MuxTrack(SourceInit), samples)
        BY <1>2, <1>4, <1>6, <1>8, <3>1, TsOutputIs
    <3>3. HasMoofMdat(SegmentData(i))
        BY <1>2, <1>4, <1>6, <1>8, TsOutputIs
    <3>4. FillsSegment(SourceInfo, SegmentData(i))
          /\ ReadFragment(SourceInfo, MoofOf(SegmentData(i)), MdatOf(SegmentData(i))) = samples
        BY <1>7, <3>3 DEF Result
    <3> HIDE DEF samples
    <3>5. PICK n \in DOMAIN samples : Fills(samples[n], Whole)
        BY <3>4 DEF FillsSegment
    <3>6. Result(NoSinf, MoofOf(out), MdatOf(out), samples)
        BY <2>1, <3>2, MuxTrackFits, MuxedGives
    <3>7. NoSinf.present = FALSE
        BY DEF NoSinf
    <3> QED BY <3>5, <3>6, <3>7 DEF FillsSegment, Result
  <2> QED BY <1>3, <1>8, <2>1 DEF Protectable, DataOfSource
<1>9. CASE request.container # "ts"
  <2> DEFINE new == ParseProtectionInfo(NewInit(s))
  <2>1. ASSUME NEW i \in 1 .. Len(src.segments), HasMoofMdat(src.segments[i])
        PROVE  FillsSegment(new, src.segments[i])
      BY <1>2, <1>4, <1>6, <1>7, <1>9, <2>1, RewrittenFills
  <2> HIDE DEF new
  <2>2. ParseProtectionInfo(src.init) = new /\ ~src.ts
      BY <1>3, <1>9 DEF new
  <2> QED BY <2>1, <2>2 DEF Protectable, DataOfSource
<1> QED BY <1>8, <1>9

\* Every step keeps that the source has something to encrypt in every segment.
LEMMA ProtectStep ==
    SourcesProtectable /\ JobInv /\ ProcessedInv /\ HoldsInv /\ MuxInv /\ ProtectInv /\ [Next]_vars
        => ProtectInv'
<1> SUFFICES ASSUME SourcesProtectable, JobInv, ProcessedInv, HoldsInv, MuxInv, ProtectInv, [Next]_vars
             PROVE  ProtectInv'
    OBVIOUS
<1>1. CASE JobSteps
  <2>1. source' = source
      BY <1>1 DEF JobSteps, FetchSource, Validate, GetKeys, BuildOutputs, ProcessSegment, SegmentLost,
             Finish, ExpireKeys, vars
  <2> QED BY <2>1 DEF ProtectInv
<1>2. CASE NewJob
  <2>1. source' \in Sources
      BY <1>2 DEF NewJob
  <2> QED BY <2>1 DEF ProtectInv, SourcesProtectable
<1>3. CASE Republish
  <2>1. phase = "done"
      BY <1>3 DEF Republish
  <2>2. \E s \in Targets : Republished(outputs[s], source')
      BY <1>3, RepublishTakes
  <2>3. \A src : (\E s \in Targets : Republished(outputs[s], src)) => Protectable(src)
      BY <2>1, RepublishedProtectable
  <2>4. Protectable(source')
      BY <2>2, <2>3
  <2> QED BY <2>4 DEF ProtectInv
<1> QED BY <1>1, <1>2, <1>3, StepKinds

\* No sample of an output is encrypted twice, a clear output has nothing
\* encrypted, and each segment of an encrypted one has something encrypted,
\* over any number of jobs that each start from what an earlier one published.
THEOREM SamplesProtectedOnce == SourcesMuxable /\ SourcesProtectable => (Spec => []ProtectedOnce)
<1> SUFFICES ASSUME SourcesMuxable, SourcesProtectable PROVE Spec => []ProtectedOnce
    OBVIOUS
<1> DEFINE Inv == JobInv /\ ProcessedInv /\ HoldsInv /\ MuxInv /\ ProtectInv
<1>1. Init => Inv
  <2>1. SourcesMuxable /\ Init => JobInv /\ ProcessedInv /\ HoldsInv /\ MuxInv
      BY JobInit, SampleInit
  <2>2. Init => source \in Sources
      BY DEF Init
  <2> QED BY <2>1, <2>2 DEF ProtectInv, SourcesProtectable
<1>2. Inv /\ [Next]_vars => Inv'
    BY JobStep, ProcessedStep, HoldsStep, MuxStep, ProtectStep
<1>3. Inv => ProtectedOnce
    BY ProtectsInv
<1> QED BY <1>1, <1>2, <1>3, PTL DEF Spec

=============================================================================
