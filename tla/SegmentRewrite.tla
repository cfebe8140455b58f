--------------------------- MODULE SegmentRewrite ---------------------------
(***************************************************************************)
(* Media segments: rewrite_segment and its four cases (media/segment.rs),  *)
(* the senc and trun boxes they read and build (media/cmaf.rs), and the    *)
(* detection of chunks (media/chunk.rs).                                   *)
(*                                                                         *)
(* A segment is the sequence of its top-level boxes.  A moof is the        *)
(* sequence of its trafs, each with the sample sizes and the data_offset   *)
(* of its trun, its senc if it has one, and whether saiz and saio come     *)
(* with it.                                                                *)
(***************************************************************************)
EXTENDS SampleCipher, SequencesExt, Lists

NoSenc == [present |-> FALSE, subsampled |-> FALSE, entries |-> <<>>]

Moof(trafs) == [type |-> "moof", trafs |-> trafs]
Mdat(data)  == [type |-> "mdat", data |-> data]

ErrSegment      == [ok |-> FALSE, boxes |-> <<>>]
OkSegment(bs)   == [ok |-> TRUE, boxes |-> bs]

\* Every moof comes with the mdat after it, and no mdat alone.
SegmentWellFormed(segment) ==
    /\ IsList(segment)
    /\ \A b \in 1..Len(segment) :
         /\ segment[b].type = "moof" => b < Len(segment) /\ segment[b + 1].type = "mdat"
         /\ segment[b].type = "mdat" => b > 1 /\ segment[b - 1].type = "moof"

BoxesOf(segment, type) == Chosen(segment, {b \in 1..Len(segment) : segment[b].type = type})

-----------------------------------------------------------------------------
(* Reading a segment                                                        *)

\* find_moof_mdat: a later moof or mdat replaces an earlier one.
HasMoofMdat(segment) == BoxesOf(segment, "moof") # <<>> /\ BoxesOf(segment, "mdat") # <<>>
MoofOf(segment) == Last(BoxesOf(segment, "moof"))
MdatOf(segment) == Last(BoxesOf(segment, "mdat"))

\* parse_moof_trun_only: of several trafs the last counts, here as in
\* parse_moof_encryption_info for its trun and for its senc.
TrunOf(moof) == Last(moof.trafs)
SencsIn(moof) == Chosen(moof.trafs, {t \in 1..Len(moof.trafs) : moof.trafs[t].senc.present})
SencOf(moof) == IF SencsIn(moof) = <<>> THEN NoSenc ELSE Last(SencsIn(moof)).senc

\* parse_senc cuts the box by the IV size of the tenc; a box written with
\* another size does not come apart into its entries.
ParsesSenc(senc, ivSize) ==
    \A i \in 1..Len(senc.entries) : Len(senc.entries[i].iv) = ivSize

\* extract_sample_sizes: "trun missing sample_size (flag 0x0200 not set)"
HasSampleSizes(traf) == traf.sized

SampleSize(sizes, i) == IF i <= Len(sizes) THEN sizes[i] ELSE 0
SampleEnd(sizes, i) ==
    LET end[n \in 0..i] == IF n = 0 THEN 0 ELSE end[n - 1] + SampleSize(sizes, n)
    IN  end[i]
Sample(data, sizes, i) ==
    SubSeq(data, SampleEnd(sizes, i - 1) + 1, SampleEnd(sizes, i - 1) + SampleSize(sizes, i))
Unsampled(data, sizes, count) == SubSeq(data, SampleEnd(sizes, count) + 1, Len(data))

\* resolve_iv: the entry's own IV, else the constant one, else an error.
ResolvedIv(entry, constantIv) == IF entry.iv # <<>> THEN entry.iv ELSE constantIv

\* pad_iv_to_16 puts a short IV at the end of the block.
PadIvTo16(iv) == [w \in 1..(4 - Len(iv)) |-> 0] \o iv

DecryptionIv(entry, params) ==
    LET iv == ResolvedIv(entry, params.constantIv)
    IN  IF params.sourceScheme = "cbcs" /\ iv # <<>> THEN PadIvTo16(iv) ELSE iv

\* extract_emsg_boxes.
ExtractEmsgBoxes(segment) == BoxesOf(segment, "emsg")

-----------------------------------------------------------------------------
(* Samples                                                                  *)

CanDecrypt(data, sizes, senc, params) ==
    \A i \in 1..Len(senc.entries) :
        /\ SampleEnd(sizes, i) <= Len(data)
        /\ CanProcess(params.sourceScheme, DecryptionIv(senc.entries[i], params),
                      Sample(data, sizes, i), senc.entries[i].subsamples)

\* The decryption loop of rewrite_encrypted_to_encrypted and _to_clear.
DecryptSamples(data, sizes, senc, params) ==
    FlattenSeq([i \in 1..Len(senc.entries) |->
        DecryptSample(params.sourceScheme, params.sourceKey, params.sourcePattern,
                      DecryptionIv(senc.entries[i], params),
                      Sample(data, sizes, i), senc.entries[i].subsamples)])
    \o Unsampled(data, sizes, Len(senc.entries))

\* The encryption loop of rewrite_encrypted_to_encrypted, with the subsample
\* maps of the source, and of rewrite_clear_to_encrypted, without any.
EncryptSamples(data, sizes, maps, params) ==
    FlattenSeq([i \in 1..Len(maps) |->
        EncryptSample(params.targetScheme, params.targetKey, params.targetPattern,
                      GenerateIv(params.targetScheme, params.segmentNumber, i - 1),
                      Sample(data, sizes, i), maps[i])])
    \o Unsampled(data, sizes, Len(maps))

NewEntries(maps, params) ==
    [i \in 1..Len(maps) |->
        [iv |-> GenerateIv(params.targetScheme, params.segmentNumber, i - 1),
         subsamples |-> maps[i]]]

\* build_senc_box: without the flag no map is written, with it an entry
\* without one gets an empty map.
BuildSenc(entries, useSubsamples) ==
    [present    |-> TRUE,
     subsampled |-> useSubsamples,
     entries    |-> [i \in 1..Len(entries) |->
        [iv |-> entries[i].iv,
         subsamples |-> IF useSubsamples THEN SubsampleMap(entries[i].subsamples.pairs)
                        ELSE Whole]]]

\* The bytes of a moof, with a tfhd, tfdt and trun as build_video_trun has them;
\* a word of an IV is four bytes.  saiz has a byte for each sample.
SencSize(senc) ==
    LET entry(i) == 4 * Len(senc.entries[i].iv)
                    + IF senc.subsampled THEN 2 + 6 * Len(senc.entries[i].subsamples.pairs) ELSE 0
    IN  IF senc.present THEN 16 + SumFunction([i \in 1..Len(senc.entries) |-> entry(i)]) ELSE 0

TrafSize(traf) ==
    64 + 12 * Len(traf.sizes) + SencSize(traf.senc) + IF traf.aux THEN 37 + Len(traf.sizes) ELSE 0

MoofSize(moof) == 24 + SumFunction([t \in 1..Len(moof.trafs) |-> TrafSize(moof.trafs[t])])

\* data_offset counts from the moof; the payload follows the header of the mdat.
PayloadAt(moof) == MoofSize(moof) + 8

-----------------------------------------------------------------------------
(* Rewriting                                                                *)

\* rebuild_moof and rebuild_traf: a senc is replaced where there is one, saiz
\* and saio are dropped.  In all three cases the trun is copied, its data_offset
\* as well, whatever becomes of the size of the moof.
RebuildTraf(traf, senc) == [traf EXCEPT !.senc = IF @.present THEN senc ELSE @, !.aux = FALSE]
RebuildMoof(moof, senc) ==
    Moof([t \in 1..Len(moof.trafs) |-> RebuildTraf(moof.trafs[t], senc)])

\* rebuild_moof_inject_senc: every traf gets the senc, nothing is dropped.
InjectSenc(traf, senc) == [traf EXCEPT !.senc = senc]
RebuildMoofInjectSenc(moof, senc) ==
    Moof([t \in 1..Len(moof.trafs) |-> InjectSenc(moof.trafs[t], senc)])

\* rebuild_moof_strip_senc.
StripSenc(traf) == [traf EXCEPT !.senc = NoSenc, !.aux = FALSE]
RebuildMoofStripSenc(moof) ==
    Moof([t \in 1..Len(moof.trafs) |-> StripSenc(moof.trafs[t])])

RewriteEncryptedToEncrypted(segment, params) ==
    LET moof  == MoofOf(segment)
        senc  == SencOf(moof)
        sizes == TrunOf(moof).sizes
        data  == MdatOf(segment).data
        maps  == [i \in 1..Len(senc.entries) |-> senc.entries[i].subsamples]
    IN  IF /\ HasMoofMdat(segment) /\ senc.present /\ HasSampleSizes(TrunOf(moof))
           /\ ParsesSenc(senc, params.sourceIvSize)
           /\ CanDecrypt(data, sizes, senc, params)
        THEN OkSegment(<< RebuildMoof(moof, BuildSenc(NewEntries(maps, params), senc.subsampled)),
                          Mdat(EncryptSamples(DecryptSamples(data, sizes, senc, params),
                                              sizes, maps, params)) >>)
        ELSE ErrSegment

RewriteClearToEncrypted(segment, params) ==
    LET moof  == MoofOf(segment)
        sizes == TrunOf(moof).sizes
        data  == MdatOf(segment).data
        maps  == [i \in 1..Len(sizes) |-> Whole]
    IN  IF /\ HasMoofMdat(segment) /\ HasSampleSizes(TrunOf(moof))
           /\ SampleEnd(sizes, Len(sizes)) <= Len(data)
        THEN OkSegment(<< RebuildMoofInjectSenc(moof, BuildSenc(NewEntries(maps, params), FALSE)),
                          Mdat(EncryptSamples(data, sizes, maps, params)) >>)
        ELSE ErrSegment

RewriteEncryptedToClear(segment, params) ==
    LET moof  == MoofOf(segment)
        senc  == SencOf(moof)
        sizes == TrunOf(moof).sizes
        data  == MdatOf(segment).data
    IN  IF /\ HasMoofMdat(segment) /\ senc.present /\ HasSampleSizes(TrunOf(moof))
           /\ ParsesSenc(senc, params.sourceIvSize)
           /\ CanDecrypt(data, sizes, senc, params)
        THEN OkSegment(<< RebuildMoofStripSenc(moof),
                          Mdat(DecryptSamples(data, sizes, senc, params)) >>)
        ELSE ErrSegment

\* Mutant: a segment for an encrypted target is taken to be clear.
RewriteSegmentAsClear(segment, params) ==
    LET source == IsEncrypted(params.sourceScheme)
    IN  IF IsEncrypted(params.targetScheme) THEN RewriteClearToEncrypted(segment, params)
        ELSE IF source THEN RewriteEncryptedToClear(segment, params) ELSE OkSegment(segment)

RewriteSegment(segment, params) ==
    LET source == IsEncrypted(params.sourceScheme)
        target == IsEncrypted(params.targetScheme)
    IN  CASE source /\ target   -> RewriteEncryptedToEncrypted(segment, params)
          [] ~source /\ target  -> RewriteClearToEncrypted(segment, params)
          [] source /\ ~target  -> RewriteEncryptedToClear(segment, params)
          [] ~source /\ ~target -> OkSegment(segment)

-----------------------------------------------------------------------------
(* What is read of a fragment, given the protection its init segment        *)
(* declares: the first sinf, as parse_protection_info reports it.  Samples  *)
(* are looked for from the start of the mdat payload on, as all readers of  *)
(* this program do (sample_offset in segment.rs, mux_to_ts): data_offset,   *)
(* by which a player finds them, is what DataOffsetsLead is about.          *)

\* Decryption of one sample by the tenc of the init segment.
ReadSample(info, entry, sample) ==
    IF Len(entry.iv) # info.tenc.ivSize THEN << <<Garbled>> >>
    ELSE DecryptSample(info.schm, info.tenc.kid, info.tenc.pattern,
                       ResolvedIv(entry, info.tenc.constantIv), sample, entry.subsamples)

ReadFragment(info, moof, mdat) ==
    LET traf == moof.trafs[1]
        raw(i) == Sample(mdat.data, traf.sizes, i)
    IN  [i \in 1..Len(traf.sizes) |->
            CASE ~info.present /\ ~traf.senc.present -> raw(i)
              [] info.present /\ traf.senc.present /\ Len(traf.senc.entries) = Len(traf.sizes) ->
                    ReadSample(info, traf.senc.entries[i], raw(i))
              [] OTHER -> << <<Garbled>> >>]

\* The samples of a segment, by fragment.
ReadSegment(info, segment) ==
    LET moofs == BoxesOf(segment, "moof")
        mdats == BoxesOf(segment, "mdat")
    IN  [f \in 1..Len(moofs) |-> ReadFragment(info, moofs[f], mdats[f])]

-----------------------------------------------------------------------------
(* Fragments as packagers write them                                        *)

\* A sample without a layer of encryption.
IsBare(sample) == IsList(sample) /\ \A p \in 1..Len(sample) : sample[p] = << sample[p][1] >>

\* An entry for each sample, with an IV of the declared size that the scheme
\* takes as it is, and a map in every entry or in none.
SencWellFormed(senc, count, info) ==
    /\ senc = [present |-> TRUE, subsampled |-> senc.subsampled, entries |-> senc.entries]
    /\ senc.subsampled \in BOOLEAN /\ IsList(senc.entries) /\ Len(senc.entries) = count
    /\ \A i \in 1..count :
        LET entry == senc.entries[i]
            iv    == ResolvedIv(entry, info.tenc.constantIv)
        IN  /\ Len(entry.iv) = info.tenc.ivSize
            /\ info.schm = "cbcs" => IsList(iv) /\ Len(iv) = 4
            /\ entry.subsamples = IF senc.subsampled THEN SubsampleMap(entry.subsamples.pairs)
                                  ELSE Whole

IsTraf(traf) ==
    traf = [track |-> traf.track, sizes |-> traf.sizes, sized |-> traf.sized, senc |-> traf.senc,
            aux |-> traf.aux, dataOffset |-> traf.dataOffset, firstFlags |-> traf.firstFlags,
            defaultFlags |-> traf.defaultFlags]

\* One track, samples that are all of the data, and protection as declared.
FragmentWellFormed(info, moof, mdat) ==
    LET traf == moof.trafs[1]
    IN  /\ moof = Moof(<<traf>>)
        /\ IsTraf(traf)
        /\ IsList(traf.sizes) /\ \A i \in 1..Len(traf.sizes) : traf.sizes[i] \in Nat
        /\ IsList(mdat.data) /\ SampleEnd(traf.sizes, Len(traf.sizes)) = Len(mdat.data)
        /\ IF info.present THEN SencWellFormed(traf.senc, Len(traf.sizes), info)
           ELSE traf.senc = NoSenc
        /\ \A i \in 1..Len(traf.sizes) : IsBare(ReadFragment(info, moof, mdat)[i])

\* A fragment for each moof.
FragmentsWellFormed(info, segment) ==
    LET moofs == BoxesOf(segment, "moof")
        mdats == BoxesOf(segment, "mdat")
    IN  /\ IsList(moofs) /\ IsList(mdats) /\ Len(moofs) = Len(mdats)
        /\ \A f \in 1..Len(moofs) : FragmentWellFormed(info, moofs[f], mdats[f])

-----------------------------------------------------------------------------
(* Chunks                                                                   *)

\* check_traf_independence: the flags of the first sample, else the default
\* ones of the tfhd, else TRUE.
IndependentTraf(traf) ==
    IF traf.firstFlags # "absent" THEN traf.firstFlags = "sync"
    ELSE traf.defaultFlags # "nonsync"

IsIndependentChunk(moof) == moof.trafs # <<>> /\ IndependentTraf(moof.trafs[1])

\* detect_chunk_boundaries: every moof with the mdat right after it.
ChunkBoundaries(segment) ==
    LET at == {i \in 1..(Len(segment) - 1) :
                  segment[i].type = "moof" /\ segment[i + 1].type = "mdat"}
        starts == Chosen([i \in 1..Len(segment) |-> i], at)
    IN  [c \in 1..Len(starts) |->
            [from |-> starts[c], to |-> starts[c] + 1,
             independent |-> IsIndependentChunk(segment[starts[c]])]]

\* Mutant: the size of a chunk is that of its moof.
ExtractChunkMoof(segment, boundary) == SubSeq(segment, boundary.from, boundary.from)

ExtractChunk(segment, boundary) == SubSeq(segment, boundary.from, boundary.to)

=============================================================================
