---------------------------- MODULE SampleCipher ----------------------------
(***************************************************************************)
(* Sample encryption: EncryptionScheme (drm/scheme.rs), the CBCS and CENC  *)
(* ciphers (drm/cbcs.rs, drm/cenc.rs) behind the traits of                 *)
(* drm/sample_cryptor.rs.                                                  *)
(*                                                                         *)
(* AES is symbolic.  A unit of a sample is the sequence of layers put on   *)
(* it: encryption adds the layer that key, counter or chaining value and   *)
(* position determine, decryption takes off that very layer or leaves      *)
(* garbage.  The sixteen bytes of a cipher block are BlockSize units; an   *)
(* IV is a tuple of 32-bit words, so that 8 and 16 bytes are 2 and 4.      *)
(***************************************************************************)
EXTENDS Naturals, Sequences, FiniteSets

CONSTANTS
    BlockSize,      \* units of a cipher block: 16 bytes in the code
    CryptBlocks,    \* default_video_pattern of CBCS: 1 in the code
    SkipBlocks      \* and 9 in the code

ASSUME BlockAssumption == BlockSize \in Nat \ {0}
ASSUME PatternAssumption == CryptBlocks \in Nat \ {0} /\ SkipBlocks \in Nat

Schemes  == {"cbcs", "cenc", "none"}
Whole    == [mapped |-> FALSE, pairs |-> <<>>]      \* no subsample map
SubsampleMap(pairs) == [mapped |-> TRUE, pairs |-> pairs]
NoLayer  == [mode |-> "clear"]
Garbled  == [mode |-> "garbled"]

IsEncrypted(scheme) == scheme # "none"

\* default_iv_size, in words.
DefaultIvSize(scheme) == CASE scheme = "cbcs" -> 4 [] scheme = "cenc" -> 2 [] OTHER -> 0

\* default_video_pattern, which the pipeline takes for every track.
DefaultVideoPattern(scheme) ==
    IF scheme = "cbcs" THEN <<CryptBlocks, SkipBlocks>> ELSE <<0, 0>>

\* Mutant: one IV for all samples of a segment.
GenerateIvPerSegment(scheme, segment, sample) ==
    IF scheme = "cbcs" THEN <<segment, 0, 0, 0>> ELSE <<segment, 0>>

\* generate_iv and generate_sample_iv.
GenerateIv(scheme, segment, sample) ==
    IF scheme = "cbcs" THEN <<segment, sample, 0, 0>> ELSE <<segment, sample>>

\* The region of the i-th subsample, after the clear bytes of the pair.
SubsampleRegion(pairs, i) ==
    LET start[j \in 1..i] ==
            pairs[j][1] + (IF j = 1 THEN 0 ELSE start[j - 1] + pairs[j - 1][2])
    IN  [from |-> start[i], to |-> start[i] + pairs[i][2]]

\* The regions of a sample that a cipher works on, in order.
Regions(size, subsamples) ==
    IF subsamples.mapped
    THEN [i \in 1..Len(subsamples.pairs) |-> SubsampleRegion(subsamples.pairs, i)]
    ELSE << [from |-> 0, to |-> size] >>

\* "subsample extends beyond sample data"
RegionsFit(size, subsamples) ==
    \A i \in 1..Len(Regions(size, subsamples)) :
        LET r == Regions(size, subsamples)[i] IN r.to = r.from \/ r.to <= size

InRegion(regions, p) == {i \in 1..Len(regions) : regions[i].from < p /\ p <= regions[i].to}

-----------------------------------------------------------------------------
(* CENC: one keystream runs through the encrypted bytes of a sample         *)

\* build_counter_block: eight bytes are the upper half of the counter.
CounterBlock(iv) == IF Len(iv) = 2 THEN iv \o <<0, 0>> ELSE iv

CencLayer(key, iv, regions, p) ==
    IF InRegion(regions, p) = {} THEN NoLayer
    ELSE [mode |-> "ctr", key |-> key, start |-> CounterBlock(iv),
          at |-> Cardinality({q \in 1..p : InRegion(regions, q) # {}})]

-----------------------------------------------------------------------------
(* CBCS: blocks of a region by the pattern, the IV anew for every run       *)

\* Blocks in a run of encrypted blocks; a pattern of 0:0 takes them all.
InPattern(pattern, b) ==
    pattern = <<0, 0>> \/ b % (pattern[1] + pattern[2]) < pattern[1]
RunPosition(pattern, b) ==
    IF pattern = <<0, 0>> THEN b ELSE b % (pattern[1] + pattern[2])

\* encrypt_pattern and decrypt_pattern at one unit of a region: the first block
\* of a run chains to the IV, the others to the block before; what is left of
\* an incomplete block stays clear.
CbcsLayerAt(key, iv, pattern, region, p) ==
    LET offset == p - region.from - 1
        block  == offset \div BlockSize
    IN  IF block < (region.to - region.from) \div BlockSize /\ InPattern(pattern, block)
        THEN [mode  |-> "cbc", key |-> key, unit |-> offset % BlockSize,
              chain |-> IF RunPosition(pattern, block) = 0 THEN iv
                        ELSE <<region.from + (block - 1) * BlockSize>>]
        ELSE NoLayer

CbcsLayer(key, iv, pattern, regions, p) ==
    LET inside == InRegion(regions, p)
    IN  IF inside = {} THEN NoLayer
        ELSE CbcsLayerAt(key, iv, pattern, regions[CHOOSE i \in inside : TRUE], p)

-----------------------------------------------------------------------------
(* create_encryptor and create_decryptor, encrypt_sample and decrypt_sample *)

IvAccepted(scheme, iv) == Len(iv) \in (IF scheme = "cbcs" THEN {4} ELSE {2, 4})

Layer(scheme, key, pattern, iv, regions, p) ==
    IF scheme = "cbcs" THEN CbcsLayer(key, iv, pattern, regions, p)
    ELSE CencLayer(key, iv, regions, p)

AddLayer(unit, layer) == IF layer = NoLayer THEN unit ELSE Append(unit, layer)

TakeLayer(unit, layer) ==
    IF layer = NoLayer THEN unit
    ELSE IF Len(unit) > 0 /\ unit[Len(unit)] = layer THEN SubSeq(unit, 1, Len(unit) - 1)
    ELSE Append(unit, Garbled)

CanProcess(scheme, iv, sample, subsamples) ==
    IvAccepted(scheme, iv) /\ RegionsFit(Len(sample), subsamples)

EncryptSample(scheme, key, pattern, iv, sample, subsamples) ==
    LET regions == Regions(Len(sample), subsamples)
    IN  [p \in 1..Len(sample) |->
            AddLayer(sample[p], Layer(scheme, key, pattern, iv, regions, p))]

DecryptSample(scheme, key, pattern, iv, sample, subsamples) ==
    LET regions == Regions(Len(sample), subsamples)
    IN  [p \in 1..Len(sample) |->
            TakeLayer(sample[p], Layer(scheme, key, pattern, iv, regions, p))]

=============================================================================
