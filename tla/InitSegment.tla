---------------------------- MODULE InitSegment -----------------------------
(***************************************************************************)
(* Init segments: the four rewrites of media/init.rs, what is read out of  *)
(* an init segment (parse_protection_info, extract_tracks of               *)
(* media/codec.rs), the mapping of tracks to key ids, and the validation   *)
(* of media/compat.rs.                                                     *)
(*                                                                         *)
(* An init segment is the brands of its ftyp, the pssh boxes of its moov   *)
(* and its traks.  A trak is its handler and the sample entries of its     *)
(* stsd; an entry is its four-character code and its sinf, if it has one.  *)
(***************************************************************************)
EXTENDS SampleCipher, KeyExchange, SequencesExt

CONSTANT ContentKid     \* derive_kid_from_content_id of the request

NoKid  == "zero"        \* [0u8; 16]
ASSUME ContentKidAssumption == ContentKid # NoKid

NoTenc == [ivSize |-> 0, kid |-> NoKid, pattern |-> <<0, 0>>, constantIv |-> <<>>]
NoSinf == [present |-> FALSE, frma |-> "none", schm |-> "none", tenc |-> NoTenc]

VideoFormats == {"avc1", "avc3", "hvc1", "hev1", "vp09", "av01"}
AudioFormats == {"mp4a", "ac-3", "ec-3", "Opus", "fLaC"}
TextFormats  == {"wvtt", "stpp"}

\* encrypted_sample_entry_type.
HasEncryptedType(format) == format \in VideoFormats \union AudioFormats
EncryptedType(format) == IF format \in VideoFormats THEN "encv" ELSE "enca"
IsEncryptedEntry(format) == format \in {"encv", "enca", "enct", "encs"}

\* A sample entry as a packager writes it: of an encrypted type if it has a
\* sinf, which then names a key and the type that was there before.
SinfWellFormed(sinf) ==
    /\ sinf = [present |-> TRUE, frma |-> sinf.frma, schm |-> sinf.schm, tenc |-> sinf.tenc]
    /\ sinf.frma \in VideoFormats \union AudioFormats \union TextFormats
    /\ sinf.tenc = [ivSize |-> sinf.tenc.ivSize, kid |-> sinf.tenc.kid,
                    pattern |-> sinf.tenc.pattern, constantIv |-> sinf.tenc.constantIv]
    /\ sinf.tenc.kid # NoKid

EntryWellFormed(entry) ==
    /\ entry = [format |-> entry.format, sinf |-> entry.sinf]
    /\ \/ IsEncryptedEntry(entry.format) /\ SinfWellFormed(entry.sinf)
       \/ /\ entry.format \in VideoFormats \union AudioFormats \union TextFormats
          /\ entry.sinf = NoSinf

\* Tracks of one sample entry, which is all that TrackInfo looks at, and PSSH
\* boxes only where something is protected.
InitWellFormed(init) ==
    /\ init = [brands |-> init.brands, pssh |-> init.pssh, tracks |-> init.tracks]
    /\ IsList(init.tracks) /\ init.tracks # <<>>
    /\ \A t \in 1..Len(init.tracks) :
         /\ init.tracks[t] = [type |-> init.tracks[t].type, entries |-> << init.tracks[t].entries[1] >>]
         /\ EntryWellFormed(init.tracks[t].entries[1])
    /\ \/ init.pssh = {}
       \/ \E t \in 1..Len(init.tracks) : init.tracks[t].entries[1].sinf.present

-----------------------------------------------------------------------------
(* Reading                                                                  *)

Entries(init) == FlattenSeq([t \in 1..Len(init.tracks) |-> init.tracks[t].entries])
Sinfs(init) ==
    LET all == [e \in 1..Len(Entries(init)) |-> Entries(init)[e].sinf]
    IN  Chosen(all, {e \in 1..Len(all) : all[e].present})

\* parse_protection_info: the first sinf anywhere in the moov stands for all.
ParseProtectionInfo(init) == IF Sinfs(init) = <<>> THEN NoSinf ELSE Sinfs(init)[1]

\* from_scheme_type: a source is in a scheme the pipeline knows, or it fails.
SourceScheme(info) == IF info.present THEN info.schm ELSE "none"
SchemeKnown(info) == ~info.present \/ info.schm \in {"cbcs", "cenc"}

\* parse_trak and parse_codec_and_kid_from_mdia: the first sample entry of the
\* track, its original format and the key id of its tenc.
TrackInfo(track) ==
    LET entry == track.entries[1]
    IN  [type  |-> track.type,
         codec |-> IF IsEncryptedEntry(entry.format) /\ entry.sinf.present
                   THEN entry.sinf.frma ELSE entry.format,
         kid   |-> IF IsEncryptedEntry(entry.format) /\ entry.sinf.present
                   THEN entry.sinf.tenc.kid ELSE NoKid]

ExtractTracks(init) == [t \in 1..Len(init.tracks) |-> TrackInfo(init.tracks[t])]

-----------------------------------------------------------------------------
(* Tracks and key ids                                                       *)

\* TrackKeyMapping::from_tracks: the first key id of each type of track.
FromTracks(tracks) ==
    LET first(t) == tracks[t].kid # NoKid
                    /\ \A u \in 1..(t - 1) : tracks[u].kid = NoKid \/ tracks[u].type # tracks[t].type
        all == [t \in 1..Len(tracks) |-> [type |-> tracks[t].type, kid |-> tracks[t].kid]]
    IN  Chosen(all, {t \in 1..Len(tracks) : first(t)})

\* TrackKeyMapping::single.
SingleKid(kid) == [i \in 1..3 |-> [type |-> <<"video", "audio", "text">>[i], kid |-> kid]]

AllKids(mapping) == {mapping[i].kid : i \in 1..Len(mapping)}
KidList(mapping) ==
    LET kids == [i \in 1..Len(mapping) |-> mapping[i].kid]
    IN  Chosen(kids, {i \in 1..Len(kids) : \A j \in 1..(i - 1) : kids[j] # kids[i]})

\* kid_for_track: the entry of the type, else the first one.
KidForTrack(mapping, type) ==
    LET own == Chosen(mapping, {i \in 1..Len(mapping) : mapping[i].type = type})
    IN  IF own # <<>> THEN own[1].kid ELSE IF mapping # <<>> THEN mapping[1].kid ELSE NoKid

\* build_track_key_mapping: the key ids of the tracks, else that of the first
\* tenc, else one derived from the content id.
BuildTrackKeyMapping(tracks, info) ==
    IF FromTracks(tracks) # <<>> THEN FromTracks(tracks)
    ELSE IF info.present THEN SingleKid(info.tenc.kid)
    ELSE SingleKid(ContentKid)

PrimaryKid(mapping) == KidList(mapping)[1]

-----------------------------------------------------------------------------
(* Validation                                                               *)

\* validate_codec_scheme: its errors; its warnings are only logged.
CodecAllows(codec, target) ==
    /\ codec \in TextFormats => ~IsEncrypted(target)
    /\ codec = "vp09" => target # "cbcs"

\* validate_repackage_request.
ValidRequest(targets, tracks) ==
    targets # {} /\ \A t \in 1..Len(tracks) : \A s \in targets : CodecAllows(tracks[t].codec, s)

-----------------------------------------------------------------------------
(* Boxes that are built                                                     *)

\* compatible_brands of the container; TS has no ftyp.
Brands(container) ==
    CASE container = "cmaf"           -> {"isom", "iso6", "cmfc"}
      [] container \in {"fmp4", "iso"} -> {"isom", "iso6"}
      [] OTHER                         -> {}

\* build_tenc never writes a constant IV.
BuildTenc(kid, ivSize, pattern) ==
    [ivSize |-> ivSize, kid |-> kid, pattern |-> pattern, constantIv |-> <<>>]

\* build_sinf, with build_schm.
BuildSinf(format, target, kid) ==
    [present |-> TRUE, frma |-> format, schm |-> target,
     tenc |-> BuildTenc(kid, DefaultIvSize(target), DefaultVideoPattern(target))]

\* build_pssh_boxes: one box per system, FairPlay left out for CENC.
BuildPsshBoxes(keySet, mapping, target) ==
    LET systems == {keySet.systems[i].system : i \in 1..Len(keySet.systems)}
                   \ (IF target = "cenc" THEN {"fairplay"} ELSE {})
    IN  {[system |-> s, box |-> PsshFor(keySet, s, AllKids(mapping))] : s \in systems}

-----------------------------------------------------------------------------
(* Rewriting                                                                *)

\* Mutant: the tenc keeps the IV size and the pattern of the source.
RewriteSampleEntryKeepTenc(entry, kid, target) ==
    [entry EXCEPT !.sinf = IF @.present
                           THEN [@ EXCEPT !.schm = target, !.tenc.kid = kid] ELSE @]

\* rewrite_sample_entry and rewrite_sinf: an entry without a sinf is copied.
RewriteSampleEntry(entry, kid, target) ==
    [entry EXCEPT !.sinf = IF @.present
                           THEN [@ EXCEPT !.schm = target,
                                          !.tenc = BuildTenc(kid, DefaultIvSize(target),
                                                             DefaultVideoPattern(target))]
                           ELSE @]

\* inject_protection_stsd: a codec without an encrypted type is copied.
InjectProtection(entry, kid, target) ==
    IF HasEncryptedType(entry.format)
    THEN [format |-> EncryptedType(entry.format), sinf |-> BuildSinf(entry.format, target, kid)]
    ELSE entry

\* strip_protection_stsd and extract_frma_and_strip_sinf.
StripProtection(entry) ==
    IF IsEncryptedEntry(entry.format)
    THEN [format |-> IF entry.sinf.present THEN entry.sinf.frma ELSE entry.format, sinf |-> NoSinf]
    ELSE entry

\* rewrite_trak: the key id goes by the handler of the track.
RewriteTrak(track, mapping, target) ==
    [track EXCEPT !.entries = [e \in 1..Len(@) |->
        RewriteSampleEntry(@[e], KidForTrack(mapping, track.type), target)]]

InjectProtectionTrak(track, mapping, target) ==
    [track EXCEPT !.entries = [e \in 1..Len(@) |->
        InjectProtection(@[e], KidForTrack(mapping, track.type), target)]]

StripProtectionTrak(track) ==
    [track EXCEPT !.entries = [e \in 1..Len(@) |-> StripProtection(@[e])]]

\* rewrite_init_segment and rewrite_moov: the pssh boxes are replaced.
RewriteInitSegment(init, keySet, mapping, target, container) ==
    [brands |-> Brands(container), pssh |-> BuildPsshBoxes(keySet, mapping, target),
     tracks |-> [t \in 1..Len(init.tracks) |-> RewriteTrak(init.tracks[t], mapping, target)]]

\* create_protection_info and inject_protection_moov: pssh boxes are added.
CreateProtectionInfo(init, keySet, mapping, target, container) ==
    [brands |-> Brands(container),
     pssh   |-> init.pssh \union BuildPsshBoxes(keySet, mapping, target),
     tracks |-> [t \in 1..Len(init.tracks) |->
                    InjectProtectionTrak(init.tracks[t], mapping, target)]]

\* strip_protection_info and strip_protection_moov: pssh boxes are removed.
StripProtectionInfo(init, container) ==
    [brands |-> Brands(container), pssh |-> {},
     tracks |-> [t \in 1..Len(init.tracks) |-> StripProtectionTrak(init.tracks[t])]]

RewriteFtypOnly(init, container) == [init EXCEPT !.brands = Brands(container)]

=============================================================================
