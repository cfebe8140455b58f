----------------------------- MODULE MCPackager -----------------------------
(* Small sources and requests for Packager. *)
EXTENDS Packager

\* A sample of n units, the i-th of segment s in fragment f.
Plain(s, f, i, n) == [p \in 1..n |-> << [mode |-> "plain", at |-> <<s, f, i, p>>] >>]

Pair(s, f) == << Plain(s, f, 1, 7), Plain(s, f, 2, 1) >>

ClearEntry(format) == << [format |-> format, sinf |-> NoSinf] >>
SealedEntry(format, schm, tenc) ==
    << [format |-> EncryptedType(format),
        sinf |-> [present |-> TRUE, frma |-> format, schm |-> schm, tenc |-> tenc]] >>
Track(type, entries) == [type |-> type, entries |-> entries]
InitOf(tracks) == [brands |-> {"iso6"}, pssh |-> {}, tracks |-> tracks]

Source(ts, init, segments, parts, live, clear) ==
    [ts |-> ts, init |-> init, segments |-> segments, parts |-> parts, live |-> live,
     clear |-> clear]

Splice(event, cancelled) ==
    Emsg("urn:scte:scte35:2013:bin",
         [valid |-> TRUE, command |-> "splice_insert", event |-> event, cancelled |-> cancelled,
          time |-> Given(7), duration |-> Missing])
Signal == Emsg("urn:scte:scte35:2014:xml+bin",
               [valid |-> TRUE, command |-> "time_signal", event |-> 0, cancelled |-> FALSE,
                time |-> Missing, duration |-> Missing])
OtherEmsg == Emsg("urn:other", [valid |-> TRUE, command |-> "none", event |-> 9,
                                cancelled |-> FALSE, time |-> Missing, duration |-> Missing])

\* The fragments of an encoder have the data_offset that leads to their samples.
Placed(segment) ==
    [b \in 1..Len(segment) |->
        IF segment[b].type = "moof"
        THEN [segment[b] EXCEPT !.trafs[1].dataOffset = PayloadAt(segment[b])] ELSE segment[b]]

ClearVideo ==
    Source(FALSE, InitOf(<< Track("video", ClearEntry("avc1")) >>),
           << Placed(<< Splice(3, FALSE), OtherEmsg >> \o Fragment("video", Pair(1, 1), "sync")),
              Placed(<< Signal, Splice(4, TRUE) >> \o Fragment("video", Pair(2, 1), "nonsync")) >>,
           FALSE, FALSE, << << Pair(1, 1) >>, << Pair(2, 1) >> >>)

\* A low-latency encoder's segment of two chunks.
Chunked ==
    Source(FALSE, InitOf(<< Track("video", ClearEntry("vp09")) >>),
           << Placed(Fragment("video", Pair(1, 1), "sync")
                     \o Fragment("video", Pair(1, 2), "nonsync")) >>,
           TRUE, TRUE, << << Pair(1, 1), Pair(1, 2) >> >>)

\* Encrypted by CENC, a key for each of two tracks, subsample maps.
Maps == << SubsampleMap(<< <<1, 2>>, <<1, 3>> >>), SubsampleMap(<< <<1, 0>> >>) >>
Ivs  == << <<1, 1>>, <<1, 2>> >>
TwoKeys ==
    LET entries == [i \in 1..2 |-> [iv |-> Ivs[i], subsamples |-> Maps[i]]]
        data == FlattenSeq([i \in 1..2 |->
                    EncryptSample("cenc", "v", <<0, 0>>, Ivs[i], Pair(1, 1)[i], Maps[i])])
        traf == [ClearTraf("video", Pair(1, 1), "absent") EXCEPT
                    !.senc = [present |-> TRUE, subsampled |-> TRUE, entries |-> entries],
                    !.aux = TRUE]
    IN  Source(FALSE,
               InitOf(<< Track("video", SealedEntry("hvc1", "cenc", BuildTenc("v", 2, <<0, 0>>))),
                         Track("audio", SealedEntry("mp4a", "cenc", BuildTenc("a", 2, <<0, 0>>))) >>),
               << Placed(<< Moof(<<traf>>), Mdat(data) >>) >>, FALSE, FALSE, << << Pair(1, 1) >> >>)

\* Encrypted by CBCS with a constant IV in the tenc and no pattern.
ConstantIv ==
    LET entries == [i \in 1..2 |-> [iv |-> << >>, subsamples |-> Whole]]
        data == FlattenSeq([i \in 1..2 |->
                    EncryptSample("cbcs", "a", <<0, 0>>, <<9, 9, 9, 9>>, Pair(1, 1)[i], Whole)])
        traf == [ClearTraf("audio", Pair(1, 1), "absent") EXCEPT
                    !.senc = [present |-> TRUE, subsampled |-> FALSE, entries |-> entries]]
        tenc == [BuildTenc("a", 0, <<0, 0>>) EXCEPT !.constantIv = <<9, 9, 9, 9>>]
    IN  Source(FALSE, InitOf(<< Track("audio", SealedEntry("mp4a", "cbcs", tenc)) >>),
               << Placed(<< Moof(<<traf>>), Mdat(data) >>) >>, FALSE, FALSE, << << Pair(1, 1) >> >>)

TsVideo ==
    Source(TRUE, InitOf(<< >>), << TsSegment(<< Stream("video", Pair(1, 1)) >>, NoCipher),
                                   TsSegment(<< Stream("video", Pair(2, 1)) >>, NoCipher) >>,
           FALSE, FALSE, << << Pair(1, 1) >>, << Pair(2, 1) >> >>)

Subtitles ==
    Source(FALSE, InitOf(<< Track("text", ClearEntry("wvtt")) >>),
           << Placed(Fragment("text", << Plain(1, 1, 1, 2) >>, "absent")) >>, FALSE, FALSE,
           << << << Plain(1, 1, 1, 2) >> >> >>)

\* A scheme the pipeline does not know, and a trun without sample sizes.
Unknown == [TwoKeys EXCEPT !.init.tracks[1].entries[1].sinf.schm = "cens"]
Unsized == [ClearVideo EXCEPT !.segments[2][3].trafs[1].sized = FALSE]

MCSources == {ClearVideo, Chunked, TwoKeys, ConstantIv, TsVideo, Subtitles, Unknown, Unsized}
DocTsSources == {TsVideo}

Request(schemes, container, iframes, raw, systems) ==
    [schemes |-> schemes, container |-> container, iframes |-> iframes, raw |-> raw,
     systems |-> systems]

MCRequests ==
    { Request(<<"cbcs">>, "cmaf", TRUE, << >>, {}),
      Request(<<"cenc">>, "cmaf", FALSE, << >>, {"widevine", "clearkey"}),
      Request(<<"none">>, "cmaf", TRUE, << >>, {}),
      Request(<<"cbcs", "cenc">>, "fmp4", FALSE, << >>, {"playready"}),
      Request(<<"cbcs">>, "ts", FALSE, << >>, {}),
      Request(<<"cenc", "none">>, "cmaf", FALSE, <<"c", "v">>, {}) }

MCSystems == <<"widevine", "playready">>

\* What the theorems on samples ask of the sources.
ASSUME MCSourcesMuxable == \A src \in MCSources : MuxableFor(src, MCRequests)
ASSUME MCSourcesProtectable == \A src \in MCSources : Protectable(src)

=============================================================================
