-------------------------- MODULE MCManifestReader --------------------------
(***************************************************************************)
(* Instances of ManifestReader for TLC: outputs of this program and        *)
(* manifests of other origins.                                             *)
(***************************************************************************)
EXTENDS ManifestReader

MCOutputUrl == Url("edge", <<Plain("content"), Plain("manifest")>>, <<>>)
MCOutputDrm == [scheme |-> "cbcs", systems |-> 2]

Relative(path)      == Reference("path", "none", path, <<>>)
Signed(path, query) == Reference("path", "none", path, query)

Variant(type, prefix) ==
    [type |-> type, bandwidth |-> 2, prefixed |-> prefix # "none",
     init |-> Relative(<<Plain(prefix), Plain("init")>>),
     media |-> Relative(<<Plain(prefix), Numbered("segment", Number)>>)]
MCOutputVariants ==
    << Variant("video", "v0"), Variant("video", "v1"), Variant("audio", "none"), Variant("text", "none") >>

-----------------------------------------------------------------------------
(* Playlists *)

\* MPDs have no slash in their query: sandbox.rs would take it for one of the path.
MpdUrl    == Url("origin", <<Plain("a"), Plain("b"), Plain("mpd")>>, << "token=1" >>)
OriginUrl == Url("origin", <<Plain("a"), Plain("b"), Plain("list")>>, << "token=1", "2" >>)

Segment(reference) == << InfLine(3), UriLine(reference, FALSE) >>

\* Every kind of reference, and an EXTINF that cannot be read.
Mixed ==
    [url |-> OriginUrl, per |-> 1,
     lines |-> << Line("PLAYLIST-TYPE"), MapLine(Relative(<<Plain("init")>>)) >>
        \o Segment(Relative(<<Plain("s1")>>))
        \o Segment(Relative(<<Plain(".."), Plain("c"), Plain("."), Plain("s2")>>))
        \o Segment(Relative(<<Plain(".."), Plain(".."), Plain(".."), Plain("s3")>>))
        \o << [InfLine(1) EXCEPT !.valid = FALSE], UriLine(Relative(<<Plain("lost")>>), FALSE) >>
        \o Segment(Reference("root", "none", <<Plain("s4")>>, <<>>))
        \o Segment(Reference("protocol", "cdn", <<Plain("s5")>>, <<>>))
        \o Segment(Reference("absolute", "cdn", <<Plain("s6")>>, << "sig=c" >>))
        \o << Line("ENDLIST") >>]

\* Transport streams under AES-128, their URLs signed.
Streams ==
    [url |-> OriginUrl, per |-> 1,
     lines |-> << [tag |-> "KEY", method |-> "AES-128",
                   uri |-> SomeUrl(Relative(<<Plain("key")>>))],
                  InfLine(2), UriLine(Signed(<<Plain("t1")>>, << "sig=a", "b" >>), TRUE),
                  InfLine(2), UriLine(Signed(<<Plain("d"), Plain("t2")>>, << "sig=e" >>), TRUE) >>]

MCPlaylists == {Mixed, Streams}

-----------------------------------------------------------------------------
(* MPDs *)

NoFile(bandwidth) == [bandwidth |-> bandwidth, mime |-> "none", file |-> Missing, indexed |-> FALSE]
File(name, first, mime) ==
    [bandwidth |-> first, mime |-> mime, file |-> SomeUrl(Relative(<<Plain(name)>>)),
     indexed |-> TRUE, scale |-> 90,
     init |-> [first |-> 0, last |-> first - 1], index |-> [first |-> first, last |-> first + 9]]
Captions(name) == [NoFile(1) EXCEPT !.file = SomeUrl(Relative(<<Plain(name)>>))]

Template(name, start, scale) ==
    [initialization |-> Relative(<<Plain(name), Plain("init")>>),
     media |-> Relative(<<Plain(name), Numbered("segment", Number)>>),
     startNumber |-> start, timescale |-> scale]
Uniform(name, start, scale, duration) ==
    [initialization |-> Relative(<<Plain(name), Plain("init")>>),
     media |-> Relative(<<Plain(name), Numbered("segment", Number)>>),
     startNumber |-> start, timescale |-> scale, duration |-> duration]

TemplateSet(type, template, timeline) ==
    [type |-> type, mime |-> "none", template |-> template, timeline |-> timeline,
     reps |-> << NoFile(3), NoFile(2) >>]
FileSet(type, mime, reps) ==
    [type |-> type, mime |-> mime, template |-> NoAttributes, timeline |-> <<>>, reps |-> reps]

NoSidx == [timescale |-> 0, firstOffset |-> 0, references |-> <<>>, fileSize |-> 0]
Mpd(live, total, base, sets, sidx) ==
    [url |-> MpdUrl, live |-> live, total |-> total, base |-> base, sets |-> sets, sidx |-> sidx]

Timeline == << [d |-> 6, r |-> 2], [d |-> 4], [t |-> 22, d |-> 5, r |-> 1] >>
Cdn == SomeUrl(Reference("absolute", "cdn", <<Plain("x"), Plain("empty")>>, <<>>))

MCMpds ==
    {Mpd(TRUE, 0, Missing,
         << TemplateSet("audio", Template("a", 7, 48), << [d |-> 9] >>),
            TemplateSet("video", Template("v", 3, 10), Timeline),
            TemplateSet("video", Template("w", 1, 5), << [d |-> 1] >>),
            TemplateSet("text", Template("t", 1, 1), << [d |-> 3] >>) >>, NoSidx),
     Mpd(FALSE, 7, Cdn,
         << TemplateSet("audio", Uniform("a", 1, 1, 3), <<>>),
            TemplateSet("video", Uniform("v", 1, 2, 4), <<>>) >>, NoSidx),
     Mpd(FALSE, 0, Missing, << TemplateSet("audio", Template("a", 0, 48), Timeline) >>, NoSidx),
     Mpd(FALSE, 9, Missing,
         << FileSet("audio", "audio/webm", << File("o", 5, "none") >>),
            FileSet("audio", "audio/mp4", << File("a", 5, "none") >>),
            FileSet("video", "none", << File("v", 8, "none"), File("n", 7, "video/webm"), File("w", 6, "video/mp4") >>),
            FileSet("text", "text/vtt", << Captions("c") >>) >>,
         [timescale |-> 10, firstOffset |-> 2, fileSize |-> 32,
          references |-> << [nested |-> FALSE, size |-> 5, duration |-> 10],
                            [nested |-> FALSE, size |-> 1, duration |-> 3],
                            [nested |-> FALSE, size |-> 6, duration |-> 10] >>])}

-----------------------------------------------------------------------------
(* Master playlists and the sandbox's output *)

\* Audio that is in the video comes first, captions have no URI, and a URI is
\* left over.
MCMasters ==
    LET low  == Relative(<<Plain("low")>>)
        high == Relative(<<Plain(".."), Plain("high")>>)
    IN  {[url |-> OriginUrl,
          lines |-> << MediaLine("AUDIO", Missing), MediaLine("AUDIO", SomeUrl(Relative(<<Plain("sound")>>))),
                       MediaLine("CLOSED-CAPTIONS", Missing), StreamLine(2), UriLine(high, FALSE),
                       UriLine(Relative(<<Plain("left")>>), FALSE), StreamLine(1),
                       MediaLine("SUBTITLES", SomeUrl(Reference("root", "none", <<Plain("words")>>, <<>>))),
                       UriLine(low, FALSE) >>]}

\* The second variant has failed.
MCReady == << [index |-> 0, bandwidth |-> 3], [index |-> 2, bandwidth |-> 5] >>

ASSUME ReadableAssumption ==
    MsDurations /\ OneTemplate /\ ReadableMpds /\ ReadablePlaylists /\ ReadableMasters /\ SeparableMpds

=============================================================================
