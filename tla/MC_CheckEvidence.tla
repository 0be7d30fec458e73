------------------------- MODULE MC_CheckEvidence -------------------------
(* Evidence that is ordinary but for one thing at a time.  The release is  *)
(* r1, of the group g1; other listings are of g1 by another title or of g2.*)
EXTENDS CheckEvidence, TLC

Movie ==
    [title |-> "r1", words |-> {"web-dl", "NF", "ddp", "h264"}, last |-> "g1", height |-> 1080,
     scan |-> "p", channels |-> {51}, season |-> 0, episode |-> 0]

With(name, more, less) == [name EXCEPT !.words = (@ \cup more) \ less]

HdrNames == {With(Movie, w, {}) : w \in {{"hdr"}, {"hdr10p"}, {"dv"}, {"dv", "hdr10"}}}

OtherNames ==
    {With(Movie, {"atmos"}, {}), [Movie EXCEPT !.channels = {}],
     With(Movie, {"bluray", "remux", "dts-hd"}, {"web-dl", "ddp"})}

MC_Titles ==
    {Movie, With(Movie, {}, {"NF"}), With(Movie, {}, {"web-dl"}), With(Movie, {"french"}, {}),
     [Movie EXCEPT !.season = 1, !.episode = 1], [Movie EXCEPT !.season = 1]}
        \cup HdrNames \cup OtherNames

File(base, sample) == [base |-> base, sample |-> sample]

MC_Layouts ==
    {<<File("a", FALSE)>>, <<File("a", FALSE), File("b", FALSE)>>,
     <<File("a", FALSE), File("a", FALSE)>>,
     <<File("sample", TRUE), File("a", FALSE), File("b", FALSE)>>}

Picture ==
    [width |-> 1920, lines |-> 800, scan |-> "p", codec |-> "AVC", marks |-> {}, depth |-> 8,
     wide |-> FALSE, pq |-> FALSE, named |-> {}]

NoTitle == [audio |-> "", objects |-> {}, channels |-> 0]

Track ==
    [format |-> "DD+", objects |-> {}, title |-> NoTitle, text |-> "DD+", count |-> 6,
     layout |-> [speakers |-> 6, lfe |-> TRUE], language |-> "english", default |-> TRUE]

Second(track) == [track EXCEPT !.default = FALSE]

Stereo == [Track EXCEPT !.count = 2, !.layout = [speakers |-> 2, lfe |-> FALSE]]
French == [Track EXCEPT !.language = "french"]
German == [Track EXCEPT !.language = "german"]
Unspoken == [Track EXCEPT !.language = ""]

Tracks ==
    {<<[Track EXCEPT !.title.objects = {"Atmos"}]>>, <<Track, [Second(Track) EXCEPT !.objects = {"Atmos"}]>>,
     <<[Track EXCEPT !.format = "DTS-HD MA"]>>, <<Stereo>>, <<[Stereo EXCEPT !.title.channels = 51]>>,
     <<French>>, <<French, Second(Track)>>, <<[Track EXCEPT !.language = "odd"]>>,
     <<Unspoken, Second(German)>>, <<>>}

Pictures ==
    {[Picture EXCEPT !.width = 1280, !.lines = 720], [Picture EXCEPT !.codec = "HEVC"],
     [Picture EXCEPT !.depth = 10, !.wide = TRUE, !.pq = TRUE],
     [Picture EXCEPT !.marks = {"st 2094"}], [Picture EXCEPT !.marks = {"dvhe"}],
     [Picture EXCEPT !.marks = {"dvhe", "static"}, !.depth = 10]}

MC_Ordinary == [picture |-> Picture, tracks |-> <<Track>>]

MC_Contents ==
    {MC_Ordinary} \cup {[MC_Ordinary EXCEPT !.picture = p] : p \in Pictures}
        \cup {[MC_Ordinary EXCEPT !.tracks = t] : t \in Tracks}

MC_Listings ==
    {[tracker |-> "t1", protocol |-> "torrent", name |-> n] :
        n \in {Movie, [Movie EXCEPT !.season = 1], [Movie EXCEPT !.title = "r2"]}
                 \cup OtherNames \cup HdrNames}
    \cup {[tracker |-> "t1", protocol |-> "usenet", name |-> Movie]}

Aired(aired, monitored) == [aired |-> aired, monitored |-> monitored]

MC_Seasons ==
    {<<>>, <<Aired(FALSE, TRUE)>>, <<Aired(TRUE, TRUE), Aired(FALSE, TRUE)>>,
     <<Aired(TRUE, TRUE), Aired(FALSE, FALSE)>>}

Name ==
    [placeholder |-> FALSE, doubled |-> FALSE, hyphen |-> TRUE] @@ Traits(Movie)

VideoFile(file) ==
    [file |-> file, size |-> 2, tail |-> "t1", random |-> FALSE, gap |-> FALSE, extra |-> FALSE]
        @@ Traits(Movie)

Files(b) == {VideoFile("a"), VideoFile("b"), b}

Named ==
    [item |-> Name, root |-> Name, mapped |-> Name, files |-> Files(VideoFile("c"))]

MC_Names ==
    {Named, [Named EXCEPT !.files = {VideoFile("a")}],
     [Named EXCEPT !.mapped = [Name EXCEPT !.title = "r2"]],
     [Named EXCEPT !.item = [Name EXCEPT !.placeholder = TRUE, !.title = "unpack", !.height = 0]],
     [Named EXCEPT !.root = [Name EXCEPT !.doubled = TRUE]],
     [Named EXCEPT !.root = [Name EXCEPT !.hyphen = FALSE]]}
    \cup {[Named EXCEPT !.files = Files(f)] :
            f \in {[VideoFile("c") EXCEPT !.gap = TRUE], [VideoFile("c") EXCEPT !.random = TRUE],
                   [VideoFile("c") EXCEPT !.tail = "t2"], [VideoFile("c") EXCEPT !.group = "g2"],
                   [VideoFile("c") EXCEPT !.group = "g2", !.extra = TRUE],
                   [VideoFile("c") EXCEPT !.size = 1]}}

MC_Archives == {{}, {[file |-> "a", size |-> 2]}, {[file |-> "c", size |-> 2]}}
===========================================================================
