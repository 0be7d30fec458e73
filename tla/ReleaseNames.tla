---------------------------- MODULE ReleaseNames ----------------------------
(***************************************************************************)
(* What the program reads off the name of a release                        *)
(* (parse_release_traits of app/media_identity.py).                        *)
(*                                                                         *)
(* A name here is the words the patterns look for, spelt in one way each,  *)
(* with its resolution, its numbers of channels in tenths, its season and  *)
(* episode (0 if there is none) and its last word.  Where several patterns *)
(* match, the first in the program's order wins.                           *)
(***************************************************************************)
EXTENDS Naturals, Sequences

\* The label of the first entry of a list whose words match.
FirstOf(list, Matches(_), otherwise) ==
    LET matching == {n \in DOMAIN list : Matches(list[n][1])}
    IN IF matching = {} THEN otherwise
       ELSE list[CHOOSE n \in matching : \A k \in matching : n <= k][2]

Sources ==
    <<<<{"remux"}, "bluray_remux">>, <<{"web-dl", "webrip", "web"}, "web">>,
      <<{"bluray", "bdrip"}, "bluray_encode">>, <<{"hdtv", "satrip"}, "hdtv">>,
      <<{"dvd", "dvdrip"}, "dvd">>, <<{"cam", "telesync"}, "cam">>>>

\* _parse_source: a source and, for any of them, the service it comes from.
ParseSource(words) ==
    LET Matches(some) == some \cap words # {} IN FirstOf(Sources, Matches, "other")

Providers ==
    <<"NF", "AMZN", "DSNP", "ATVP", "HMAX", "HULU", "PMTP", "CR", "PCOK", "IP", "MA">>

ParseProvider(words) ==
    LET named == {n \in DOMAIN Providers : Providers[n] \in words}
    IN IF named = {} THEN "" ELSE Providers[CHOOSE n \in named : \A k \in named : n <= k]

\* _parse_hdr: hdr10+ is a word that has hdr10 in it, hdr10p is not.
ParseHdr(words) ==
    LET formats == {f \in {"DV", "HDR10+", "HDR10", "HLG"} :
            CASE f = "DV" -> words \cap {"dv", "dovi"} # {}
              [] f = "HDR10+" -> words \cap {"hdr10+", "hdr10p"} # {}
              [] f = "HDR10" -> words \cap {"hdr10", "hdr", "pq10", "hdr10+"} # {}
              [] f = "HLG" -> "hlg" \in words}
    IN IF formats = {} /\ "sdr" \in words THEN {"SDR"} ELSE formats

\* _parse_audio_format.  dts-hd alone is read as DTS-HD MA, before DTS-HD HRA
\* has its turn.
AudioFormats ==
    <<<<{"truehd", "atmos"}, "TrueHD Atmos">>, <<{"dts-x"}, "DTS:X">>,
      <<{"ddp", "atmos"}, "DD+ Atmos">>, <<{"atmos"}, "Atmos">>, <<{"truehd"}, "TrueHD">>,
      <<{"dts-hd"}, "DTS-HD MA">>, <<{"flac"}, "FLAC">>, <<{"pcm"}, "PCM">>,
      <<{"dts-hd", "hra"}, "DTS-HD HRA">>, <<{"ddp"}, "DD+">>, <<{"dts-es"}, "DTS-ES">>,
      <<{"dts"}, "DTS">>, <<{"he-aac"}, "HE-AAC">>, <<{"aac"}, "AAC">>, <<{"dd"}, "DD">>,
      <<{"opus"}, "Opus">>, <<{"vorbis"}, "Vorbis">>, <<{"mp2"}, "MP2">>, <<{"mp3"}, "MP3">>>>

ParseAudioFormat(words) ==
    LET Matches(all) == all \subseteq words IN FirstOf(AudioFormats, Matches, "")

\* _parse_audio_channels: the most the name says, mono and stereo last.
ParseChannels(name) ==
    LET said == name.channels \cap {n + k : n \in {10, 20, 50, 60, 70, 90, 110}, k \in {0, 1}}
    IN IF said # {} THEN CHOOSE c \in said : \A d \in said : d <= c
       ELSE IF "mono" \in name.words THEN 10
       ELSE IF "stereo" \in name.words THEN 20
       ELSE 0

\* _parse_audio_objects.
ParseObjects(words) ==
    {o \in {"Atmos", "DTS:X"} :
        CASE o = "Atmos" -> words \cap {"atmos", "joc", "object"} # {}
          [] o = "DTS:X" -> "dts-x" \in words}

\* _parse_codec.
Codecs ==
    <<<<{"vvc", "h266"}, "VVC">>, <<{"av1"}, "AV1">>, <<{"hevc", "h265", "x265"}, "HEVC">>,
      <<{"avc", "h264", "x264"}, "AVC">>, <<{"vp9"}, "VP9">>, <<{"vp8"}, "VP8">>,
      <<{"mpeg-2"}, "MPEG-2">>, <<{"mpeg-4-visual"}, "MPEG-4 Visual">>, <<{"xvid"}, "XviD">>,
      <<{"divx"}, "DivX">>, <<{"vc-1"}, "VC-1">>>>

ParseCodec(words) ==
    LET Matches(some) == some \cap words # {} IN FirstOf(Codecs, Matches, "")

\* _parse_movie_versions: a version is named by its words, and the longer of
\* two names stands for the shorter.
Versions ==
    {"Director's Cut", "Final Cut", "Anniversary Edition", "Collector's Edition",
     "Criterion Collection", "4K Remaster", "Remastered", "Restored", "IMAX Enhanced",
     "Special Edition", "Extended", "Unrated", "Uncut", "Theatrical Cut", "Open Matte",
     "Hybrid", "IMAX", "AI Upscale", "Upscale"}

LongerName == [IMAX |-> "IMAX Enhanced", Remastered |-> "4K Remaster", Upscale |-> "AI Upscale"]

ParseVersions(words) ==
    {v \in words \cap Versions : v \in DOMAIN LongerName => LongerName[v] \notin words}

\* _parse_languages, as normalize_language_label spells them.
KnownLanguages ==
    {"multi", "dual audio", "english", "german", "french", "italian", "spanish", "japanese",
     "korean", "russian"}

ParseLanguages(words) == words \cap KnownLanguages

\* extract_release_group and _looks_like_release_group: a last word that is a
\* technical one is no group.
Technical ==
    {"web", "web-dl", "webrip", "hdtv", "bluray", "remux", "h264", "x264", "h265", "x265",
     "hevc", "avc", "hdr", "dv", "atmos", "dd", "ddp", "dts", "dts-hd", "truehd", "aac"}

ReleaseGroup(name) == IF name.last \in Technical THEN "" ELSE name.last

\* parse_release_traits.
Traits(name) ==
    LET words == name.words \cup ({name.last} \cap Technical)
    IN [title |-> name.title,
        height |-> name.height,
        scan |-> name.scan,
        source |-> ParseSource(words),
        provider |-> ParseProvider(words),
        hdr |-> ParseHdr(words),
        audio |-> ParseAudioFormat(words),
        channels |-> ParseChannels(name),
        objects |-> ParseObjects(words),
        codec |-> ParseCodec(words),
        versions |-> ParseVersions(words),
        languages |-> ParseLanguages(words),
        group |-> ReleaseGroup(name),
        season |-> name.season,
        episode |-> name.episode]
=============================================================================
