---------------------------- MODULE MediaTracks ----------------------------
(***************************************************************************)
(* What the program reads off the tracks MediaInfo lists of one file       *)
(* (media_file_payload and what it calls in app/media_identity.py).        *)
(*                                                                         *)
(* A file has a picture and audio tracks.  Of the picture its size and     *)
(* scan, its codec, the marks of HDR found among its fields, its bit depth,*)
(* whether its primaries are BT.2020 and its transfer is PQ, and the HDR   *)
(* formats its texts name.  Of a track the format of its fields, its       *)
(* number of channels and their layout, what its title and its other       *)
(* texts name, its language and whether it is the default one.             *)
(***************************************************************************)
EXTENDS Naturals, Sequences

\* _hdr_from_mediainfo.  Static metadata is HDR10 at ten bits, and so is PQ on
\* BT.2020; texts are looked at if no field tells.
HdrOf(picture) ==
    LET deep == picture.depth >= 10
        formats == {f \in {"DV", "HDR10+", "HDR10", "HLG"} :
            CASE f = "DV" -> picture.marks \cap {"dolby vision", "dvhe", "dvh1", "bl+rpu"} # {}
              [] f = "HDR10+" -> picture.marks \cap {"hdr10+", "st 2094"} # {}
              [] f = "HDR10" -> \/ picture.marks \cap {"hdr10", "hdr10+", "st 2086"} # {}
                                \/ deep /\ "static" \in picture.marks
                                \/ deep /\ picture.wide /\ picture.pq
              [] f = "HLG" -> "hlg" \in picture.marks}
    IN IF formats = {} THEN picture.named ELSE formats

\* _channels_from_layout, in tenths: the speakers without the one for low
\* frequencies, which is a tenth.
ChannelsOfLayout(layout, count) ==
    LET speakers == IF count >= 2 THEN count ELSE layout.speakers
    IN IF layout.speakers = 0 THEN 0
       ELSE IF layout.lfe /\ speakers >= 2 THEN 10 * (speakers - 1) + 1
       ELSE 10 * layout.speakers

\* _mediainfo_channels: two channels are stereo whatever the layout says.
ChannelsOf(track) ==
    LET ofLayout == ChannelsOfLayout(track.layout, track.count)
    IN IF track.count \in {1, 2} THEN 10 * track.count
       ELSE IF ofLayout # 0 THEN ofLayout
       ELSE CASE track.count = 6 -> 51
              [] track.count = 8 -> 71
              [] OTHER -> 10 * track.count

WithAtmos ==
    [f \in {"TrueHD", "DD+"} |-> IF f = "DD+" THEN "DD+ Atmos" ELSE "TrueHD Atmos"]

\* _audio_format_from_mediainfo: the fields, then the title, then any text of
\* the file; Atmos alone says less than such a text.
AudioOf(track) ==
    LET vague == IF track.text # "" THEN track.text ELSE "Atmos"
    IN IF track.format = "Atmos" THEN vague
       ELSE IF track.format \in DOMAIN WithAtmos /\ "Atmos" \in track.title.objects
       THEN WithAtmos[track.format]
       ELSE IF track.format # "" THEN track.format
       ELSE IF track.title.audio = "Atmos" THEN vague
       ELSE IF track.title.audio # "" THEN track.title.audio
       ELSE track.text

\* _default_track, or else the first one.
Default(tracks) ==
    LET marked == {n \in DOMAIN tracks : tracks[n].default}
    IN IF marked = {} THEN tracks[1] ELSE tracks[CHOOSE n \in marked : \A m \in marked : n <= m]

\* What _media_default_audio_language takes for the language of a file: that
\* of the default track, or else of the first track that has one.
SpokenIn(tracks) ==
    LET named == {n \in DOMAIN tracks : tracks[n].language # ""}
    IN IF named = {} THEN ""
       ELSE IF Default(tracks).language # "" THEN Default(tracks).language
       ELSE tracks[CHOOSE n \in named : \A m \in named : n <= m].language

\* media_file_payload and traits_from_mediainfo: objects are those of all
\* tracks, the rest of the audio is the default track's.
FileReport(picture, tracks) ==
    LET has == Len(tracks) > 0
        default == Default(tracks)
    IN [width |-> picture.width,
        lines |-> picture.lines,
        scan |-> picture.scan,
        codec |-> picture.codec,
        hdr |-> HdrOf(picture),
        audio |-> IF has THEN AudioOf(default) ELSE "",
        channels |-> IF has THEN ChannelsOf(default) ELSE 0,
        objects |-> UNION {tracks[n].objects \cup tracks[n].title.objects : n \in DOMAIN tracks},
        language |-> IF has THEN default.language ELSE "",
        spoken |-> SpokenIn(tracks),
        english |-> \E n \in DOMAIN tracks : tracks[n].language = "english",
        titled |-> {tracks[n].title.channels : n \in DOMAIN tracks} \ {0}]
=============================================================================
