--------------------------- MODULE MediaEvidence ---------------------------
(***************************************************************************)
(* What MediaInfo says about the files of a release, compared with what    *)
(* its title claims: app/media_identity.py for one provider of MediaInfo,  *)
(* app/media_policy.py for two of them, QUI and the program's own look at  *)
(* the files, and app/service.py for the language Sonarr or Radarr knows.  *)
(*                                                                         *)
(* A title has the traits of Releases with its audio objects, declared     *)
(* languages and source provider.  A report is about one file; "" and 0    *)
(* are what MediaInfo does not tell.  QUI reports on the first files, in   *)
(* their order; local is a function on those the program could read.       *)
(* Only errors are modelled: warnings change no decision.                  *)
(***************************************************************************)
EXTENDS Releases

\* _resolution_from_dimensions: the first class the picture is large enough
\* for, by its width or its lines.
Classes ==
    <<<<7000, 4000, 4320>>, <<3000, 1500, 2160>>, <<2200, 1100, 1440>>, <<1600, 760, 1080>>,
      <<1100, 600, 720>>>>

Height(report) ==
    LET fits == {n \in DOMAIN Classes : \/ report.width >= Classes[n][1]
                                        \/ report.lines >= Classes[n][2]}
    IN IF fits # {}
       THEN Classes[CHOOSE n \in fits : \A m \in fits : n <= m][3]
       ELSE CASE report.lines >= 540 -> 576
              [] report.lines \in 450 .. 539 -> 480
              [] report.lines \in 330 .. 449 -> 360
              [] report.lines \in 200 .. 329 -> 240
              [] OTHER -> report.lines

Resolution(report) == IF Height(report) = 0 THEN <<>> ELSE <<Height(report), report.scan>>

\* _resolution_matches: a picture that was cropped may be of a lower class.
ExpectedWidth ==
    [h \in {2160, 1440, 1080, 720, 576, 480} |->
        CASE h = 2160 -> 3840 [] h = 1440 -> 2560 [] h = 1080 -> 1920 [] h = 720 -> 1280 [] OTHER -> 720]

ResolutionMatches(title, report) ==
    \/ title.height = 0 \/ Height(report) = 0
    \/ title.height = Height(report)
    \/ /\ Height(report) \in (70 * title.height) \div 100 .. title.height + 24
       /\ title.height \in DOMAIN ExpectedWidth
             => report.width >= (82 * ExpectedWidth[title.height]) \div 100

\* _audio_family and _audio_provider_family.
AudioFamily(audio) ==
    CASE audio = "DD+ Atmos" -> "DD+" [] audio = "TrueHD Atmos" -> "TrueHD" [] OTHER -> audio

ProviderFamily(audio) == IF audio = "HE-AAC" THEN "AAC" ELSE AudioFamily(audio)

Differ(one, other, unknown) == unknown \notin {one, other} /\ one # other

-----------------------------------------------------------------------------

\* language_is_confident: a name the program does not know is "odd".
Confident(language) == language \notin {"", "odd"}

\* _policy_blocking_issues: the default track is neither English nor declared,
\* or English is there as well.
ForeignAudio(title, report) ==
    /\ report.language \notin {"", "english"}
    /\ report.english \/ report.language \notin title.languages

Bloated(title, report) ==
    \/ /\ title.height = 1080 /\ title.scan = "p"
       /\ title.source \in {"bluray_encode", "bluray_remux"}
       /\ (IF report.audio = "" THEN title.audio ELSE report.audio) = "DTS-HD MA"
    \/ report.audio = "FLAC" /\ report.channels > 20

PolicyIssues(title, report) ==
    [bloated_audio |-> Bloated(title, report),
     primary_language |-> ForeignAudio(title, report) /\ Confident(report.language),
     primary_language_unverified |-> ForeignAudio(title, report) /\ ~Confident(report.language)]

\* _validate_hdr.
HdrIssues(title, report) ==
    [hdr10plus_missing |-> "HDR10+" \in title.hdr \ report.hdr,
     dolby_vision_missing |-> "DV" \in title.hdr \ report.hdr,
     hdr10_missing |-> "HDR10" \in title.hdr /\ report.hdr \cap {"HDR10", "HDR10+"} = {},
     dv_hdr10_fallback_missing |->
        {"DV", "HDR10"} \subseteq title.hdr /\ ~({"DV", "HDR10"} \subseteq report.hdr)]

\* _validate_media_file: what MediaInfo of one file says against the title.
FormatIssues(title, report) ==
    [resolution_mismatch |-> ~ResolutionMatches(title, report),
     video_codec_mismatch |-> Differ(title.codec, report.codec, ""),
     audio_codec_mismatch |->
        title.audio # "Atmos" /\ Differ(AudioFamily(title.audio), AudioFamily(report.audio), ""),
     audio_channels_mismatch |-> Differ(title.channels, report.channels, 0),
     audio_object_missing |-> ~(title.objects \subseteq report.objects)]

Raised(title, report) ==
    Holding(FormatIssues(title, report)) \cup Holding(HdrIssues(title, report))
        \cup Holding(PolicyIssues(title, report))

\* analyze_media_payloads: samples are not compared.
Issues(title, names, qui) ==
    UNION {{[key |-> k, at |-> n] : k \in Raised(title, qui[n])} :
              n \in {n \in DOMAIN qui : ~names[n].sample}}

-----------------------------------------------------------------------------

\* Mutant: what is reported of any file is taken for this one.
SameNameOrNot(names, at, files) == files

\* _matching_mediainfo_files: files are told apart by their names, without
\* the folders they are in.
SameName(names, at, files) == {n \in files : names[n].base = names[at].base}

\* _issue_confirmed_by_media_sources: the other provider has seen what QUI's
\* MediaInfo lacks.
Confirmed(issue, title, names, qui, local) ==
    LET theirs == SameName(names, issue.at, DOMAIN local)
        hdr == UNION ({qui[n].hdr : n \in SameName(names, issue.at, DOMAIN qui)}
                         \cup {local[n].hdr : n \in theirs})
        fallback == hdr \cap {"HDR10", "HDR10+"} # {}
    IN /\ theirs # {}
       /\ CASE issue.key = "dolby_vision_missing" -> "DV" \in hdr
            [] issue.key = "hdr10_missing" -> fallback
            [] issue.key = "hdr10plus_missing" -> "HDR10+" \in hdr
            [] issue.key = "dv_hdr10_fallback_missing" -> "DV" \in hdr /\ fallback
            [] issue.key = "audio_object_missing" ->
                  title.objects \ qui[issue.at].objects \subseteq UNION {local[n].objects : n \in theirs}
            [] issue.key = "audio_channels_mismatch" ->
                  \E n \in theirs : local[n].channels = title.channels
            [] OTHER -> FALSE

\* _provider_disagreement_issues: other channels are excused if the title
\* has them and an audio track's name as well.
Disagree(title, qui, local) ==
    \/ Differ(Resolution(qui), Resolution(local), <<>>)
    \/ Differ(qui.codec, local.codec, "")
    \/ /\ Differ(qui.channels, local.channels, 0)
       /\ ~(local.channels = title.channels /\ local.channels \in qui.titled)
    \/ Differ(ProviderFamily(qui.audio), ProviderFamily(local.audio), "")

Disagreements(title, qui, local) ==
    {[key |-> "mediainfo_provider_disagreement", at |-> n] :
        n \in {n \in DOMAIN local : Disagree(title, qui[n], local[n])}}

\* merge_mediainfo_provider_results: QUI's issues the other provider does
\* not clear up, and what the two disagree about.
MediaIssues(title, names, qui, local) ==
    {i \in Issues(title, names, qui) : ~Confirmed(i, title, names, qui, local)}
        \cup Disagreements(title, qui, local)

-----------------------------------------------------------------------------

\* _media_default_audio_language: of the first of QUI's reports that has one,
\* which need not be of the file that raised the flag.
DefaultLanguage(qui) ==
    LET spoken == {n \in DOMAIN qui : qui[n].spoken # ""}
    IN IF spoken = {} THEN ""
       ELSE qui[CHOOSE n \in spoken : \A m \in spoken : n <= m].spoken

\* Mutant: an original language that is not known clears the flag.
LanguageResolvedEagerly(flags, language, original) ==
    IF "primary_language" \in flags /\ original \in {language, ""}
    THEN flags \ {"primary_language"} ELSE flags

\* _resolve_primary_language_with_arr: the flags of all files go if that
\* language is the original one, and are a question to the user if one of the
\* two is uncertain.
LanguageResolved(flags, language, original) ==
    IF "primary_language" \notin flags THEN flags
    ELSE IF Confident(original) /\ Confident(language)
    THEN IF original = language THEN flags \ {"primary_language"} ELSE flags
    ELSE (flags \ {"primary_language"}) \cup {"primary_language_unverified"}

\* _arr_local_traits_from_media_result: the title's traits, with what the
\* first file's MediaInfo tells.
LocalTraits(title, qui) ==
    LET file == qui[1]
        moreHdr == HdrRank(file) > HdrRank(title) \/ (title.hdr = {} /\ file.hdr # {})
    IN [title EXCEPT !.hdr = IF moreHdr THEN file.hdr ELSE @,
                     !.audio = IF file.audio # "" THEN file.audio ELSE @,
                     !.channels = IF file.channels # 0 THEN file.channels ELSE @,
                     !.codec = IF file.codec # "" THEN file.codec ELSE @,
                     !.objects = IF file.objects # {} THEN file.objects ELSE @]

=============================================================================
