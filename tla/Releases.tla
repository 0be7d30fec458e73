------------------------------ MODULE Releases ------------------------------
(***************************************************************************)
(* What is known of a release, and which of two releases of the same thing *)
(* is the better one: the traits and comparisons of                        *)
(* app/media_identity.py and the tracker decisions of app/arr_compare.py.  *)
(*                                                                         *)
(* Traits are the ones a comparison looks at.  A resolution is a height    *)
(* and a scan, 0 and "" if unknown; channels are tenths, so that 51 is     *)
(* 5.1; season 0 is a movie, and episode 0 a whole season.                 *)
(***************************************************************************)
EXTENDS Naturals, Sequences

\* Of what may be found against a release, by its key, what is found.
Holding(findings) == {k \in DOMAIN findings : findings[k]}

\* AUDIO_FORMAT_RANKS and CODEC_RANKS, from the worst up.
AudioByRank ==
    <<{"Opus"}, {"MP3", "Vorbis", "MP2"}, {"DD"}, {"AAC", "HE-AAC"}, {"DTS"}, {"DTS-ES"},
      {"DD+"}, {"DTS-HD HRA"}, {"PCM"}, {"FLAC"}, {"DTS-HD MA"}, {"TrueHD"}, {"DD+ Atmos"},
      {"Atmos"}, {"DTS:X"}, {"TrueHD Atmos"}>>

CodecByRank ==
    <<{"MPEG-2"}, {"MPEG-4 Visual", "XviD", "DivX"}, {"VC-1"}, {"AVC"}, {"HEVC", "VP9"},
      {"AV1"}, {"VVC"}>>

\* The place of a name in such a list, 0 if it has none.
RankIn(list, name) ==
    IF \E n \in DOMAIN list : name \in list[n]
    THEN CHOOSE n \in DOMAIN list : name \in list[n]
    ELSE 0

AudioRank(traits) == RankIn(AudioByRank, traits.audio)
CodecRank(traits) == RankIn(CodecByRank, traits.codec)

\* _parse_hdr, and the end of _hdr_from_mediainfo.
HdrRank(traits) ==
    LET plain == traits.hdr \cap {"HDR10", "HDR10+"}
    IN IF "DV" \in traits.hdr THEN IF plain # {} THEN 4 ELSE 3
       ELSE IF "HDR10+" \in traits.hdr THEN 2
       ELSE IF traits.hdr \cap {"HDR10", "HLG"} # {} THEN 1
       ELSE 0

ScanRank(traits) == RankIn(<<{"i"}, {"p"}>>, traits.scan)

IsPack(traits) == traits.season # 0 /\ traits.episode = 0

\* is_comparable.
IsComparable(traits) == traits.height # 0 /\ traits.source # "other"

-----------------------------------------------------------------------------

\* A movie takes every listing, a pack a pack, an episode the same episode.
SameScope(local, remote) ==
    local.season # 0 => remote.season = local.season /\ remote.episode = local.episode

SameLane(local, remote) ==
    /\ remote.height = local.height
    /\ remote.source = local.source
    /\ SameScope(local, remote)
    /\ remote.versions \ {"Hybrid"} = local.versions \ {"Hybrid"}

\* Mutant: formats are compared by their rank alone.
HdrSatisfiesByRank(local, remote) == HdrRank(remote) >= HdrRank(local)

\* A listing that says nothing of HDR may have any; a Dolby Vision release
\* with a fallback is no better than its fallback.
HdrSatisfies(local, remote) ==
    \/ HdrRank(remote) >= HdrRank(local)
    \/ remote.hdr = {}
    \/ "HDR10+" \in local.hdr \cap remote.hdr
    \/ /\ {"DV", "HDR10"} \subseteq local.hdr
       /\ "HDR10" \in remote.hdr \/ HdrRank(remote) = 1

EqualOrBetter(local, remote) ==
    /\ SameLane(local, remote)
    /\ \/ ~IsPack(local) /\ IsPack(remote)
       \/ /\ ScanRank(remote) >= ScanRank(local)
          /\ HdrSatisfies(local, remote)
          /\ AudioRank(remote) >= AudioRank(local)
          /\ remote.channels >= local.channels
          /\ CodecRank(remote) >= CodecRank(local)

\* release_score; a 2160p WEB release without an HDR tag is taken for HDR.
Score(traits) ==
    <<IF IsPack(traits) THEN 1 ELSE 0,
      ScanRank(traits),
      IF traits.hdr = {} /\ traits.height >= 2160 /\ traits.source = "web"
      THEN 1 ELSE HdrRank(traits),
      CodecRank(traits), AudioRank(traits), traits.channels>>

Beats(one, other) ==
    \E n \in DOMAIN one : one[n] > other[n] /\ \A m \in 1 .. n - 1 : one[m] = other[m]

\* _best_release; seeders and size decide among equals.
Best(listings) ==
    CHOOSE l \in listings : \A k \in listings : ~Beats(Score(k.traits), Score(l.traits))

-----------------------------------------------------------------------------

\* evaluate_tracker_decisions, for one tracker.  A listing is what an
\* indexer of the Arr offers for the tracker; the tracker needs an alias and
\* a torrent indexer, which is what configured says.
NoListing == [tracker |-> "", protocol |-> "", traits |-> [group |-> "", title |-> ""]]

TrackerDecision(local, tracker, listings, configured) ==
    LET lane == {l \in listings : /\ l.tracker = tracker
                                  /\ l.protocol = "torrent"
                                  /\ SameLane(local, l.traits)}
        blockers == {l \in lane : EqualOrBetter(local, l.traits)}
    IN IF tracker \notin configured
       THEN [status |-> "manual_review", best |-> NoListing]
       ELSE IF blockers # {}
       THEN [status |-> "blocked", best |-> Best(blockers)]
       ELSE [status |-> "candidate", best |-> IF lane = {} THEN NoListing ELSE Best(lane)]

\* summarize_decisions.
Summary(decisions) ==
    LET statuses == {decisions[t].status : t \in DOMAIN decisions}
    IN IF "candidate" \in statuses THEN "candidate"
       ELSE IF "manual_review" \in statuses THEN "manual_review"
       ELSE "skipped"

-----------------------------------------------------------------------------

\* What Sonarr and Radarr must say of the media before it is compared.  An
\* episode is said to be monitored or not, and to have been aired or not.

SeasonHasStarted(episodes) == \E n \in DOMAIN episodes : episodes[n].aired

\* A season of one episode is never taken for a whole one.
SeasonAppearsFullyReleased(episodes) ==
    LET monitored == {n \in DOMAIN episodes : episodes[n].monitored}
        counted == IF monitored = {} THEN DOMAIN episodes ELSE monitored
    IN /\ Len(episodes) >= 2
       /\ \A n \in counted : episodes[n].aired

\* _sonarr_releases: a pack of a season that has started, or an episode that
\* has been aired of a season that has not been aired to its end.
SonarrCompares(local, episodes) ==
    IF IsPack(local) THEN SeasonHasStarted(episodes)
    ELSE /\ ~SeasonAppearsFullyReleased(episodes)
         /\ local.episode \in DOMAIN episodes
         /\ episodes[local.episode].aired

=============================================================================
