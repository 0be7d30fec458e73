--------------------------- MODULE CheckEvidence ---------------------------
(***************************************************************************)
(* The evidence of one check, stage by stage (app/service.py): MediaInfo,  *)
(* the source of a WEB release, the path, Upload Assistant, Sonarr or      *)
(* Radarr with the policies, and the names.  Each stage looks at evidence  *)
(* no other stage sees again; what it makes of it are flags, traits and    *)
(* decisions, by which later stages stop, go on or change the status.      *)
(*                                                                         *)
(* A check here ends with the status that goes to the rules; Decisions has *)
(* the policies and the rules themselves.                                  *)
(***************************************************************************)
EXTENDS ReleaseNames, MediaTracks, MediaEvidence, RenameEvidence, Functions

CONSTANTS
    Titles,         \* names an item may have
    Layouts,        \* the video files of its torrent
    Contents,       \* pictures and tracks MediaInfo may list of a file
    Ordinary,       \* those that go with an ordinary title
    MaxOdd,         \* bound: reports of one check that are not ordinary
    Limit,          \* max_mediainfo_files_per_check
    Trackers,
    Listings,       \* names, with their trackers, a search may find
    MaxListings,    \* bound: of these in one search
    Languages,      \* an original language, "" if the Arr has none
    Seasons,        \* episodes of the season, as the Arr knows them
    Names,          \* item, root, mapped folder and files, as the Rename Check
                    \* sees them
    Archives        \* what srrDB has of the release

ASSUME NamesAssumption == \A n \in Names : IsFiniteSet(n.files)

ASSUME LayoutsAssumption ==
    /\ Limit \in Nat \ {0}
    /\ \A layout \in Layouts : Len(layout) \in Nat \ {0}

ASSUME ContentsAssumption ==
    /\ Ordinary \in Contents
    /\ \A content \in Contents :
         LET tracks == content.tracks
         IN /\ Len(tracks) \in Nat /\ DOMAIN tracks = 1 .. Len(tracks)
            /\ \A n \in DOMAIN tracks :
                  tracks[n].count \in Nat /\ tracks[n].layout.speakers \in Nat

VARIABLES
    stage,
    title,          \* what the name of the item says
    traits,         \* the same with what MediaInfo tells, for the Arr stage
    flags,          \* check_results.flags, by their keys
    language,       \* of the audio, for the Arr stage
    decisions,      \* of the trackers Upload Assistant passed
    status,
    doubts          \* history: what is true of the evidence the check has seen

evidenceVars == <<stage, title, traits, flags, language, decisions, status, doubts>>

NoDecisions == <<>>

EvidenceInit ==
    /\ stage = "queued"
    /\ title \in {Traits(name) : name \in Titles}
    /\ traits = title
    /\ flags = {}
    /\ language = ""
    /\ decisions = NoDecisions
    /\ status = "queued"
    /\ doubts = {}

Ends(with) ==
    /\ stage' = "done"
    /\ status' = with

-----------------------------------------------------------------------------

Examined(layout) == 1 .. IF Len(layout) < Limit THEN Len(layout) ELSE Limit

ReportOn(content) == FileReport(content.picture, content.tracks)
Reports == {ReportOn(content) : content \in Contents}

\* Reports on these files of which at most so many are not ordinary.
ReportsOn(files, most) ==
    {[n \in files |-> IF n \in DOMAIN odd THEN odd[n] ELSE ReportOn(Ordinary)] :
        odd \in UNION {[some -> Reports] : some \in {o \in SUBSET files : Cardinality(o) <= most}}}

Odd(reports) == Cardinality({n \in DOMAIN reports : reports[n] # ReportOn(Ordinary)})

\* History: HDR formats or objects that the title claims and neither provider
\* has seen in a file of that name, other channels than the title's in QUI's
\* report that the program's own look does not bear out, or another format of
\* audio in QUI's report.
Refuted(layout, qui, local) ==
    \E n \in DOMAIN qui :
        LET same == {m \in DOMAIN qui : layout[m].base = layout[n].base}
            read == same \cap DOMAIN local
            hdr == UNION ({qui[m].hdr : m \in same} \cup {local[m].hdr : m \in read})
            objects == UNION ({qui[m].objects : m \in same} \cup {local[m].objects : m \in read})
        IN /\ ~layout[n].sample
           /\ \/ (title.hdr \cap {"DV", "HDR10+"}) \ hdr # {}
              \/ "HDR10" \in title.hdr /\ hdr \cap {"HDR10", "HDR10+"} = {}
              \/ title.objects \ objects # {}
              \/ /\ title.channels # 0
                 /\ qui[n].channels \notin {0, title.channels}
                 /\ \A m \in read : local[m].channels # title.channels
              \/ /\ title.audio \notin {"", "Atmos"} /\ qui[n].audio # ""
                 /\ AudioFamily(qui[n].audio) # AudioFamily(title.audio)

\* History: a default track that is neither English nor announced.
Dubbed(layout, qui) ==
    \E n \in DOMAIN qui : ~layout[n].sample /\ ForeignAudio(title, qui[n])

\* _run_media_stage, up to the source of a WEB release: the flags are the
\* errors that are left.  A check goes on with them.
CheckMedia ==
    /\ stage = "queued"
    /\ \E layout \in Layouts :
         \E qui \in ReportsOn(Examined(layout), MaxOdd), readable \in SUBSET Examined(layout) :
           \E local \in ReportsOn(readable, MaxOdd - Odd(qui)) :
              LET issues == MediaIssues(title, layout, qui, local)
              IN /\ flags' = {i.key : i \in issues}
                 /\ language' = DefaultLanguage(qui)
                 /\ traits' = LocalTraits(title, qui)
                 /\ stage' = IF issues = {} /\ title.source = "web" /\ title.provider = ""
                             THEN "nfo" ELSE "path"
                 /\ doubts' = {d \in {"refuted", "dubbed"} :
                                  CASE d = "refuted" -> Refuted(layout, qui, local)
                                    [] d = "dubbed" -> Dubbed(layout, qui)}
    /\ status' = "checking"
    /\ UNCHANGED <<title, decisions>>

\* No video files, or QUI does not answer: _finish_terminal_media_error.
MediaFails ==
    /\ stage = "queued"
    /\ Ends("error")
    /\ UNCHANGED <<title, traits, flags, language, decisions, doubts>>

\* The NFO names the source of the WEB release or does not.
GrabNfo ==
    /\ stage = "nfo"
    /\ \E missing \in SUBSET {"source_missing"} : flags' = flags \cup missing
    /\ stage' = "path"
    /\ UNCHANGED <<title, traits, language, decisions, status, doubts>>

\* _run_path_stage: no mapping for the path.
PathFails ==
    /\ stage = "path"
    /\ Ends("error")
    /\ UNCHANGED <<title, traits, flags, language, decisions, doubts>>

\* _run_ua_stage: trackers pass, or the check ends with what Upload
\* Assistant's log says, or is repeated after an error.
AskUa ==
    /\ stage = "path"
    /\ \/ stage' = "arr" /\ UNCHANGED status
       \/ \E with \in {"blocked", "error", "retry"} : Ends(with)
    /\ UNCHANGED <<title, traits, flags, language, decisions, doubts>>

-----------------------------------------------------------------------------

\* A listing that is in nothing worse than the release is by its name; one
\* without HDR formats may have any.
AsGoodAsNamed(listing) ==
    /\ SameLane(title, listing)
    /\ listing.hdr = {} \/ title.hdr \subseteq listing.hdr
    /\ ScanRank(listing) >= ScanRank(title)
    /\ AudioRank(listing) >= AudioRank(title)
    /\ CodecRank(listing) >= CodecRank(title)
    /\ listing.channels >= title.channels

\* MediaInfo has found more than the name says.
MoreThanNamed ==
    \/ HdrRank(traits) > HdrRank(title)
    \/ AudioRank(traits) > AudioRank(title)
    \/ CodecRank(traits) > CodecRank(title)
    \/ traits.channels > title.channels

\* History: a tracker is a candidate although a torrent it lists, any of
\* these, is as good as the release is by its name, and by MediaInfo.
Listed(results, listings) ==
    /\ ~MoreThanNamed
    /\ \E t \in DOMAIN results, l \in listings :
         /\ results[t].status = "candidate"
         /\ l.tracker = t /\ l.protocol = "torrent"
         /\ AsGoodAsNamed(l.traits)

\* _release_payload of app/arr_compare.py.
Offered(listing) ==
    [tracker |-> listing.tracker, protocol |-> listing.protocol, traits |-> Traits(listing.name)]

Offers == {Offered(l) : l \in Listings} \cup {NoListing}

\* The episodes an Arr is asked for, if the item is one or a season.
Episodes == IF traits.season = 0 THEN {<<>>} ELSE Seasons

\* What the Arr's answer does to the flags: _resolve_primary_language_with_arr.
ArrNames(original, listings) ==
    /\ flags' = LanguageResolved(flags, language, original)
    /\ doubts' = (doubts \ IF original \notin {"", "odd"} /\ original = language
                             THEN {"dubbed"} ELSE {})
                     \cup IF Listed(decisions', listings) THEN {"listed"} ELSE {}

\* compare_item_with_arr.
CompareArr ==
    /\ stage = "arr" /\ IsComparable(traits)
    /\ \E episodes \in Episodes : traits.season # 0 => SonarrCompares(traits, episodes)
    /\ \E passed \in SUBSET Trackers \ {{}}, original \in Languages :
       \E configured \in SUBSET passed, found \in [1 .. MaxListings -> Offers] :
         LET listings == Range(found) \ {NoListing}
         IN /\ decisions' = [t \in passed |-> TrackerDecision(traits, t, listings, configured)]
            /\ ArrNames(original, listings)
    /\ status' = Summary(decisions')
    /\ stage' = "policy"
    /\ UNCHANGED <<title, traits, language>>

\* The Arr does not answer, does not know the media, or they are not out:
\* every tracker is for the user to decide, and no language is known.
ArrUndecided ==
    /\ stage = "arr"
    /\ \E passed \in SUBSET Trackers \ {{}} :
          decisions' = [t \in passed |-> [status |-> "manual_review", best |-> NoListing]]
    /\ ArrNames("", {})
    /\ status' = "manual_review"
    /\ stage' = "policy"
    /\ UNCHANGED <<title, traits, language>>

\* apply_release_group_policy, which Decisions has in full, may take the
\* candidate away, and so does _candidate_blocking_flag.  What is no
\* candidate has its names looked at to be shown, not to be judged.
ApplyPolicy ==
    /\ stage = "policy"
    /\ \E after \in {status} \cup {s \in {"manual_review", "blocked", "skipped"} : status = "candidate"} :
          IF after # "candidate" THEN Ends(after)
          ELSE IF flags \cap {"bloated_audio", "primary_language"} # {} THEN Ends("blocked")
          ELSE stage' = "names" /\ UNCHANGED status
    /\ UNCHANGED <<title, traits, flags, language, decisions, doubts>>

\* History: a video of srrDB's archive that the release does not have.
Modified(files, archived) ==
    \E a \in archived : \A f \in files :
        f.file # a.file \/ (f.size # a.size /\ 0 \notin {f.size, a.size})

\* History: the release is put together from those of two groups.
Mixed(names) ==
    \E f, g \in names.files : ~f.extra /\ ~g.extra /\ f.group # "" /\ g.group \notin {"", f.group}

\* What the stage takes for srrDB's verdict: one on the files, from an archive
\* that is compared with them; or one that its cache has for the name, on files
\* that were there before, or that it was not reached.  The cache is looked at
\* before any file is compared.
SrrdbSays(files) ==
    [verdict : {"verified", "mismatch", "not_found", "skipped"}, modified : {FALSE}]
    \cup {[verdict |-> SrrdbVerdict(files, archived), modified |-> Modified(files, archived)] :
              archived \in Archives}

\* srrDB, the Rename Check and the review gate, which takes any error of
\* MediaInfo for a question to the user.
CheckNames ==
    /\ stage = "names"
    /\ \E n \in Names :
         LET found == Found(n.item, n.root, n.mapped, n.files, decisions)
             review == flags \ {"source_missing"} # {}
             mixed == Mixed(n)
         IN \E answer \in SrrdbSays(n.files) :
              /\ Ends(IF \/ answer.verdict = "mismatch"
                         \/ review
                         \/ RenameStatus(found, answer.verdict = "verified") = "manual_review"
                      THEN "manual_review" ELSE "candidate")
              /\ doubts' = doubts \cup {d \in {"modified", "mixed"} :
                              CASE d = "modified" -> answer.modified
                                [] d = "mixed" -> mixed}
    /\ UNCHANGED <<title, traits, flags, language, decisions>>

EvidenceNext ==
    \/ CheckMedia \/ MediaFails \/ GrabNfo \/ PathFails \/ AskUa
    \/ CompareArr \/ ArrUndecided \/ ApplyPolicy \/ CheckNames

EvidenceSpec == EvidenceInit /\ [][EvidenceNext]_evidenceVars

-----------------------------------------------------------------------------

Candidate == stage = "done" /\ status = "candidate"

\* No candidate has an examined file in which MediaInfo refutes its title:
\* HDR formats and audio objects are in a file of that name for QUI or for the
\* program, however their reports were merged, and the format and channels of
\* audio that QUI reports, if any, are the title's; only other channels may be
\* put right by the program's own look.
ClaimsAreNotRefuted == Candidate => "refuted" \notin doubts

\* No candidate has a default track that is neither English nor in its title,
\* or has English beside it, unless the language the check goes by is the
\* original one.  The check goes by one language for all files, that of the
\* first that has any, and its agreement excuses the others as well.
AudioIsOriginal == Candidate => "dubbed" \notin doubts

\* A tracker that lists a torrent as good as the release is by its name, its
\* own listing or another one, is no candidate, unless MediaInfo has found
\* more in the release than its name says: only then does a release compete
\* with its own listing.
ListedIsBlocked == "listed" \notin doubts

\* No candidate has files of two groups, although a verdict of srrDB, remembered
\* or not, excuses most of what is odd about its names; and none whose files
\* were compared with srrDB's archive in this check lacks an archived video or
\* has one of another size.
NamesAreGenuine == Candidate => doubts \cap {"modified", "mixed"} = {}
=============================================================================
