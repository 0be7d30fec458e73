--------------------------- MODULE RenameEvidence ---------------------------
(***************************************************************************)
(* Whether the names of a release are the ones it was released with: the   *)
(* Rename Check of app/rename_detection.py, and what app/srrdb.py makes of *)
(* the file names and sizes in srrDB's archive.                            *)
(*                                                                         *)
(* A name is the traits of Releases with what is odd about it; names with  *)
(* the same title differ in their separators only.  tail is the technical  *)
(* part of a file's name, "" if it says too little.  Findings of low       *)
(* confidence, which are shown and change nothing, are left out.           *)
(***************************************************************************)
EXTENDS Releases, FiniteSets

\* _same_arr_scope; one tag and rip type for every source.
SameArrScope(local, remote) ==
    /\ local.season = remote.season
    /\ local.episode = remote.episode
    /\ remote.height \in {local.height, 0} \/ local.height = 0
    /\ remote.source \in {local.source, "other"} \/ local.source = "other"
    /\ remote.provider \in {local.provider, ""} \/ local.provider = ""

\* _arr_evidence: the group has released the same thing by another title.
KnownByAnotherTitle(root, decisions) ==
    /\ root.group # ""
    /\ \E t \in DOMAIN decisions :
          LET best == decisions[t].best
          IN /\ best # NoListing
             /\ best.traits.group = root.group
             /\ best.traits.title # root.title
             /\ SameArrScope(root, best.traits)

\* _has_majority_outlier, over the files that have a technical tail.
MixedTails(files) ==
    LET With(tail) == {f \in files : f.tail = tail}
        tails == {f.tail : f \in files} \ {""}
        counts == {Cardinality(With(tail)) : tail \in tails}
        largest == CHOOSE n \in counts : \A m \in counts : m <= n
    IN Cardinality(tails) > 1 /\ largest >= 2 /\ 1 \in counts

Main(files) == {f \in files : ~f.extra}

\* _placeholder_name_evidence: a placeholder for a name, the item's own or the
\* root's, and content that has another one.
PlaceholderFindings(item, root, mapped, files) ==
    LET placeholder == IF item.placeholder THEN item ELSE root
        content == {n \in {mapped, root} \cup Main(files) : n.title # "" /\ IsComparable(n)}
    IN [placeholder_torrent_name_mismatch |->
            placeholder.placeholder /\ \E n \in content : n.title # placeholder.title]

\* _root_name_integrity_evidence.
RootFindings(root) ==
    [repeated_name_separator |-> IsComparable(root) /\ root.doubled,
     missing_release_group_separator |-> IsComparable(root) /\ root.group # "" /\ ~root.hyphen]

\* _folder_evidence.
FolderFindings(root, mapped) == [mapped_root_mismatch |-> mapped.title \notin {"", root.title}]

Groups(files) == {f.group : f \in Main(files)} \ {""}

\* _file_evidence.
FileFindings(root, files) ==
    [empty_title_token |-> \E f \in Main(files) : f.gap,
     random_video_basename |-> IsComparable(root) /\ \E f \in Main(files) : f.random,
     file_group_mismatch |-> root.group # "" /\ Groups(files) \ {root.group} # {}]

\* _sibling_evidence.
SiblingFindings(files) ==
    [mixed_release_groups |-> Cardinality(Groups(files)) > 1,
     mixed_technical_tail |-> MixedTails(Main(files))]

\* analyze_rename_detection: what is found against the item's own name, the
\* root of its torrent, the mapped folder and the files that are no extras.
Found(item, root, mapped, files, decisions) ==
    Holding(PlaceholderFindings(item, root, mapped, files)) \cup Holding(RootFindings(root))
        \cup Holding(FolderFindings(root, mapped)) \cup Holding(FileFindings(root, files))
        \cup Holding(SiblingFindings(files))
        \cup {k \in {"same_group_arr_title_mismatch"} : KnownByAnotherTitle(root, decisions)}

\* What stands although srrDB has verified the files.
Severe ==
    {"mixed_release_groups", "mixed_technical_tail", "placeholder_torrent_name_mismatch",
     "random_video_basename"}

\* Mutant: a verified release has no findings.
RenameStatusTrusting(found, verified) ==
    IF verified \/ found = {} THEN "pass"
    ELSE IF found = {"mapped_root_mismatch"} THEN "warning" ELSE "manual_review"

\* The status; only another folder name is of medium confidence.
RenameStatus(found, verified) ==
    LET counted == IF verified THEN found \cap Severe ELSE found
    IN IF counted \ {"mapped_root_mismatch"} # {} THEN "manual_review"
       ELSE IF counted # {} THEN "warning"
       ELSE "pass"

-----------------------------------------------------------------------------

\* verify_srrdb_release: every archived video is among the files by name, and
\* has its size where both are known.
SrrdbVerdict(files, archived) ==
    IF archived = {} THEN "not_found"
    ELSE IF \E a \in archived : ~\E f \in files : f.file = a.file THEN "mismatch"
    ELSE IF \E a \in archived, f \in files : f.file = a.file /\ 0 \notin {a.size, f.size} /\ a.size # f.size
    THEN "mismatch"
    ELSE "verified"

=============================================================================
