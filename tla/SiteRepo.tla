------------------------------ MODULE SiteRepo ------------------------------
(***************************************************************************)
(* Publishing a site to its own git repository: scripts/                   *)
(* publish_site_repo.mjs, run by a workflow after the site is live.        *)
(*                                                                         *)
(* A run makes sure the organisation's template and the site's repository  *)
(* exist, takes the number of its tags as the version, writes one file     *)
(* after another through GitHub's contents API and tags what the branch    *)
(* then holds.  Nothing keeps two runs for one site apart, and every call  *)
(* may be refused: whatever happens the script exits 0.                    *)
(*                                                                         *)
(* One site.  A file's content is the run that wrote it: badge-version.svg *)
(* goes with README.md, which names the same version, and the files whose  *)
(* text is that of every run (banner, badges) are left out, as are the     *)
(* description and the topics, whose failures only warn.                   *)
(***************************************************************************)
EXTENDS Naturals, FiniteSets, Sequences

CONSTANTS
    Publishes,      \* the runs of the script
    WithSpec,       \* those given a spec
    WithMedia,      \* those given media
    Recreates,      \* those with SITE_RECREATE=1
    Template,       \* the content of the template's README
    NoFile,         \* no content
    TagsPerPage,    \* how many tags one answer lists: 100 in the code
    MaxTogether     \* bound on the runs in flight at a time

ASSUME RepoAssumption ==
    /\ WithSpec \subseteq Publishes /\ WithMedia \subseteq Publishes
    /\ Recreates \subseteq Publishes
    /\ Template \notin Publishes
    /\ NoFile \notin Publishes \cup {Template}
    /\ IsFiniteSet(Publishes)
    /\ TagsPerPage \in Nat \ {0}
    /\ MaxTogether \in Nat \ {0}

Files == {"index", "spec", "readme", "media"}

Tree == [Files -> Publishes \cup {Template, NoFile}]

Empty == [f \in Files |-> NoFile]

Versions == 1 .. TagsPerPage + 1

\* A repository: which one of the name it is (0: none yet), what its branch
\* holds, and the tree of each tag v<n>.
Repo == [id : 0 .. 2, tree : Tree, tags : [Versions -> Tree], copying : BOOLEAN]

NoRepo == [id |-> 0, tree |-> Empty, tags |-> [v \in Versions |-> Empty], copying |-> FALSE]

VARIABLES
    template,   \* the organisation's site-template
    live,       \* the repository under the site's name
    archive,    \* the one renamed to <name>-pre-template
    run         \* the state of each run

vars == <<template, live, archive, run>>

InFlight == {"looking", "template", "flagging", "seeding", "renaming", "generating",
             "waiting", "creating", "counting", "reading", "writing", "heading", "tagging"}

\* `clean` and `alone` are history: no call of the run failed, and it
\* overlapped no other.  `repo` is the repository it took its number from.
Run == [phase : InFlight \cup {"idle", "over"}, found : BOOLEAN,
        file : Files, seen : Publishes \cup {Template, NoFile}, n : {0} \cup Versions,
        repo : 0 .. 2, head : Tree, of : 0 .. 2, clean : BOOLEAN, alone : BOOLEAN]

Fresh == [phase |-> "idle", found |-> FALSE, file |-> "index", seen |-> NoFile, n |-> 0,
          repo |-> 0, head |-> Empty, of |-> 0, clean |-> TRUE, alone |-> TRUE]

TypeOK ==
    /\ template \in {"absent", "plain", "ready"}
    /\ live \in Repo /\ archive \in Repo
    /\ run \in [Publishes -> Run]

Init ==
    /\ template \in {"absent", "plain", "ready"}
    /\ live = NoRepo
    /\ archive = NoRepo
    /\ run = [p \in Publishes |-> Fresh]

Exists == live.id # 0

Tagged(repo) == {v \in Versions : repo.tags[v] # Empty}

\* A run that ends, tagged or not, has nothing more to say.
Over == [Fresh EXCEPT !.phase = "over"]

Go(p, phase) == run' = [run EXCEPT ![p].phase = phase]

Start(p) ==
    /\ run[p].phase = "idle"
    /\ Cardinality({q \in Publishes : run[q].phase \in InFlight}) < MaxTogether
    /\ run' = [q \in Publishes |->
                  IF q = p
                  THEN [Fresh EXCEPT !.phase = "looking",
                                     !.alone = \A r \in Publishes : run[r].phase \notin InFlight]
                  ELSE [run[q] EXCEPT !.alone = @ /\ run[q].phase \notin InFlight]]
    /\ UNCHANGED <<template, live, archive>>

\* A call throws, or an answer the script does not go on from: it warns and
\* exits 0, leaving what it wrote.  Nothing tells this from a crash.
Fail(p) ==
    /\ run[p].phase \in InFlight
    /\ run' = [run EXCEPT ![p] = Over]
    /\ UNCHANGED <<template, live, archive>>

-----------------------------------------------------------------------------
(* ensureRepo and ensureTemplateRepo.                                      *)

LookUpRepo(p) ==
    /\ run[p].phase = "looking"
    /\ run' = [run EXCEPT ![p].phase = "template", ![p].found = Exists]
    /\ UNCHANGED <<template, live, archive>>

\* What ensureRepo does next, once it knows whether there is a template.
AfterTemplate(p, templated) ==
    IF run[p].found THEN IF templated /\ p \in Recreates THEN "renaming" ELSE "counting"
                    ELSE IF templated THEN "generating" ELSE "creating"

LookUpTemplate(p) ==
    /\ run[p].phase = "template"
    /\ \/ template = "ready" /\ Go(p, AfterTemplate(p, TRUE))
       \/ template = "plain" /\ Go(p, "flagging")
       \/ template = "absent" /\ Go(p, "seeding")
       \/ Go(p, AfterTemplate(p, FALSE))
    /\ UNCHANGED <<template, live, archive>>

\* PATCH is_template, or POST a new one; either is refused, the POST also
\* when another run's was there first.
MakeTemplate(p) ==
    \/ /\ \/ run[p].phase = "flagging"
          \/ run[p].phase = "seeding" /\ template = "absent"
       /\ template' = "ready"
       /\ Go(p, AfterTemplate(p, TRUE))
       /\ UNCHANGED <<live, archive>>
    \/ /\ run[p].phase \in {"flagging", "seeding"}
       /\ Go(p, AfterTemplate(p, FALSE))
       /\ UNCHANGED <<template, live, archive>>

\* Mutant: an earlier archive does not stand in the way.
RenameOver(p) ==
    /\ run[p].phase = "renaming"
    /\ Exists
    /\ archive' = live
    /\ live' = NoRepo
    /\ Go(p, "generating")
    /\ UNCHANGED template

\* SITE_RECREATE: the old repository is renamed aside.  The archive's name
\* is taken once it exists, and a refused rename keeps the repository.
Rename(p) ==
    /\ run[p].phase = "renaming"
    /\ \/ /\ Exists /\ archive = NoRepo
          /\ archive' = live
          /\ live' = NoRepo
          /\ Go(p, "generating")
       \/ /\ Go(p, "counting")
          /\ UNCHANGED <<live, archive>>
    /\ UNCHANGED template

\* The repository of the name: the second one after a rename.
Born(copying) == [NoRepo EXCEPT !.id = IF archive = NoRepo THEN 1 ELSE 2, !.copying = copying]

\* Generate from the template; a refusal falls back to a plain repository.
Generate(p) ==
    /\ run[p].phase = "generating"
    /\ \/ /\ ~Exists
          /\ live' = Born(TRUE)
          /\ Go(p, "waiting")
       \/ /\ Go(p, "creating")
          /\ UNCHANGED live
    /\ UNCHANGED <<template, archive>>

\* Five polls a second apart for the template's README, or until it is there.
StopWaiting(p) ==
    /\ run[p].phase = "waiting"
    /\ Go(p, "counting")
    /\ UNCHANGED <<template, live, archive>>

CreatePlain(p) ==
    /\ run[p].phase = "creating"
    /\ ~Exists
    /\ live' = Born(FALSE)
    /\ Go(p, "counting")
    /\ UNCHANGED <<template, archive>>

\* GitHub copies the template's files some time after it has answered.
CopyTemplate ==
    /\ live.copying
    /\ live' = [live EXCEPT !.copying = FALSE,
                            !.tree["readme"] = IF @ = NoFile THEN Template ELSE @]
    /\ UNCHANGED <<template, archive, run>>

-----------------------------------------------------------------------------
(* The version, the files and the tag.                                     *)

\* Mutant: goes on from the archive's numbers.
NextVersionOfBoth ==
    IF Cardinality(Tagged(live)) + Cardinality(Tagged(archive)) < TagsPerPage
    THEN Cardinality(Tagged(live)) + Cardinality(Tagged(archive)) + 1 ELSE TagsPerPage + 1

\* The tags of one page, plus one.
NextVersion ==
    IF Cardinality(Tagged(live)) < TagsPerPage THEN Cardinality(Tagged(live)) + 1
                                               ELSE TagsPerPage + 1

\* A listing that fails counts no tags.
CountTags(p) ==
    /\ run[p].phase = "counting"
    /\ \/ /\ Exists
          /\ run' = [run EXCEPT ![p].phase = "reading", ![p].n = NextVersion,
                                ![p].repo = live.id]
       \/ run' = [run EXCEPT ![p].phase = "reading", ![p].n = 1, ![p].clean = FALSE]
    /\ UNCHANGED <<template, live, archive>>

\* Mutant: the README is not among the files.
FilesButReadme(p) ==
    <<"index">> \o (IF p \in WithSpec THEN <<"spec">> ELSE <<>>)
                \o (IF p \in WithMedia THEN <<"media">> ELSE <<>>)

FilesOf(p) ==
    <<"index">> \o (IF p \in WithSpec THEN <<"spec">> ELSE <<>>)
                \o <<"readme">>
                \o (IF p \in WithMedia THEN <<"media">> ELSE <<>>)

\* run[p] once it is through with a file: the next one, or the branch's head.
Through(p) ==
    LET i == CHOOSE i \in DOMAIN FilesOf(p) : FilesOf(p)[i] = run[p].file IN
    IF i = Len(FilesOf(p))
    THEN [run[p] EXCEPT !.phase = "heading", !.seen = NoFile]
    ELSE [run[p] EXCEPT !.phase = "reading", !.seen = NoFile, !.file = FilesOf(p)[i + 1]]

\* putFile: the sha of the file as it is, none where there is none ...
ReadFile(p) ==
    /\ run[p].phase = "reading"
    /\ run' = [run EXCEPT ![p].phase = "writing", ![p].seen = live.tree[run[p].file]]
    /\ UNCHANGED <<template, live, archive>>

\* ... then the PUT, which GitHub refuses when the file is another by now:
\* the script then throws, see Fail.
WriteFile(p) ==
    /\ run[p].phase = "writing"
    /\ Exists /\ live.tree[run[p].file] = run[p].seen
    /\ live' = [live EXCEPT !.tree[run[p].file] = p]
    /\ run' = [run EXCEPT ![p] = Through(p)]
    /\ UNCHANGED <<template, archive>>

\* A medium that cannot be read or written is a warning.
SkipMedium(p) ==
    /\ run[p].phase \in {"reading", "writing"} /\ run[p].file = "media"
    /\ run' = [run EXCEPT ![p] = [Through(p) EXCEPT !.clean = FALSE]]
    /\ UNCHANGED <<template, live, archive>>

\* The head of the branch; without one there is no tag.
ReadHead(p) ==
    /\ run[p].phase = "heading"
    /\ \/ /\ Exists
          /\ run' = [run EXCEPT ![p].phase = "tagging", ![p].head = live.tree, ![p].of = live.id]
       \/ run' = [run EXCEPT ![p] = Over]
    /\ UNCHANGED <<template, live, archive>>

\* POST refs/tags/v<n>, refused when the tag or another repository is there.
Tag(p) ==
    /\ run[p].phase = "tagging"
    /\ live.id = run[p].of /\ run[p].n \notin Tagged(live)
    /\ live' = [live EXCEPT !.tags[run[p].n] = run[p].head]
    /\ run' = [run EXCEPT ![p] = Over]
    /\ UNCHANGED <<template, archive>>

\* It warns that it could not tag, and is done.
LeaveUntagged(p) ==
    /\ run[p].phase = "tagging"
    /\ live.id # run[p].of \/ run[p].n \in Tagged(live)
    /\ run' = [run EXCEPT ![p] = Over]
    /\ UNCHANGED <<template, live, archive>>

-----------------------------------------------------------------------------
Step(p) ==
    \/ Start(p) \/ Fail(p)
    \/ LookUpRepo(p) \/ LookUpTemplate(p) \/ MakeTemplate(p)
    \/ Rename(p) \/ Generate(p) \/ StopWaiting(p) \/ CreatePlain(p)
    \/ CountTags(p) \/ ReadFile(p) \/ WriteFile(p) \/ SkipMedium(p)
    \/ ReadHead(p) \/ Tag(p) \/ LeaveUntagged(p)

Next == (\E p \in Publishes : Step(p)) \/ CopyTemplate

Spec == Init /\ [][Next]_vars

-----------------------------------------------------------------------------
(* Properties                                                              *)

\* The repository that is, or was, the i-th of the name.
Numbered(i) == IF archive.id = i THEN archive ELSE live

(* "Nothing is deleted": a tag, once made, stays on the tree it was made   *)
(* for, through every later publish and through the rename and the         *)
(* recreation of the repository, whoever is publishing meanwhile.          *)
NothingIsDeleted ==
    [][\A i \in {archive.id, live.id} \ {0} : \A v \in Tagged(Numbered(i)) :
           /\ i \in {archive'.id, live'.id}
           /\ Numbered(i)'.tags[v] = Numbered(i).tags[v]]_vars

\* A run that comes to tag, having overlapped no other and had no call refused.
Unhindered(p) == run[p].phase = "tagging" /\ run[p].clean /\ run[p].alone

\* No version of the repository is left out.
Dense(repo) == \A v \in Tagged(repo), u \in Versions : u < v => u \in Tagged(repo)

(* The record a publish leaves: a run that overlapped no other and had no  *)
(* call refused is about to tag its page, the README that names its        *)
(* version, and its spec and media where it has any, whatever earlier runs *)
(* left half done; and its tag is still to be had.  That lasts while the   *)
(* tags fit one page, past which the number stands still and is taken, and *)
(* while no version was left out, for a count of tags is then a number     *)
(* that some tag has.                                                      *)
AloneIsRecorded ==
    \A p \in Publishes : Unhindered(p) =>
        /\ \A i \in DOMAIN FilesOf(p) : run[p].head[FilesOf(p)[i]] = p
        /\ run[p].head["readme"] = p
        /\ run[p].of = live.id
        /\ Dense(live) /\ run[p].n <= TagsPerPage => run[p].n \notin Tagged(live)

(* The versions of a repository are v1, v2, ... with none left out: runs   *)
(* that overlap take the same number, and those that fail give theirs      *)
(* back.  Only a run that took its number from the repository before a     *)
(* rename may skip some in the one after it.                               *)
VersionsAreDense ==
    [][/\ Dense(live)
       /\ \A p \in Publishes : run[p].phase = "tagging" => run[p].repo \in {0, run[p].of}
       => Dense(live)']_vars
=============================================================================
