---------------------------- MODULE AssetMirror -----------------------------
(***************************************************************************)
(* Hosting the studio's films: scripts/mirror_ai_films.mjs and             *)
(* scripts/mirror_public_domain.mjs with the steps of their workflows, and *)
(* scripts/git_push_retry.sh.                                              *)
(*                                                                         *)
(* A run clones the studio's branch, uploads the films whose stamp is not  *)
(* the one its films.json names, each over the object the film always has, *)
(* writes the new entries, checks that they serve, commits and pushes.     *)
(* Each workflow runs once at a time, but both push to one branch, as do   *)
(* people.  Any call may fail and the runner may die between any two.      *)
(*                                                                         *)
(* A film's version is the take that was rendered, or the archive item     *)
(* the studio has resolved (a commit of its own).  The poster, and the     *)
(* tries of a cut on each source, end in one outcome; the repointing of an *)
(* entry whose base address has moved is left out: the base is one.        *)
(***************************************************************************)
EXTENDS Naturals, Sequences, SequencesExt

CONSTANTS
    Rendered,       \* the films of mirror-ai-films, in the studio's order
    Resolved,       \* those of mirror-public-domain
    StampOf,        \* film and version |-> its size, or what it is cut from
    MaxVersion,     \* film |-> bound on its versions
    Attempts        \* GIT_PUSH_ATTEMPTS

KeysOf == [ai |-> Rendered, pd |-> Resolved]
Mirrors == {"ai", "pd"}
Films == Range(Rendered) \cup Range(Resolved)

ASSUME MirrorAssumption ==
    /\ Rendered \in Seq(Films) /\ Resolved \in Seq(Films)
    /\ Range(Rendered) \cap Range(Resolved) = {}
    /\ MaxVersion \in [Films -> Nat \ {0}]
    /\ Attempts \in Nat \ {0}
    /\ \A f \in Films : {<<f, v>> : v \in 1 .. MaxVersion[f]} \subseteq DOMAIN StampOf

VARIABLES
    version,    \* the newest version of each film, 0 for none
    bucket,     \* the version R2 holds under the film's object
    studio,     \* the version the branch's films.json tells of
    job         \* the run of each workflow

mirrorVars == <<version, bucket, studio, job>>

None == [f \in Films |-> 0]

\* `behind`: the branch has a commit that the clone is not on top of.
NoJob == [phase |-> "idle", seen |-> None, films |-> None, at |-> 1, failed |-> {},
          behind |-> FALSE, attempt |-> 1]

MirrorInit ==
    /\ version = [f \in Films |-> IF f \in Range(Resolved) THEN 1 ELSE 0]
    /\ bucket = None
    /\ studio = None
    /\ job = [k \in Mirrors |-> NoJob]

Ended == {"idle", "green", "red"}

\* The run goes on to a phase, or ends and leaves nothing on its runner.
To(k, phase) ==
    job' = [job EXCEPT ![k] = IF phase \in Ended THEN [NoJob EXCEPT !.phase = phase]
                              ELSE [@ EXCEPT !.phase = phase]]

\* A commit on the branch: every clone but that of `k` is behind.
BehindBut(k) ==
    [j \in Mirrors |-> IF j = k \/ job[j].phase \in Ended THEN job[j]
                       ELSE [job[j] EXCEPT !.behind = TRUE]]

(***************************************************************************)
(* The script: one film after another.                                     *)
(***************************************************************************)

\* Check out, clone, read films.json.
StartMirror(k) ==
    /\ job[k].phase \in Ended
    /\ job' = [job EXCEPT ![k] = [NoJob EXCEPT !.phase = "hosting", !.seen = version,
                                               !.films = studio]]
    /\ UNCHANGED <<version, bucket, studio>>

Film(k) == KeysOf[k][job[k].at]
Seen(k) == job[k].seen[Film(k)]
Entry(k) == job[k].films[Film(k)]

Looping(k) == job[k].phase = "hosting" /\ job[k].at <= Len(KeysOf[k])

Stamp(f, v) == StampOf[<<f, v>>]

AlreadyHosted(k) == Entry(k) # 0 /\ Stamp(Film(k), Entry(k)) = Stamp(Film(k), Seen(k))

SkipFilm(k) ==
    /\ Looping(k)
    /\ Seen(k) = 0 \/ AlreadyHosted(k)
    /\ job' = [job EXCEPT ![k].at = @ + 1]
    /\ UNCHANGED <<version, bucket, studio>>

\* Mutant: the entry is made first and stays.
FailFilmWithEntry(k) ==
    /\ \/ Looping(k) /\ Seen(k) # 0 /\ ~ AlreadyHosted(k)
       \/ job[k].phase = "describing"
    /\ job' = [job EXCEPT ![k].phase = "hosting", ![k].at = @ + 1,
                          ![k].films[Film(k)] = Seen(k)]
    /\ UNCHANGED <<version, bucket, studio>>

\* One bad film does not cost the others.
FailFilm(k) ==
    /\ \/ Looping(k) /\ Seen(k) # 0 /\ ~ AlreadyHosted(k)
       \/ job[k].phase = "describing"
    /\ job' = [job EXCEPT ![k].phase = "hosting", ![k].at = @ + 1,
                          ![k].failed = @ \cup {Film(k)}]
    /\ UNCHANGED <<version, bucket, studio>>

WithEntry(k) == [job[k] EXCEPT !.phase = "hosting", !.at = @ + 1, !.films[Film(k)] = Seen(k)]

\* The public domain mirror has its entry once the clip is up; the other still
\* has the duration to read and the poster to upload.
UploadFilm(k) ==
    /\ Looping(k) /\ Seen(k) # 0 /\ ~ AlreadyHosted(k)
    /\ bucket' = [bucket EXCEPT ![Film(k)] = Seen(k)]
    /\ job' = [job EXCEPT ![k] = IF k = "pd" THEN WithEntry(k)
                                 ELSE [@ EXCEPT !.phase = "describing"]]
    /\ UNCHANGED <<version, studio>>

DescribeFilm(k) ==
    /\ job[k].phase = "describing"
    /\ job' = [job EXCEPT ![k] = WithEntry(k)]
    /\ UNCHANGED <<version, bucket, studio>>

Hosted(k) == {f \in Range(KeysOf[k]) : job[k].films[f] # 0}

\* Green with nothing hosted is a failure.
FinishFilms(k) ==
    /\ job[k].phase = "hosting" /\ job[k].at > Len(KeysOf[k])
    /\ To(k, IF Hosted(k) = {} THEN "red" ELSE "verifying")
    /\ UNCHANGED <<version, bucket, studio>>

(***************************************************************************)
(* The workflow: verify, compare, commit and push.                         *)
(***************************************************************************)

Unchanged(k) == \A f \in Range(KeysOf[k]) : job[k].films[f] = studio[f]

Verify(k) ==
    /\ job[k].phase = "verifying"
    /\ \A f \in Hosted(k) : bucket[f] # 0
    /\ To(k, IF Unchanged(k) THEN "green" ELSE "pushing")
    /\ UNCHANGED <<version, bucket, studio>>

\* git takes a push only on top of what the branch holds; the commit is that
\* of this mirror's films.json alone.
Push(k) ==
    /\ job[k].phase = "pushing"
    /\ ~ job[k].behind
    /\ studio' = [f \in Films |-> IF f \in Range(KeysOf[k]) THEN job[k].films[f] ELSE studio[f]]
    /\ job' = [BehindBut(k) EXCEPT ![k] = [NoJob EXCEPT !.phase = "green"]]
    /\ UNCHANGED <<version, bucket>>

\* Mutant: a loop that falls through to a success.
PushGivesUp(k) ==
    /\ job[k].phase = "pushing"
    /\ To(k, IF job[k].attempt = Attempts THEN "green" ELSE "rebasing")
    /\ UNCHANGED <<version, bucket, studio>>

\* The last attempt breaks out of the loop; any other goes on to rebase.
PushFails(k) ==
    /\ job[k].phase = "pushing"
    /\ To(k, IF job[k].attempt = Attempts THEN "red" ELSE "rebasing")
    /\ UNCHANGED <<version, bucket, studio>>

\* A rebase that fails is aborted and the push tried again as it was.
Rebase(k) ==
    /\ job[k].phase = "rebasing"
    /\ \E behind \in {FALSE, job[k].behind} :
            job' = [job EXCEPT ![k].phase = "pushing", ![k].attempt = @ + 1, ![k].behind = behind]
    /\ UNCHANGED <<version, bucket, studio>>

\* A step of the job fails, an address does not answer, or the runner is gone.
JobDies(k) ==
    /\ job[k].phase \notin Ended
    /\ To(k, "red")
    /\ UNCHANGED <<version, bucket, studio>>

(***************************************************************************)
(* Others.                                                                 *)
(***************************************************************************)

NewVersion(f) ==
    /\ version[f] < MaxVersion[f]
    /\ version' = [version EXCEPT ![f] = @ + 1]
    /\ job' = IF f \in Range(Resolved) THEN BehindBut("nobody") ELSE job
    /\ UNCHANGED <<bucket, studio>>

OthersPush ==
    /\ job' = BehindBut("nobody")
    /\ UNCHANGED <<version, bucket, studio>>

MirrorNext ==
    \/ \E k \in Mirrors :
        \/ StartMirror(k) \/ SkipFilm(k) \/ FailFilm(k) \/ UploadFilm(k) \/ DescribeFilm(k)
        \/ FinishFilms(k) \/ Verify(k) \/ Push(k) \/ PushFails(k) \/ Rebase(k) \/ JobDies(k)
    \/ \E f \in Films : NewVersion(f)
    \/ OthersPush

MirrorSpec == MirrorInit /\ [][MirrorNext]_mirrorVars

-----------------------------------------------------------------------------
(***************************************************************************)
(* Properties.                                                             *)
(***************************************************************************)

\* The studio never tells of a version that was not uploaded: not after an
\* upload that failed, a run that died or a push that was retried
\* (mirror_ai_films.mjs:166, mirror_public_domain.mjs:128).
StudioNamesUploaded == \A f \in Films : studio[f] <= bucket[f]

\* A run that ends green has left the studio, for every film it saw and did
\* not report as failed, with an entry of the stamp it saw: no film is lost to
\* a push that was rejected or to a diff that was taken for nothing to do
\* (git_push_retry.sh:51, mirror_public_domain.mjs:194).
GreenIsShown ==
    [][\A k \in Mirrors : job'[k].phase = "green" /\ job[k].phase # "green" =>
            \A f \in Range(KeysOf[k]) \ job[k].failed :
                job[k].seen[f] # 0 =>
                    /\ studio'[f] # 0
                    /\ Stamp(f, studio'[f]) = Stamp(f, job[k].seen[f])]_mirrorVars
=============================================================================
