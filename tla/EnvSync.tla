------------------------------ MODULE EnvSync -------------------------------
(***************************************************************************)
(* Copying one secret to the Vercel project: scripts/vercel_env_sync.py    *)
(* --apply, for one of the names it declares.                              *)
(*                                                                         *)
(* A run lists the project's rows once.  Then, for each target asked, it   *)
(* deletes the rows of the name it saw there and creates one of its own;   *)
(* the answer of a DELETE is not looked at, that of a create is.  Nothing  *)
(* keeps two runs apart: its workflow has no concurrency group.            *)
(*                                                                         *)
(* Rows of different names never meet, so there is one; the values of      *)
(* different runs differ.  Finding the team, and a dry run, change nothing *)
(* and are left out.                                                       *)
(*                                                                         *)
(* External, from how the script uses it: a row covers one or several      *)
(* targets, and Vercel refuses (409) a row over a target that has one.     *)
(***************************************************************************)
EXTENDS Naturals, Sequences, SequencesExt

CONSTANTS
    Targets,        \* production, preview, development
    Syncs,          \* the runs
    AskedOf,        \* run |-> the targets asked, in order
    HasValue        \* the runs whose environment has a value for the name

ASSUME SyncAssumption ==
    /\ AskedOf \in [Syncs -> Seq(Targets)] /\ \A s \in Syncs : AskedOf[s] # <<>>
    /\ HasValue \subseteq Syncs
    /\ "hand" \notin Syncs

VARIABLES
    rows,       \* the rows of the name: whose they are and what they cover
    sync        \* the state of each run

syncVars == <<rows, sync>>

\* The row a run creates for a target; and one it finds, set by hand.
RowOf(s, t) == [by |-> s, covers |-> {t}]
ByHand(T) == [by |-> "hand", covers |-> T]

NotBegun == [phase |-> "idle", listed |-> {}, at |-> 1, todo |-> {}, failed |-> FALSE,
             alone |-> TRUE]

SyncInit ==
    /\ rows \in SUBSET {ByHand(T) : T \in SUBSET Targets \ {{}}}
    /\ \A p, q \in rows : p # q => p.covers \cap q.covers = {}
    /\ sync = [s \in Syncs |-> NotBegun]

Syncing(s) == sync[s].phase \in {"listing", "deleting"}

BeginSync(s) ==
    /\ sync[s].phase = "idle"
    /\ sync' = [o \in Syncs |->
            IF o = s THEN [NotBegun EXCEPT !.phase = "listing",
                                           !.alone = \A p \in Syncs : ~ Syncing(p)]
            ELSE [sync[o] EXCEPT !.alone = @ /\ ~ Syncing(o)]]
    /\ UNCHANGED rows

\* The rows a listing names at the n-th target asked.
SeenAt(s, listed, n) == {r \in listed : AskedOf[s][n] \in r.covers}

\* With no value here the name is skipped, which is no failure.
ListRows(s) ==
    /\ sync[s].phase = "listing"
    /\ sync' = [sync EXCEPT ![s].phase = IF s \in HasValue THEN "deleting" ELSE "exit0",
                            ![s].listed = rows,
                            ![s].todo = SeenAt(s, rows, 1)]
    /\ UNCHANGED rows

\* Deleted, or refused, or gone before: the run goes on.
DeleteRow(s, r) ==
    /\ sync[s].phase = "deleting" /\ r \in sync[s].todo
    /\ rows' \in {rows, rows \ {r}}
    /\ sync' = [sync EXCEPT ![s].todo = @ \ {r}]

\* The run after a create: on to the next target, or done.
Onward(s, failed) ==
    LET n == sync[s].at
        run == [sync[s] EXCEPT !.failed = @ \/ failed]
    IN  IF n < Len(AskedOf[s])
        THEN [run EXCEPT !.at = n + 1, !.todo = SeenAt(s, run.listed, n + 1)]
        ELSE [run EXCEPT !.phase = IF run.failed THEN "exit1" ELSE "exit0"]

GoesOn(s, failed) == sync' = [sync EXCEPT ![s] = Onward(s, failed)]

\* Mutant: a create that is refused passes for an update.
CreateOrUpdate(s) ==
    LET t == AskedOf[s][sync[s].at] IN
    /\ sync[s].phase = "deleting" /\ sync[s].todo = {}
    /\ \/ /\ \A r \in rows : t \notin r.covers
          /\ rows' = rows \cup {RowOf(s, t)}
          /\ GoesOn(s, FALSE) \/ GoesOn(s, TRUE)
       \/ rows' = rows /\ GoesOn(s, \A r \in rows : t \notin r.covers)

\* Created, whether or not the answer is lost; or refused, over a row that is
\* there or for any other reason.
CreateRow(s) ==
    LET t == AskedOf[s][sync[s].at] IN
    /\ sync[s].phase = "deleting" /\ sync[s].todo = {}
    /\ \/ /\ \A r \in rows : t \notin r.covers
          /\ rows' = rows \cup {RowOf(s, t)}
          /\ GoesOn(s, FALSE) \/ GoesOn(s, TRUE)
       \/ rows' = rows /\ GoesOn(s, TRUE)

\* The listing is refused, or the job is gone.
SyncDies(s) ==
    /\ Syncing(s)
    /\ sync' = [sync EXCEPT ![s].phase = "exit1"]
    /\ UNCHANGED rows

SyncNext ==
    \E s \in Syncs :
        \/ BeginSync(s) \/ ListRows(s) \/ (\E r \in sync[s].todo : DeleteRow(s, r))
        \/ CreateRow(s) \/ SyncDies(s)

SyncSpec == SyncInit /\ [][SyncNext]_syncVars

-----------------------------------------------------------------------------
(***************************************************************************)
(* Property.                                                               *)
(***************************************************************************)

\* A run that no other overlapped and that ends 0 with a value to write leaves,
\* of what it listed, exactly the rows that touch no target asked, and beside them
\* one row of its own at each target asked: a delete that failed, or a value that
\* was deleted and not put back at its target, never ends 0
\* (vercel_env_sync.py:198, :208).  A row found over a target asked and another
\* one is gone as a whole, and the run ends 0 though the other has lost its value.
GreenIsSynced ==
    [][\A s \in HasValue :
        Syncing(s) /\ sync'[s].phase = "exit0" /\ sync[s].alone =>
            LET asked == Range(AskedOf[s]) IN
            rows' = {r \in sync[s].listed : r.covers \cap asked = {}}
                        \cup {RowOf(s, t) : t \in asked}]_syncVars
=============================================================================
