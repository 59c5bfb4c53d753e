----------------------------- MODULE StateTree ------------------------------
(***************************************************************************)
(* `ardur backup restore` (crates/cli/src/backup.rs) and processes that    *)
(* start beside it (StateDirs::create, the server's data_dir): the state   *)
(* directory is a path that one rename takes away and a second one fills   *)
(* again. A tree stands for its contents.                                  *)
(***************************************************************************)
EXTENDS Naturals

CONSTANTS
  Restores,       \* invocations of `backup restore`, each with its own archive
  Boots,          \* processes that start and create the state directories
  Prior,          \* the tree there was before
  NoTree,         \* nothing at the path
  EmptyTree,      \* a directory with nothing in it
  Stub,           \* a directory that holds SCHEMA_VERSION only
  MaxTreeFaults,  \* system calls that fail
  MaxTreeKills

Archives == {"good", "broken", "newer"}
Trees == Restores \cup Boots \cup {Prior, EmptyTree, Stub}

ASSUME StateTreeAssumption ==
  /\ Restores \cap Boots = {} /\ {Prior, NoTree, EmptyTree, Stub} \cap (Restores \cup Boots) = {}
  /\ Prior \notin {NoTree, EmptyTree, Stub} /\ NoTree \notin {EmptyTree, Stub} /\ EmptyTree # Stub
  /\ {MaxTreeFaults, MaxTreeKills} \subseteq Nat

VARIABLES
  liveTree,    \* what the state path names
  archive,     \* of each restore: intact, damaged, or of a newer schema
  forced,      \* restores run with --force
  treePc,      \* of every process
  aside,       \* the tree a restore displaced
  wasLive,     \* trees with contents that were live at some time
  gone,        \* trees deleted, with the restore that did
  treeFaults, treeKills

treeVars == <<liveTree, archive, forced, treePc, aside, wasLive, gone, treeFaults, treeKills>>

TreeSteps == {"idle", "staged", "displacing", "swapping", "rollback", "stamping", "deleting",
          "dirs", "done", "failed", "killed"}

TreeInit ==
  /\ liveTree = Prior /\ wasLive = {Prior} /\ gone = {}
  /\ archive \in [Restores -> Archives] /\ forced \in SUBSET Restores
  /\ treePc = [p \in Restores \cup Boots |-> "idle"]
  /\ aside = [r \in Restores |-> NoTree] /\ treeFaults = 0 /\ treeKills = 0

Go(p, from, to) == treePc[p] = from /\ treePc' = [treePc EXCEPT ![p] = to]
Fault == treeFaults < MaxTreeFaults /\ treeFaults' = treeFaults + 1
NoFault == UNCHANGED treeFaults

\* The path names another tree from here on.
Becomes(t) ==
  /\ liveTree' = t
  /\ wasLive' = wasLive \cup ({t} \ {NoTree, EmptyTree, Stub})

\* rename(2) of a directory onto the path: it may be free or an empty directory.
CanRename == liveTree \in {NoTree, EmptyTree}

-----------------------------------------------------------------------------
(* restore_backup *)

\* Reading, unpacking into a staging directory of its own and verifying the
\* receipt chain: what fails is removed and nothing else was touched.
Stage(r) ==
  /\ \/ archive[r] # "broken" /\ Go(r, "idle", "staged") /\ NoFault
     \/ archive[r] = "broken" /\ Go(r, "idle", "failed") /\ NoFault
     \/ Go(r, "idle", "failed") /\ Fault
  /\ UNCHANGED <<liveTree, archive, forced, aside, wasLive, gone, treeKills>>

\* state_root.exists()
FindPrior(r) ==
  /\ Go(r, "staged", IF liveTree = NoTree THEN "swapping" ELSE "displacing")
  /\ UNCHANGED <<liveTree, archive, forced, aside, wasLive, gone, treeFaults, treeKills>>

\* The first rename; what was found may be gone again.
Displace(r) ==
  /\ \/ /\ liveTree # NoTree /\ NoFault /\ Go(r, "displacing", "swapping")
        /\ aside' = [aside EXCEPT ![r] = liveTree] /\ Becomes(NoTree)
     \/ /\ liveTree = NoTree /\ NoFault /\ Go(r, "displacing", "failed")
        /\ UNCHANGED <<aside, liveTree, wasLive>>
     \/ Fault /\ Go(r, "displacing", "failed") /\ UNCHANGED <<aside, liveTree, wasLive>>
  /\ UNCHANGED <<archive, forced, gone, treeKills>>

\* The second rename. Another process may have filled the path meanwhile.
Swap(r) ==
  /\ \/ CanRename /\ NoFault /\ Go(r, "swapping", "stamping") /\ Becomes(r)
     \/ ~CanRename /\ NoFault /\ Go(r, "swapping", "rollback") /\ UNCHANGED <<liveTree, wasLive>>
     \/ Fault /\ Go(r, "swapping", "rollback") /\ UNCHANGED <<liveTree, wasLive>>
  /\ UNCHANGED <<archive, forced, aside, gone, treeKills>>

\* Mutant: the displaced tree is left where it is.
RollbackForgotten(r) ==
  /\ Go(r, "rollback", "failed")
  /\ UNCHANGED <<liveTree, wasLive, aside, archive, forced, gone, treeFaults, treeKills>>

\* Best-effort: the result of the rename is ignored.
Rollback(r) ==
  /\ Go(r, "rollback", "failed")
  /\ \/ /\ aside[r] # NoTree /\ CanRename /\ NoFault
        /\ Becomes(aside[r]) /\ aside' = [aside EXCEPT ![r] = NoTree]
     \/ /\ aside[r] = NoTree \/ ~CanRename
        /\ NoFault /\ UNCHANGED <<liveTree, wasLive, aside>>
     \/ aside[r] # NoTree /\ Fault /\ UNCHANGED <<liveTree, wasLive, aside>>
  /\ UNCHANGED <<archive, forced, gone, treeKills>>

\* migrate_to, with no migrations: a tree of the baseline, or without a version,
\* is stamped, any other version is a gap. The path is resolved again, and the
\* write creates a directory that is not there.
Gap(t) == t \in Restores /\ archive[t] = "newer"
Stamped(t) == IF t \in {NoTree, EmptyTree} THEN Stub ELSE t

migrate_to(p, next) ==
  \/ ~Gap(liveTree) /\ NoFault /\ Go(p, "stamping", next) /\ Becomes(Stamped(liveTree))
  \/ Gap(liveTree) /\ NoFault /\ Go(p, "stamping", "failed") /\ UNCHANGED <<liveTree, wasLive>>
  \/ Fault /\ Go(p, "stamping", "failed") /\ UNCHANGED <<liveTree, wasLive>>

StampRestored(r) ==
  /\ migrate_to(r, IF r \in forced /\ aside[r] # NoTree THEN "deleting" ELSE "done")
  /\ UNCHANGED <<archive, forced, aside, gone, treeKills>>

\* --force, last of all. A deletion that fails has deleted some of the tree.
DeletePrior(r) ==
  /\ \/ NoFault /\ Go(r, "deleting", "done")
     \/ Fault /\ Go(r, "deleting", "failed")
  /\ gone' = gone \cup {[tree |-> aside[r], by |-> r]}
  /\ aside' = [aside EXCEPT ![r] = NoTree]
  /\ UNCHANGED <<liveTree, archive, forced, wasLive, treeKills>>

-----------------------------------------------------------------------------
(* StateDirs::create and the server's data_dir *)

\* create_dir_all makes the root, then a directory inside it: not atomic.
MakeRoot(b) ==
  /\ Go(b, "idle", "dirs")
  /\ Becomes(IF liveTree = NoTree THEN EmptyTree ELSE liveTree)
  /\ UNCHANGED <<archive, forced, aside, gone, treeFaults, treeKills>>

MakeDirs(b) ==
  /\ Go(b, "dirs", "stamping")
  /\ Becomes(IF liveTree \in {NoTree, EmptyTree, Stub} THEN b ELSE liveTree)
  /\ UNCHANGED <<archive, forced, aside, gone, treeFaults, treeKills>>

StampBooted(b) ==
  /\ migrate_to(b, "done")
  /\ UNCHANGED <<archive, forced, aside, gone, treeKills>>

TreeKilled(p) ==
  /\ treePc[p] \notin {"idle", "done", "failed", "killed"} /\ treeKills < MaxTreeKills
  /\ treePc' = [treePc EXCEPT ![p] = "killed"] /\ treeKills' = treeKills + 1
  /\ UNCHANGED <<liveTree, archive, forced, aside, wasLive, gone, treeFaults>>

TreeNext ==
  \/ \E r \in Restores : \/ Stage(r) \/ FindPrior(r) \/ Displace(r) \/ Swap(r) \/ Rollback(r)
                         \/ StampRestored(r) \/ DeletePrior(r)
  \/ \E b \in Boots : MakeRoot(b) \/ MakeDirs(b) \/ StampBooted(b)
  \/ \E p \in Restores \cup Boots : TreeKilled(p)

TreeSpec == TreeInit /\ [][TreeNext]_treeVars

TreeTypeOK ==
  /\ liveTree \in Trees \cup {NoTree} /\ archive \in [Restores -> Archives]
  /\ treePc \in [Restores \cup Boots -> TreeSteps]
  /\ aside \in [Restores -> Trees \cup {NoTree}]
  /\ treeFaults \in 0..MaxTreeFaults /\ treeKills \in 0..MaxTreeKills

RestoreAlone(r) == \A p \in (Restores \cup Boots) \ {r} : treePc[p] = "idle"

\* A tree that was live once is live or set aside, or a forced restore deleted
\* it whose own tree had been put in its place; no archive with a broken chain
\* goes live; and a restore that reports an error, nobody else at work and at most
\* one system call refused, leaves the prior tree live or its own, sound one.
PriorStateKept ==
  /\ \A t \in wasLive :
       \/ liveTree = t \/ \E r \in Restores : aside[r] = t
       \/ \E g \in gone : g.tree = t /\ g.by \in forced \cap wasLive
  /\ \A r \in Restores \cap wasLive : archive[r] # "broken"
  /\ \A r \in Restores :
       treePc[r] = "failed" /\ RestoreAlone(r) /\ treeFaults <= 1 =>
         liveTree = Prior \/ (liveTree = r /\ archive[r] # "broken")
=============================================================================
