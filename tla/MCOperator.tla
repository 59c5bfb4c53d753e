----------------------------- MODULE MCOperator -----------------------------
(***************************************************************************)
(* Files that several processes or threads use without a lock: Approvals,  *)
(* OperatorStores, SessionHistory, ReceiptReaders, StateTree and FileUndo, *)
(* on small instances. They share no state, so a behaviour moves one of    *)
(* them and leaves the others at their initial states.                     *)
(***************************************************************************)
EXTENDS Approvals, OperatorStores, SessionHistory, ReceiptReaders, StateTree,
        FileUndo, TLC

CONSTANTS k1, k2

VARIABLE moves   \* the component that moves

MCStoreOf ==
  "c1" :> "crons" @@ "c2" :> "crons" @@ "e1" :> "endpoints" @@ "e2" :> "endpoints"
    @@ "t1" :> "triggers"

MCChunkOf == k1 :> "x" @@ k2 :> "y"

OperatorInit ==
  /\ moves \in {"approvals", "stores", "history", "readers", "tree", "files"}
  /\ Init /\ StoreInit /\ HistoryInit /\ ReadersInit /\ TreeInit /\ UndoInit
  /\ moves # "tree" => forced = {} /\ archive = [r \in Restores |-> "good"]
  /\ moves # "files" => content = NoFile

\* Everything but the component that moves stands still.
Still(component) ==
  /\ component # "approvals" => UNCHANGED vars
  /\ component # "stores" => UNCHANGED opVars
  /\ component # "history" => UNCHANGED histVars
  /\ component # "readers" => UNCHANGED readerVars
  /\ component # "tree" => UNCHANGED treeVars
  /\ component # "files" => UNCHANGED undoVars

OperatorNext ==
  /\ \/ moves = "approvals" /\ Next /\ Still("approvals")
     \/ moves = "stores" /\ StoreNext /\ Still("stores")
     \/ moves = "history" /\ HistoryNext /\ Still("history")
     \/ moves = "readers" /\ ReadersNext /\ Still("readers")
     \/ moves = "tree" /\ TreeNext /\ Still("tree")
     \/ moves = "files" /\ UndoNext /\ Still("files")
  /\ UNCHANGED moves

OperatorSpec ==
  OperatorInit /\ [][OperatorNext]_<<moves, vars, opVars, histVars, readerVars, treeVars,
                                     undoVars>>

Symmetry == Permutations(Cards)

\* Every part keeps its types.
OperatorTypeOK ==
  /\ TypeOK /\ StoreTypeOK /\ HistoryTypeOK /\ ReadersTypeOK /\ TreeTypeOK
  /\ UndoTypeOK

\* What was there before comes back: the state tree that a restore displaces
\* (backup.rs:162), the content that file.write replaces (snapshot.rs:308).
PriorComesBack == PriorStateKept /\ UndoSound
=============================================================================
