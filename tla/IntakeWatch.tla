---------------------------- MODULE IntakeWatch ----------------------------
(***************************************************************************)
(* The watched intake directory (hlcli/agent/intake_watch.py) and the      *)
(* intake stream its batches go to.  A file is in the model once its       *)
(* settle window is over: until then a poll does not look at it.  A batch  *)
(* is the sequence of candidates in its file; a corrupt file holds one     *)
(* that does not parse, and parse_batch takes a file whole or not at all.  *)
(***************************************************************************)
EXTENDS Integers, Sequences, SequencesExt

CONSTANTS
    Cands,      \* candidates, by content id
    Files,      \* file names: numbers, because a poll takes them in sorted order
    Batch,      \* the candidates of each file
    PassLimit   \* max_candidates_per_pass

ASSUME IntakeAssumption ==
    /\ Files \in SUBSET Nat
    /\ Batch \in [Files -> Seq(Cands)]
    /\ PassLimit \in Nat \ {0}

VARIABLES
    folder,   \* where each file is
    queue,    \* intake rows in seq order
    done      \* the high-water mark: rows up to it have been handled

intakeVars == <<folder, queue, done>>

Places == {"absent", "dropped", "corrupt", "processed", "failed"}
Waiting == {"dropped", "corrupt"}

IntakeTypeOK ==
    /\ folder \in [Files -> Places]
    /\ queue \in Seq(Cands)
    /\ done \in Nat

IntakeInit ==
    /\ folder = [f \in Files |-> "absent"]
    /\ queue = <<>>
    /\ done = 0

\* A producer renames a finished batch into the directory.
Drop(f) ==
    /\ folder[f] = "absent"
    /\ \E place \in Waiting : folder' = [folder EXCEPT ![f] = place]
    /\ UNCHANGED <<queue, done>>

\* What a poll finds.
Found == {f \in Files : folder[f] \in Waiting}

\* enqueue: INSERT OR IGNORE on the id, which is the hash of the content.
IsNew(c) == c \notin ToSet(queue)
Enqueue(c) ==
    /\ queue' = IF IsNew(c) THEN Append(queue, c) ELSE queue
    /\ UNCHANGED <<folder, done>>

Archive(f, place) ==
    /\ folder' = [folder EXCEPT ![f] = place]
    /\ UNCHANGED <<queue, done>>

\* The rows a firing pass takes: the first of those behind the mark.
BatchEnd == IF Len(queue) > done + PassLimit THEN done + PassLimit ELSE Len(queue)

\* A pass handles rows in order and moves the mark row by row.
HandleUpTo(seq) ==
    /\ done' = seq
    /\ UNCHANGED <<folder, queue>>
=============================================================================
