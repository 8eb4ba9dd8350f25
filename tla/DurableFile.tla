---------------------------- MODULE DurableFile ----------------------------
(***************************************************************************)
(* How persist.Save and snapshot.Save write a file, and what a crash of    *)
(* the machine leaves of it.  Both Saves have the same control: os.Create  *)
(* empties the file in place, one Write follows another, and the Sync      *)
(* whose error Save returns comes last.                                    *)
(*                                                                         *)
(* The file is a sequence of words.  A word that is only partly on disk    *)
(* reads as an error, as one that is not there does, so it counts as not   *)
(* there.                                                                  *)
(*                                                                         *)
(* The operating system is external.  Writes reach the disk in the order   *)
(* in which they are made and at any time; Sync waits until all of them    *)
(* have; a crash before that may also bring back what the last Sync, or    *)
(* the last crash, left.                                                   *)
(***************************************************************************)
EXTENDS Naturals, Sequences

CONSTANT NoFile     \* there is no file of this name

VARIABLES
    file,       \* what a reader finds: NoFile or a sequence of words
    disk,       \* what is on disk for certain
    pending,    \* the words the Save in progress has yet to write
    status      \* the last Save: "none" yet, "saving", returned nil ("ok") or an
                \* error ("failed"), or a crash came before it returned nil ("crashed")

fileVars == <<file, disk, pending, status>>

FileInit ==
    /\ file = NoFile
    /\ disk = NoFile
    /\ pending = <<>>
    /\ status = "none"

\* os.Create; Save is handed what becomes these words.
Create(words) ==
    /\ status # "saving"
    /\ file' = <<>>
    /\ pending' = words
    /\ status' = "saving"
    /\ UNCHANGED disk

WriteWord ==
    /\ status = "saving"
    /\ pending # <<>>
    /\ file' = Append(file, Head(pending))
    /\ pending' = Tail(pending)
    /\ UNCHANGED <<disk, status>>

\* Mutant: Save returns without a Sync.
NoSync ==
    /\ status = "saving"
    /\ pending = <<>>
    /\ status' = "ok"
    /\ UNCHANGED <<file, disk, pending>>

Sync ==
    /\ status = "saving"
    /\ pending = <<>>
    /\ disk' = file
    /\ status' = "ok"
    /\ UNCHANGED <<file, pending>>

\* A Write or the Sync returns an error, and so does Save; the file stays.
SaveFails ==
    /\ status = "saving"
    /\ pending' = <<>>
    /\ status' = "failed"
    /\ UNCHANGED <<file, disk>>

Beginnings(s) == {SubSeq(s, 1, n) : n \in 0 .. Len(s)}

Survivors == {disk} \cup (IF file = NoFile THEN {} ELSE Beginnings(file))

Crash ==
    /\ status = "saving" \/ file # disk
    /\ file' \in Survivors
    /\ disk' = file'
    /\ pending' = <<>>
    /\ status' = IF status = "ok" THEN "ok" ELSE "crashed"

FileStep == WriteWord \/ Sync \/ SaveFails \/ Crash

=============================================================================
