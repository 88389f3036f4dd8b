---------------------------- MODULE TaskUploads ----------------------------
(***************************************************************************)
(* The image a task may start from: create_task in main.py saves it under  *)
(* the job code before it knows whether there will be a task, and removes  *)
(* it when there is none; the cancel handler removes it after the task's   *)
(* transaction.  A file is not part of any transaction.  The transactions  *)
(* themselves are those of GenerationTasks; here a create is one that      *)
(* inserts a row, finds an earlier one, or is refused, whatever for.       *)
(***************************************************************************)
EXTENDS FiniteSets

CONSTANTS Submits,      \* calls of create_task with a picture: their job codes
          SubmitIds,    \* client_request_id values
          NoSubmitId,
          Pictures,     \* contents, by their hash
          NoPicture

ASSUME UploadConstants == NoSubmitId \notin SubmitIds /\ NoPicture \notin Pictures

VARIABLES submit, \* the calls of create_task
          stored, \* the job codes that have a file in input_image_dir
          drawn,  \* generation_tasks.status, of the rows with an input_image_path
          remove, \* cancel handlers between their transaction and the file
          orphans \* files somebody failed to remove, or died before he did

uploadVars == <<submit, stored, drawn, remove, orphans>>

Submit == [pc : {"start", "saved", "clean", "over"}, id : SubmitIds \cup {NoSubmitId}, picture : Pictures \cup {NoPicture}]

UploadInit ==
    /\ submit = [j \in Submits |-> [pc |-> "start", id |-> NoSubmitId, picture |-> NoPicture]]
    /\ stored = {}
    /\ drawn = [j \in Submits |-> "none"]
    /\ remove = {}
    /\ orphans = {}

HasRow == {j \in Submits : drawn[j] # "none"}

\* The row with the same client_request_id.
Earlier(j) == {k \in HasRow : submit[j].id # NoSubmitId /\ submit[k].id = submit[j].id}

\* _save_upload: the file has the name of the job code, which is new.
SaveUpload(j, r, p) ==
    /\ submit[j].pc = "start"
    /\ submit' = [submit EXCEPT ![j] = [pc |-> "saved", id |-> r, picture |-> p]]
    /\ stored' = stored \cup {j}
    /\ UNCHANGED <<drawn, remove, orphans>>

\* The disk is full: the path of the broken file is not known to the caller.
SaveBreaksOff(j) ==
    /\ submit[j].pc = "start"
    /\ submit' = [submit EXCEPT ![j].pc = "over"]
    /\ stored' = stored \cup {j}
    /\ orphans' = orphans \cup {j}
    /\ UNCHANGED <<drawn, remove>>

\* create_task_atomic or create_fast_translation_task_atomic inserts a row.
CreateInserts(j) ==
    /\ submit[j].pc = "saved"
    /\ Earlier(j) = {}
    /\ drawn' = [drawn EXCEPT ![j] = "waiting"]
    /\ submit' = [submit EXCEPT ![j].pc = "over"]
    /\ UNCHANGED <<stored, remove, orphans>>

\* The call is answered with an earlier task ("deduped").
CreateAnswers(j) ==
    /\ submit[j].pc = "saved"
    /\ \E k \in Earlier(j) : submit[k].picture = submit[j].picture
    /\ submit' = [submit EXCEPT ![j].pc = "clean"]
    /\ UNCHANGED <<stored, drawn, remove, orphans>>

\* The call is refused: a conflict, a limit, the balance, or any exception.
CreateRefuses(j) ==
    /\ submit[j].pc = "saved"
    /\ submit' = [submit EXCEPT ![j].pc = "clean"]
    /\ UNCHANGED <<stored, drawn, remove, orphans>>

\* Mutant: the file of the task in the answer is removed.
CleanAnswered(j) ==
    /\ submit[j].pc = "clean"
    /\ submit' = [submit EXCEPT ![j].pc = "over"]
    /\ stored' = stored \ (IF Earlier(j) # {} THEN Earlier(j) ELSE {j})
    /\ UNCHANGED <<drawn, remove, orphans>>

\* safe_cleanup_input after the answer or the exception.
Clean(j) ==
    /\ submit[j].pc = "clean"
    /\ submit' = [submit EXCEPT ![j].pc = "over"]
    /\ stored' = stored \ {j}
    /\ UNCHANGED <<drawn, remove, orphans>>

\* A translation or a renderer takes the task on, and it ends: both leave the
\* file where it is.
Render(j) ==
    /\ drawn[j] = "waiting"
    /\ drawn' = [drawn EXCEPT ![j] = "processing"]
    /\ UNCHANGED <<submit, stored, remove, orphans>>

TaskEnds(j) ==
    /\ drawn[j] \in {"waiting", "processing"}
    /\ drawn' = [drawn EXCEPT ![j] = "over"]
    /\ UNCHANGED <<submit, stored, remove, orphans>>

\* cancel_task_atomic returns the path, once: a second call is told that the
\* task was cancelled already and gets no path.
CancelUpload(j) ==
    /\ drawn[j] = "waiting"
    /\ drawn' = [drawn EXCEPT ![j] = "cancelled"]
    /\ remove' = remove \cup {j}
    /\ UNCHANGED <<submit, stored, orphans>>

RemoveCancelled(j) ==
    /\ j \in remove
    /\ remove' = remove \ {j}
    /\ stored' = stored \ {j}
    /\ UNCHANGED <<submit, drawn, orphans>>

\* safe_cleanup_input passes over an error of unlink.
RemoveFails(j) ==
    /\ submit[j].pc = "clean" \/ j \in remove
    /\ submit' = [submit EXCEPT ![j].pc = "over"]
    /\ remove' = remove \ {j}
    /\ orphans' = orphans \cup {j}
    /\ UNCHANGED <<stored, drawn>>

\* The server ends: no start-up code looks through input_image_dir.
UploadsStop ==
    LET dying == {j \in Submits : submit[j].pc \in {"saved", "clean"}} IN
    /\ orphans' = orphans \cup dying \cup remove
    /\ submit' = [j \in Submits |-> IF submit[j].pc = "start" THEN submit[j]
                                    ELSE [submit[j] EXCEPT !.pc = "over"]]
    /\ remove' = {}
    /\ UNCHANGED <<stored, drawn>>

UploadNext ==
    \/ \E j \in Submits :
           \/ \E r \in SubmitIds \cup {NoSubmitId}, p \in Pictures : SaveUpload(j, r, p)
           \/ SaveBreaksOff(j)
           \/ CreateInserts(j) \/ CreateAnswers(j) \/ CreateRefuses(j) \/ Clean(j)
           \/ Render(j) \/ TaskEnds(j)
           \/ CancelUpload(j) \/ RemoveCancelled(j) \/ RemoveFails(j)
    \/ UploadsStop

UploadSpec == UploadInit /\ [][UploadNext]_uploadVars

----------------------------------------------------------------------------
(* Properties *)

UploadTypeOK ==
    /\ submit \in [Submits -> Submit]
    /\ stored \subseteq Submits
    /\ drawn \in [Submits -> {"none", "waiting", "processing", "cancelled", "over"}]
    /\ remove \subseteq Submits
    /\ orphans \subseteq Submits

\* A task that waits or is being drawn has its picture, and a picture without
\* such a task is on its way out, belongs to a task that was drawn or refunded,
\* or is one that somebody failed to remove: whichever call of a repeated
\* request made the task, and whoever cancels it meanwhile.
PicturesFollowTasks ==
    \A j \in Submits :
        /\ drawn[j] \in {"waiting", "processing"} => j \in stored
        /\ j \in stored => \/ drawn[j] \in {"waiting", "processing", "over"}
                           \/ submit[j].pc \in {"saved", "clean"}
                           \/ j \in remove \cup orphans
=============================================================================
