------------------------------ MODULE JobsPage ------------------------------
(***************************************************************************)
(* The jobs page: the list that reads and commands change, the editor, and *)
(* attachments that are uploaded while the editor may be left (load,       *)
(* command, showEditor, closeEditorState, addImages and submit of          *)
(* src/ui/JobsPageController.ts).                                          *)
(*                                                                         *)
(* The configured jobs are a version that every change increments.  Of the *)
(* form only the attachments are kept, each as the opening of the editor   *)
(* that it was chosen in.                                                  *)
(***************************************************************************)
EXTENDS Naturals

CONSTANTS
  MaxVersion,   \* bound: changes of the jobs
  MaxOpenings   \* bound: times the editor is opened

ASSUME JobsAssumption == {MaxVersion, MaxOpenings} \subseteq Nat

VARIABLES
  jobs,       \* the server: the version of the jobs
  event,      \* the event of a change is on its way to the page
  stray,      \* a command that was given up may still commit
  table,      \* jobs as shown and jobsLoadError
  loading,    \* loadInFlight, refreshPending, whether its generation is current
  cmd,        \* saving: the command in flight
  editor,     \* editorOpen, images, the number of its opening
  upload,     \* uploadingImage: the POST, current while uploadGen is its own
  dropped     \* history: an answer was dropped for a command, or a command's older
              \* answer was shown over it, and none came since

jobsVars == <<jobs, event, stray, table, loading, cmd, editor, upload, dropped>>

NoLoad    == [phase |-> "none"]
NoCommand == [phase |-> "none"]
NoUpload  == [phase |-> "none"]
Saving    == cmd # NoCommand
Uploading == upload.phase # "none" /\ upload.current
NewLoad   == [phase |-> "asked", valid |-> TRUE, again |-> FALSE]

JobsInit ==
  /\ jobs = 0 /\ event = FALSE /\ stray = FALSE
  /\ table = [version |-> 0, error |-> FALSE]
  /\ loading = NewLoad
  /\ cmd = NoCommand
  /\ editor = [open |-> FALSE, opening |-> 0, images |-> {}]
  /\ upload = NoUpload
  /\ dropped = FALSE

---------------------------------------------------------------------------
(* The list.                                                               *)

\* load: refreshes coalesce.
Load == loading' = IF loading = NoLoad THEN NewLoad ELSE [loading EXCEPT !.again = TRUE]

LoadJobs ==
  /\ Load
  /\ UNCHANGED <<jobs, event, stray, table, cmd, editor, upload, dropped>>

JobsEvent ==
  /\ event
  /\ event' = FALSE
  /\ Load
  /\ UNCHANGED <<jobs, stray, table, cmd, editor, upload, dropped>>

ServeJobs ==
  /\ loading.phase = "asked"
  /\ loading' = [phase |-> "served", valid |-> loading.valid, again |-> loading.again,
                 body |-> jobs]
  /\ UNCHANGED <<jobs, event, stray, table, cmd, editor, upload, dropped>>

\* mutant: a refresh asked for during a load is forgotten
LoadEnds_ForgetsAgain(answered) ==
  /\ IF answered THEN loading.phase = "served" ELSE loading # NoLoad
  /\ IF ~loading.valid THEN table' = table /\ dropped' = TRUE
     ELSE IF answered
     THEN table' = [version |-> loading.body, error |-> FALSE] /\ dropped' = FALSE
     ELSE table' = [table EXCEPT !.error = TRUE] /\ dropped' = dropped
  /\ loading' = NoLoad
  /\ UNCHANGED <<jobs, event, stray, cmd, editor, upload>>

\* The answer, or its failure, counts only if no command began meanwhile.
LoadEnds(answered) ==
  /\ IF answered THEN loading.phase = "served" ELSE loading # NoLoad
  /\ IF ~loading.valid THEN table' = table /\ dropped' = TRUE
     ELSE IF answered
     THEN table' = [version |-> loading.body, error |-> FALSE] /\ dropped' = FALSE
     ELSE table' = [table EXCEPT !.error = TRUE] /\ dropped' = dropped
  /\ loading' = IF loading.again THEN NewLoad ELSE NoLoad
  /\ UNCHANGED <<jobs, event, stray, cmd, editor, upload>>

---------------------------------------------------------------------------
(* Commands: one at a time; those in the editor save its form.             *)

Command(saves) ==
  /\ ~Saving
  /\ saves => editor.open /\ ~Uploading
  /\ cmd' = [phase |-> "asked", saves |-> saves]
  /\ loading' = IF loading = NoLoad THEN NoLoad ELSE [loading EXCEPT !.valid = FALSE]
  /\ UNCHANGED <<jobs, event, stray, table, editor, upload, dropped>>

Change ==
  /\ jobs < MaxVersion
  /\ jobs' = jobs + 1
  /\ event' = TRUE

\* The server commits and answers with the jobs, which may be lost.
PostCommand ==
  /\ cmd.phase = "asked"
  /\ Change
  /\ cmd' = [phase |-> "served", saves |-> cmd.saves, body |-> jobs']
  /\ UNCHANGED <<stray, table, loading, editor, upload, dropped>>

\* A rejection, a timeout, a lost answer; a run-once request whose receipt is
\* found reads the list again (reconciles).
CommandFails(reconciles) ==
  /\ Saving
  /\ cmd' = NoCommand
  /\ stray' \in {stray, cmd.phase = "asked" \/ stray}
  /\ IF reconciles THEN Load ELSE UNCHANGED loading
  /\ UNCHANGED <<jobs, event, table, editor, upload, dropped>>

\* mutant: an upload in flight survives the form
LeftEditor_KeepsUpload ==
  /\ editor' = [editor EXCEPT !.open = FALSE, !.images = {}]
  /\ UNCHANGED upload

\* closeEditorState: an upload in flight no longer counts.
LeftEditor ==
  /\ editor' = [editor EXCEPT !.open = FALSE, !.images = {}]
  /\ upload' = IF upload = NoUpload THEN NoUpload ELSE [upload EXCEPT !.current = FALSE]

CommandDone ==
  /\ cmd.phase = "served"
  /\ table' = [table EXCEPT !.version = cmd.body]
  /\ cmd' = NoCommand
  /\ dropped' = (cmd.body < table.version)
  /\ IF cmd.saves THEN LeftEditor ELSE UNCHANGED <<editor, upload>>
  /\ UNCHANGED <<jobs, event, stray, loading>>

---------------------------------------------------------------------------
(* The editor.                                                             *)

\* showEditor: from the list, or from another form by the browser's history.
OpenEditor ==
  /\ ~Saving /\ editor.opening < MaxOpenings
  /\ editor' = [open |-> TRUE, opening |-> editor.opening + 1, images |-> {}]
  /\ upload' = IF upload = NoUpload THEN NoUpload ELSE [upload EXCEPT !.current = FALSE]
  /\ UNCHANGED <<jobs, event, stray, table, loading, cmd, dropped>>

\* Cancelled, discarded, or left by the browser's Back, which a save refuses.
LeaveEditor ==
  /\ editor.open /\ ~Saving
  /\ LeftEditor
  /\ UNCHANGED <<jobs, event, stray, table, loading, cmd, dropped>>

\* The POST of a form that was left has no effect: a newer one takes its place.
AddImage ==
  /\ editor.open /\ ~Uploading /\ ~Saving
  /\ upload' = [phase |-> "posted", current |-> TRUE, opening |-> editor.opening,
                before |-> editor.images]
  /\ UNCHANGED <<jobs, event, stray, table, loading, cmd, editor, dropped>>

\* A failure takes back what this selection added.
UploadEnds(answered) ==
  /\ upload # NoUpload
  /\ editor' = IF ~upload.current THEN editor
               ELSE IF answered THEN [editor EXCEPT !.images = @ \cup {upload.opening}]
               ELSE [editor EXCEPT !.images = upload.before]
  /\ upload' = NoUpload
  /\ UNCHANGED <<jobs, event, stray, table, loading, cmd, dropped>>

RemoveImage(i) ==
  /\ i \in editor.images /\ ~Saving /\ ~Uploading
  /\ editor' = [editor EXCEPT !.images = @ \ {i}]
  /\ UNCHANGED <<jobs, event, stray, table, loading, cmd, upload, dropped>>

---------------------------------------------------------------------------
\* A scheduler, a worker, another page.
OthersChange ==
  /\ Change
  /\ UNCHANGED <<stray, table, loading, cmd, editor, upload, dropped>>

StrayCommand ==
  /\ stray
  /\ Change
  /\ stray' = FALSE
  /\ UNCHANGED <<table, loading, cmd, editor, upload, dropped>>

JobsNext ==
  \/ LoadJobs \/ JobsEvent \/ ServeJobs
  \/ \E b \in BOOLEAN : LoadEnds(b) \/ Command(b) \/ CommandFails(b) \/ UploadEnds(b)
  \/ PostCommand \/ CommandDone
  \/ OpenEditor \/ LeaveEditor \/ AddImage \/ (\E i \in editor.images : RemoveImage(i))
  \/ OthersChange \/ StrayCommand

JobsSpec == JobsInit /\ [][JobsNext]_jobsVars

---------------------------------------------------------------------------
\* At rest, with no event on its way and no error shown, the page shows the jobs
\* the server has, unless the last answer was dropped for a command that failed,
\* or was overwritten by a command's older one: no other order of events, reads
\* and commands leaves an old list (dataGeneration, refreshPending).
JobsAgree ==
  ~event /\ loading = NoLoad /\ ~Saving /\ ~table.error /\ ~dropped => table.version = jobs

\* What an open form would save was chosen in this opening of it: an upload that
\* is answered after its form was left, saved or replaced attaches nowhere
\* (uploadGen).
ImagesBelong == editor.images \subseteq (IF editor.open THEN {editor.opening} ELSE {})
=============================================================================
