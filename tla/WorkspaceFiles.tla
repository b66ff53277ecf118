---------------------------- MODULE WorkspaceFiles ----------------------------
(* The read, write and edit tools of tool-runtime on one file of the        *)
(* workspace: what the model has read (WorkspaceReadState), the queue of    *)
(* mutations (WorkspaceMutationQueue) and the preview the user approves     *)
(* (tool-loop-runtime, authorize_tool_call).                                *)
(*                                                                          *)
(* A turn runs one tool call at a time, but a turn that was cancelled or    *)
(* left behind by a reset still finishes its call while the next one runs   *)
(* (ConversationTurn), with the same tools.  The user, an editor or a       *)
(* command saves the file at any time, too: a save between a tool's check   *)
(* and its write is allowed if RacingUser.                                  *)
(*                                                                          *)
(* A content is the set of its lines, and has the fingerprint of its own:   *)
(* collisions of the hash are left out.                                     *)
EXTENDS Integers, FiniteSets

CONSTANTS
  Turns,        \* turns whose tool calls may overlap
  Lines,        \* the lines a file may have
  NoFile,       \* no line: stands for a file, or a snapshot, that is not there
  RacingUser,   \* whether the user saves between a check and a write
  MaxCalls,     \* bound: tool calls of one behaviour
  MaxSaves      \* bound: saves and removals by others

ASSUME NoFileAssumption == NoFile \notin Lines
ASSUME FilesAssumption == MaxCalls \in Nat /\ MaxSaves \in Nat /\ RacingUser \in BOOLEAN

Contents == SUBSET Lines
Absent   == {NoFile}
OnDisk   == Contents \cup {Absent}
Snapshots == [content : Contents, complete : BOOLEAN]
Unread   == [content |-> Absent, complete |-> FALSE]

(* A write is of a content, an edit replaces a line by another or by none.  *)
NoLine == {}
Writes == [tool : {"write"}, content : Contents]
Edits  == [tool : {"edit"}, from : Lines, to : {{l} : l \in Lines} \cup {NoLine}]
Reads  == {[tool |-> "read"]}

VARIABLES
  file,       \* the file on disk
  readState,  \* WorkspaceReadState: the snapshot of the file
  held,       \* the mutation queue: whether the path is among active_paths
  pc,         \* where each turn's call is
  call,       \* the call of each turn
  shown,      \* the preview's old text, whose fingerprint goes with the call
  promised,   \* the preview's new text
  basis,      \* the content the call's check is about
  plan,       \* what it is going to write
  cancelled   \* turns whose cancellation token is cancelled

(* History.                                                                 *)
VARIABLES
  replaced,   \* the content each turn's write truncated
  calls, saves

locals    == <<call, shown, promised, basis, plan, replaced>>
fileVars == <<file, readState, held, pc, locals, cancelled, calls, saves>>

Idle == [tool |-> "none"]

FilesInit ==
  /\ file \in OnDisk /\ readState = Unread /\ held = FALSE
  /\ pc = [t \in Turns |-> "idle"] /\ call = [t \in Turns |-> Idle]
  /\ shown = [t \in Turns |-> Absent] /\ promised = [t \in Turns |-> Absent]
  /\ basis = [t \in Turns |-> Absent] /\ plan = [t \in Turns |-> Absent]
  /\ replaced = [t \in Turns |-> Absent]
  /\ cancelled = {} /\ calls = 0 /\ saves = 0

At(t, place) == pc[t] = place
Goto(t, place) == pc' = [pc EXCEPT ![t] = place]

-----------------------------------------------------------------------------
(* The tools' parts that compute.                                           *)

(* apply_edit: the line is there, and the file changes.                     *)
Applies(edit, content) ==
  content # Absent /\ edit.from \in content /\ edit.to # {edit.from}
Applied(edit, content) == (content \ {edit.from}) \cup edit.to

Accepts(c, content) == c.tool = "edit" => Applies(c, content)
ResultOf(c, content) == IF c.tool = "edit" THEN Applied(c, content) ELSE c.content

-----------------------------------------------------------------------------
(* The read tool.                                                           *)

StartRead(t) ==
  /\ At(t, "idle") /\ t \notin cancelled /\ calls < MaxCalls
  /\ calls' = calls + 1
  /\ call' = [call EXCEPT ![t] = [tool |-> "read"]]
  /\ Goto(t, "read")
  /\ UNCHANGED <<file, readState, held, shown, promised, basis, plan, replaced, cancelled,
                 saves>>

(* read_text_file_lines, without the queue: it may see a file that is being *)
(* written.  Part of it is read if the model asks for that, or if it is     *)
(* too long.                                                                *)
ReadFile(t) ==
  /\ At(t, "read") /\ file # Absent /\ t \notin cancelled
  /\ basis' = [basis EXCEPT ![t] = file]
  /\ Goto(t, "record")
  /\ UNCHANGED <<file, readState, held, call, shown, promised, plan, replaced, cancelled,
                 calls, saves>>

RecordRead(t) ==
  /\ At(t, "record")
  /\ \E complete \in BOOLEAN : readState' = [content |-> basis[t], complete |-> complete]
  /\ basis' = [basis EXCEPT ![t] = Absent]
  /\ call' = [call EXCEPT ![t] = Idle]
  /\ Goto(t, "idle")
  /\ UNCHANGED <<file, held, shown, promised, plan, replaced, cancelled, calls, saves>>

(* The file is not there or cannot be read, or the turn is cancelled.       *)
ReadFails(t) ==
  /\ At(t, "read")
  /\ call' = [call EXCEPT ![t] = Idle]
  /\ Goto(t, "idle")
  /\ UNCHANGED <<file, readState, held, shown, promised, basis, plan, replaced, cancelled,
                 calls, saves>>

-----------------------------------------------------------------------------
(* The approval of a write or an edit.                                      *)

(* permission_preview: a call that cannot be previewed is denied.  A write  *)
(* to a file that is not there is shown without an old text.                *)
Preview(t) ==
  /\ At(t, "idle") /\ t \notin cancelled /\ calls < MaxCalls
  /\ calls' = calls + 1
  /\ \E c \in Writes \cup Edits :
       /\ Accepts(c, file)
       /\ call' = [call EXCEPT ![t] = c]
       /\ promised' = [promised EXCEPT ![t] = ResultOf(c, file)]
  /\ shown' = [shown EXCEPT ![t] = file]
  /\ Goto(t, "asked")
  /\ UNCHANGED <<file, readState, held, basis, plan, replaced, cancelled, saves>>

Forget(t) ==
  /\ call' = [call EXCEPT ![t] = Idle]
  /\ shown' = [shown EXCEPT ![t] = Absent] /\ promised' = [promised EXCEPT ![t] = Absent]
  /\ basis' = [basis EXCEPT ![t] = Absent] /\ plan' = [plan EXCEPT ![t] = Absent]
  /\ replaced' = [replaced EXCEPT ![t] = Absent]

(* The user allows it, or a rule does; or it is denied (PermissionBroker).  *)
Allow(t) ==
  /\ At(t, "asked")
  /\ Goto(t, "lock")
  /\ UNCHANGED <<file, readState, held, locals, cancelled, calls, saves>>

Deny(t) ==
  /\ At(t, "asked")
  /\ Forget(t) /\ Goto(t, "idle")
  /\ UNCHANGED <<file, readState, held, cancelled, calls, saves>>

-----------------------------------------------------------------------------
(* write_text_file and edit_text_file.                                      *)

(* Mutant: the path may be active already.                                  *)
LockShared(t) ==
  /\ At(t, "lock") /\ t \notin cancelled
  /\ held' = TRUE /\ Goto(t, "stat")
  /\ UNCHANGED <<file, readState, locals, cancelled, calls, saves>>

(* lock_path: the queue's mutex is held from the test to the wait.          *)
Lock(t) ==
  /\ At(t, "lock") /\ t \notin cancelled
  /\ IF held
     THEN held' = held /\ Goto(t, "wait")
     ELSE held' = TRUE /\ Goto(t, "stat")
  /\ UNCHANGED <<file, readState, locals, cancelled, calls, saves>>

(* A waiter that was woken does not look at its cancellation.               *)
Relock(t) ==
  /\ At(t, "woken")
  /\ IF held
     THEN held' = held /\ Goto(t, "wait")
     ELSE held' = TRUE /\ Goto(t, "stat")
  /\ UNCHANGED <<file, readState, locals, cancelled, calls, saves>>

Interrupted(t) ==
  /\ At(t, "lock") /\ t \in cancelled
  /\ Forget(t) /\ Goto(t, "idle")
  /\ UNCHANGED <<file, readState, held, cancelled, calls, saves>>

(* existing_file_metadata: a file that is not there is created by a write   *)
(* without a check of its content.                                          *)
Stat(t) ==
  /\ At(t, "stat")
  /\ \/ /\ file # Absent /\ Goto(t, "check") /\ plan' = plan
     \/ /\ file = Absent /\ call[t].tool = "write" /\ t \notin cancelled /\ Goto(t, "write")
        /\ plan' = [plan EXCEPT ![t] = call[t].content]
  /\ UNCHANGED <<file, readState, held, call, shown, promised, basis, replaced, cancelled,
                 calls, saves>>

(* Mutant: what the model has read comes before what the user approved.     *)
CheckReadFirst(t) ==
  /\ At(t, "check") /\ t \notin cancelled
  /\ LET snapshot == IF readState.complete THEN readState
                     ELSE [content |-> shown[t], complete |-> shown[t] # Absent] IN
     /\ snapshot.complete
     /\ basis' = [basis EXCEPT ![t] = snapshot.content]
  /\ Goto(t, "compare")
  /\ UNCHANGED <<file, readState, held, call, shown, promised, plan, replaced, cancelled,
                 calls, saves>>

(* ensure_existing_file_was_read: the snapshot of the preview, or else that *)
(* of a complete read or of the last write.                                 *)
Check(t) ==
  /\ At(t, "check") /\ t \notin cancelled
  /\ LET snapshot == IF shown[t] # Absent THEN [content |-> shown[t], complete |-> TRUE]
                     ELSE readState IN
     /\ snapshot.complete
     /\ basis' = [basis EXCEPT ![t] = snapshot.content]
  /\ Goto(t, "compare")
  /\ UNCHANGED <<file, readState, held, call, shown, promised, plan, replaced, cancelled,
                 calls, saves>>

(* current_file_fingerprint.                                                *)
Compare(t) ==
  /\ At(t, "compare") /\ t \notin cancelled
  /\ file = basis[t]
  /\ Goto(t, "reread")
  /\ UNCHANGED <<file, readState, held, locals, cancelled, calls, saves>>

(* The file is read once more, and an edit applied to what is read now; the *)
(* last look at the cancellation.                                           *)
Reread(t) ==
  /\ At(t, "reread") /\ file # Absent /\ t \notin cancelled
  /\ Accepts(call[t], file)
  /\ plan' = [plan EXCEPT ![t] = ResultOf(call[t], file)]
  /\ Goto(t, "write")
  /\ UNCHANGED <<file, readState, held, call, shown, promised, basis, replaced, cancelled,
                 calls, saves>>

(* Each of these may fail, and a guard above that does not hold is an       *)
(* error, too: not read, changed since, rejected, interrupted.  Nothing has *)
(* been written.                                                            *)
Refuse(t) ==
  /\ pc[t] \in {"stat", "check", "compare", "reread", "write"}
  /\ Goto(t, "release")
  /\ UNCHANGED <<file, readState, held, locals, cancelled, calls, saves>>

(* fs::write truncates the file and then fills it.                          *)
Truncate(t) ==
  /\ At(t, "write")
  /\ replaced' = [replaced EXCEPT ![t] = file]
  /\ file' = {}
  /\ Goto(t, "fill")
  /\ UNCHANGED <<readState, held, call, shown, promised, basis, plan, cancelled, calls, saves>>

Fill(t) ==
  /\ At(t, "fill")
  /\ file' = plan[t]
  /\ Goto(t, "written")
  /\ UNCHANGED <<readState, held, locals, cancelled, calls, saves>>

(* It fails half way: some of the content is there.                         *)
FillFails(t) ==
  /\ At(t, "fill")
  /\ file' \in SUBSET plan[t]
  /\ Goto(t, "release")
  /\ UNCHANGED <<readState, held, locals, cancelled, calls, saves>>

(* record_written_text_snapshot: what was meant, if the file is still there.*)
RecordWritten(t) ==
  /\ At(t, "written")
  /\ \/ readState' = [content |-> plan[t], complete |-> TRUE]
     \/ readState' = readState
  /\ Goto(t, "release")
  /\ UNCHANGED <<file, held, locals, cancelled, calls, saves>>

(* Mutant: the guard frees the path and tells nobody.                       *)
ReleaseSilently(t) ==
  /\ At(t, "release")
  /\ held' = FALSE /\ Forget(t)
  /\ Goto(t, "idle")
  /\ UNCHANGED <<file, readState, cancelled, calls, saves>>

(* WorkspaceMutationGuard::drop.                                            *)
Release(t) ==
  /\ At(t, "release")
  /\ held' = FALSE /\ Forget(t)
  /\ pc' = [u \in Turns |-> IF u = t THEN "idle"
                            ELSE IF pc[u] = "wait" THEN "woken" ELSE pc[u]]
  /\ UNCHANGED <<file, readState, cancelled, calls, saves>>

-----------------------------------------------------------------------------
(* The environment.                                                         *)

Checked == \E t \in Turns : pc[t] \in {"reread", "write", "fill"}

Save ==
  /\ saves < MaxSaves /\ (RacingUser \/ ~Checked)
  /\ saves' = saves + 1
  /\ file' \in OnDisk \ {file}
  /\ UNCHANGED <<readState, held, pc, locals, cancelled, calls>>

CancelTurn(t) ==
  /\ t \notin cancelled
  /\ cancelled' = cancelled \cup {t}
  /\ UNCHANGED <<file, readState, held, pc, locals, calls, saves>>

-----------------------------------------------------------------------------
ReadStep(t) == ReadFile(t) \/ RecordRead(t) \/ ReadFails(t)
MutationStep(t) ==
  \/ Lock(t) \/ Relock(t) \/ Interrupted(t) \/ Stat(t) \/ Check(t) \/ Compare(t) \/ Reread(t)
  \/ Refuse(t) \/ Truncate(t) \/ Fill(t) \/ FillFails(t) \/ RecordWritten(t) \/ Release(t)

FilesNext ==
  \/ \E t \in Turns :
       \/ StartRead(t) \/ Preview(t) \/ Allow(t) \/ Deny(t) \/ CancelTurn(t)
       \/ ReadStep(t) \/ MutationStep(t)
  \/ Save

(* Each call runs in a thread of its own (spawn_blocking).                  *)
FilesFairness == \A t \in Turns : WF_fileVars(ReadStep(t)) /\ WF_fileVars(MutationStep(t))

FilesSpec == FilesInit /\ [][FilesNext]_fileVars
-----------------------------------------------------------------------------
(* Properties.                                                              *)

Places == {"idle", "read", "record", "asked", "lock", "wait", "woken", "stat", "check",
           "compare", "reread", "write", "fill", "written", "release"}

FilesTypeOK ==
  /\ file \in OnDisk /\ readState \in Snapshots \cup {Unread} /\ held \in BOOLEAN
  /\ pc \in [Turns -> Places]
  /\ call \in [Turns -> Writes \cup Edits \cup Reads \cup {Idle}]
  /\ shown \in [Turns -> OnDisk] /\ promised \in [Turns -> OnDisk]
  /\ basis \in [Turns -> OnDisk] /\ plan \in [Turns -> OnDisk]
  /\ replaced \in [Turns -> OnDisk]
  /\ cancelled \subseteq Turns /\ calls \in 0..MaxCalls /\ saves \in 0..MaxSaves

(* No update is lost (FileChanged, lock_path): what a tool overwrites is    *)
(* the content its check was about, or there was none; so the saves of      *)
(* others and the writes of another turn survive unless someone saw them.   *)
(* Only for a user who does not save between the check and the write: the   *)
(* tools read the file again there, and compare nothing.                    *)
NothingUnseenIsOverwritten ==
  \A t \in Turns : pc[t] \in {"fill", "written"} => replaced[t] = basis[t]

(* What the user approved is what happens: an approved update replaces the  *)
(* old text of its preview by the new one, or creates a file that has gone  *)
(* in between, whatever else the turns have read or written meanwhile.      *)
(* (Every variable keeps its type, too.)                                    *)
ApprovedIsWhatHappens ==
  /\ FilesTypeOK
  /\ \A t \in Turns : pc[t] \in {"fill", "written"} /\ shown[t] # Absent =>
       replaced[t] \in {shown[t], Absent} /\ plan[t] = promised[t]

(* A turn that waits for the path of another one goes on (path_released).   *)
WaitEnds == \A t \in Turns : pc[t] \in {"wait", "woken"} ~> pc[t] \notin {"wait", "woken"}

=============================================================================
