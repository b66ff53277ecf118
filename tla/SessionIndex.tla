---------------------------- MODULE SessionIndex ----------------------------
(***************************************************************************)
(* The SQLite index of a project's sessions, the JSONL files it is derived *)
(* from, and the repair that listing the sessions runs.  Sessions are      *)
(* created and extended while the repair reads: every statement of the     *)
(* repair commits on its own.  A file is known by its stamp, which stands  *)
(* for its content and for its fingerprint (size and time of modification, *)
(* taken to change with every write); stamp 0 is a file without a header.  *)
(* Files may also be removed or replaced by hand, and so may the index.    *)
(***************************************************************************)
EXTENDS Naturals

CONSTANTS
  Paths,          (* numbers: the files of the project, in the order of their names *)
  Foreign,        (* a session of another file, for files replaced by hand          *)
  MaxStamp,       (* bound: writes of one file                                      *)
  MaxFaults,      (* bound: files or indexes touched by hand, crashes, busy index   *)
  MaxRepairs      (* bound: repairs and rebuilds                                    *)

ASSUME IndexConstantsOK ==
  /\ Paths \subseteq Nat /\ Foreign \in Nat \ Paths
  /\ MaxStamp \in Nat /\ MaxFaults \in Nat /\ MaxRepairs \in Nat

VARIABLES
  files,       (* path -> [session, stamp] of the files there are            *)
  born,        (* paths that were created once                               *)
  rows,        (* session -> [path, stamp]: table sessions                   *)
  marks,       (* session -> [path, stamp]: table session_repair_state       *)
  writer,      (* [path, step] of the store that creates and extends files   *)
  repair,      (* the repair or rebuild under way                            *)
  still,       (* history: no file changed since the repair began            *)
  used         (* the bounds used up                                         *)

indexVars == <<files, born, rows, marks, writer, repair, still, used>>

Sessions == Paths \cup {Foreign}
NoPath == 0
Without(f, x) == [y \in DOMAIN f \ {x} |-> f[y]]
With(f, x, v) == [y \in DOMAIN f \cup {x} |-> IF y = x THEN v ELSE f[y]]
File(owner, stamp) == [session |-> owner, stamp |-> stamp]
Mark(path, stamp)    == [path |-> path, stamp |-> stamp]
NoFiles == [p \in {} |-> File(Foreign, 0)]
Idle == [pc |-> "idle", found |-> NoFiles, stale |-> {}, todo |-> {},
         known |-> [p \in {} |-> Foreign], read |-> File(Foreign, 0)]

-----------------------------------------------------------------------------
(* The writer: create_session and the appends of an open session.  The row  *)
(* is written from the writer's own view once the file is.                  *)

Touched(p, file) == files' = With(files, p, file) /\ still' = FALSE

CreateFile(p) ==
  /\ writer.step = "idle" /\ p \notin born
  /\ Touched(p, File(p, 0)) /\ born' = born \cup {p}
  /\ writer' = [path |-> p, step |-> "created"]
  /\ UNCHANGED <<rows, marks, repair, used>>

(* The header, or a batch of entries of an open session.                    *)
WriteFile(p) ==
  /\ p \in DOMAIN files /\ files[p].session = p /\ files[p].stamp < MaxStamp
  /\ \/ writer = [path |-> p, step |-> "created"]
     \/ writer.step = "idle" /\ files[p].stamp > 0
  /\ Touched(p, File(p, files[p].stamp + 1))
  /\ writer' = [path |-> p, step |-> "written"]
  /\ UNCHANGED <<born, rows, marks, repair, used>>

UpsertOwnRow ==
  /\ writer.step = "written"
  /\ rows' = With(rows, writer.path, Mark(writer.path, files[writer.path].stamp))
  /\ writer' = [path |-> NoPath, step |-> "idle"]
  /\ UNCHANGED <<files, born, marks, repair, still, used>>

(* Something goes wrong, within the bound.                                  *)
Fault == used.faults < MaxFaults /\ used' = [used EXCEPT !.faults = @ + 1]

(* The index stayed locked for longer than the busy timeout.                *)
UpsertOwnRowFails ==
  /\ writer.step = "written" /\ Fault
  /\ writer' = [path |-> NoPath, step |-> "idle"]
  /\ UNCHANGED <<files, born, rows, marks, repair, still>>

RemoveFile(p) ==
  /\ p \in DOMAIN files /\ writer.path # p /\ Fault
  /\ files' = Without(files, p) /\ still' = FALSE
  /\ UNCHANGED <<born, rows, marks, writer, repair>>

ReplaceFile(p) ==
  /\ p \in DOMAIN files /\ writer.path # p /\ Fault
  /\ Foreign \notin {files[q].session : q \in DOMAIN files}
  /\ files[p].stamp < MaxStamp
  /\ Touched(p, File(Foreign, files[p].stamp + 1))
  /\ UNCHANGED <<born, rows, marks, writer, repair>>

(* The process ends between two statements; the next one opens the store.   *)
Crash ==
  /\ Fault /\ (writer.step # "idle" \/ repair.pc # "idle")
  /\ writer' = [path |-> NoPath, step |-> "idle"] /\ repair' = Idle
  /\ UNCHANGED <<files, born, rows, marks, still>>

-----------------------------------------------------------------------------
(* repair.rs.                                                               *)

Begin(pc) ==
  /\ repair.pc = "idle" /\ used.repairs < MaxRepairs
  /\ used' = [used EXCEPT !.repairs = @ + 1]
  /\ still' = TRUE
  /\ repair' = [Idle EXCEPT !.pc = pc, !.found = files]

(* collect_jsonl_files, with the fingerprint of each file.                  *)
CollectFiles == Begin("load") /\ UNCHANGED <<files, born, rows, marks, writer>>

First(paths) == CHOOSE p \in paths : \A q \in paths : p <= q
NextStep(r) == IF r.stale # {} THEN [r EXCEPT !.pc = "unmark"]
               ELSE IF r.todo # {} THEN [r EXCEPT !.pc = "extract"]
               ELSE [r EXCEPT !.pc = "list"]

(* indexed_by_path: of the rows with one path, any.                         *)
Indexed == {known \in [{rows[s].path : s \in DOMAIN rows} -> DOMAIN rows] :
              \A p \in DOMAIN known : rows[known[p]].path = p}

(* build_repair_plan: a row is indexed under its path, with its mark if it  *)
(* has one.                                                                 *)
IsFresh(p, known) ==
  /\ p \in DOMAIN known /\ known[p] \in DOMAIN marks
  /\ marks[known[p]].stamp = repair.found[p].stamp

LoadAndPlan ==
  /\ repair.pc = "load"
  /\ \E known \in Indexed :
       repair' = NextStep([repair EXCEPT
         !.stale = {s \in DOMAIN rows : rows[s].path \notin DOMAIN repair.found},
         !.todo = {p \in DOMAIN repair.found : ~IsFresh(p, known)},
         !.known = known])
  /\ UNCHANGED <<files, born, rows, marks, writer, still, used>>

(* delete_session_rows of a stale session: the mark first, then the row.    *)
DeleteMark ==
  /\ repair.pc = "unmark"
  /\ \E s \in repair.stale :
       /\ marks' = Without(marks, s)
       /\ repair' = [repair EXCEPT !.pc = "unlist", !.stale = {s} \cup @, !.read.session = s]
  /\ UNCHANGED <<files, born, rows, writer, still, used>>
DeleteRow ==
  /\ repair.pc = "unlist"
  /\ rows' = Without(rows, repair.read.session)
  /\ repair' = NextStep([repair EXCEPT !.stale = @ \ {repair.read.session}])
  /\ UNCHANGED <<files, born, marks, writer, still, used>>

(* extract_session_meta: a file that is gone or has no header ends the      *)
(* whole repair with an error.                                              *)
Extract ==
  /\ repair.pc = "extract"
  /\ LET p == First(repair.todo) IN
     IF p \notin DOMAIN files \/ files[p].stamp = 0 THEN repair' = Idle
     ELSE repair' = [repair EXCEPT !.pc = "forget", !.read = files[p]]
  /\ UNCHANGED <<files, born, rows, marks, writer, still, used>>

(* The path was indexed under another session: its rows go.  (Two           *)
(* statements that nothing but the last of them depends on.)                *)
ForgetReplaced ==
  /\ repair.pc = "forget"
  /\ LET p == First(repair.todo)
         other == IF p \in DOMAIN repair.known THEN {repair.known[p]} \ {repair.read.session}
                  ELSE {}
     IN  /\ rows'  = [s \in DOMAIN rows \ other |-> rows[s]]
         /\ marks' = [s \in DOMAIN marks \ other |-> marks[s]]
  /\ repair' = [repair EXCEPT !.pc = "row"]
  /\ UNCHANGED <<files, born, writer, still, used>>

UpsertRow ==
  /\ repair.pc = "row"
  /\ rows' = With(rows, repair.read.session, Mark(First(repair.todo), repair.read.stamp))
  /\ repair' = [repair EXCEPT !.pc = "mark"]
  /\ UNCHANGED <<files, born, marks, writer, still, used>>

(* Mutant: the fingerprint is taken once the file was read.                 *)
LateFingerprint(p) == IF p \in DOMAIN files THEN files[p].stamp ELSE 0

(* The fingerprint is the one the file was found with.                      *)
Fingerprint(p) == repair.found[p].stamp

(* upsert_repair_state; a path is marked once, under one session.           *)
UpsertMark ==
  /\ repair.pc = "mark"
  /\ LET p == First(repair.todo) IN
     IF \E s \in DOMAIN marks : s # repair.read.session /\ marks[s].path = p
     THEN repair' = Idle /\ UNCHANGED marks
     ELSE /\ marks' = With(marks, repair.read.session, Mark(p, Fingerprint(p)))
          /\ repair' = NextStep([repair EXCEPT !.todo = @ \ {p}])
  /\ UNCHANGED <<files, born, rows, writer, still, used>>

(* list_session_rows, with which the answer to the picker ends.             *)
ListRows ==
  /\ repair.pc = "list" /\ repair' = Idle
  /\ UNCHANGED <<files, born, rows, marks, writer, still, used>>

(* open_in with no index: rebuild_index_from_jsonl of every file.  A crash  *)
(* leaves a part of it, and an index that will not be rebuilt again.        *)
LoseIndex ==
  /\ repair.pc = "idle" /\ writer.step = "idle"
  /\ used.faults < MaxFaults /\ used.repairs < MaxRepairs
  /\ used' = [faults |-> used.faults + 1, repairs |-> used.repairs + 1]
  /\ rows' = NoFiles /\ marks' = NoFiles
  /\ still' = TRUE
  /\ repair' = NextStep([Idle EXCEPT !.found = files, !.todo = DOMAIN files])
  /\ UNCHANGED <<files, born, writer>>

IndexInit ==
  /\ files = NoFiles /\ born = {}
  /\ rows = NoFiles /\ marks = NoFiles
  /\ writer = [path |-> NoPath, step |-> "idle"]
  /\ repair = Idle /\ still = TRUE
  /\ used = [faults |-> 0, repairs |-> 0]

Repair == LoadAndPlan \/ DeleteMark \/ DeleteRow \/ Extract \/ ForgetReplaced \/ UpsertRow
          \/ UpsertMark \/ ListRows

IndexNext ==
  \/ \E p \in Paths : CreateFile(p) \/ WriteFile(p) \/ RemoveFile(p) \/ ReplaceFile(p)
  \/ UpsertOwnRow \/ UpsertOwnRowFails \/ Crash \/ LoseIndex
  \/ CollectFiles \/ Repair

-----------------------------------------------------------------------------
(* The files, the tables and where the repair stands.                       *)
IndexTypeOK ==
  /\ DOMAIN files \subseteq born /\ born \subseteq Paths
  /\ \A s \in DOMAIN rows : s \in Sessions /\ rows[s].path \in Paths
  /\ DOMAIN marks \subseteq Sessions
  /\ repair.pc \in {"idle", "load", "unmark", "unlist", "extract", "forget", "row", "mark",
                    "list"}

(* A mark that fits the file says that its row was derived from the whole   *)
(* of it: the row will not be derived again, so it must never be older.     *)
MarkedRowIsFresh ==
  \A s \in DOMAIN marks :
    LET p == marks[s].path IN
    (/\ p \in DOMAIN files
     /\ files[p] = File(s, marks[s].stamp))
    => s \in DOMAIN rows /\ rows[s] = marks[s]

(* A mark never outlives its row: the path would be taken for ever.         *)
MarksHaveRows == DOMAIN marks \subseteq DOMAIN rows

(* The list a repair ends with holds the session of every file as it is,    *)
(* and no session of a path without a file, if no file changed while it     *)
(* ran: whatever a crash, a failed statement, a lost index or an earlier    *)
(* repair left behind.  (A path may still be listed a second time, under    *)
(* the session a file had before it was replaced in the middle of a repair: *)
(* of two rows with one path the repair sees one.)                          *)
RepairedListIsTrue ==
  repair.pc = "list" /\ still =>
    /\ \A p \in DOMAIN files :
         files[p].session \in DOMAIN rows
         /\ rows[files[p].session] = Mark(p, files[p].stamp)
    /\ {rows[s].path : s \in DOMAIN rows} \subseteq DOMAIN files

(* What the picker may count on.                                            *)
IndexIsTrue == IndexTypeOK /\ MarkedRowIsFresh /\ MarksHaveRows /\ RepairedListIsTrue
=============================================================================
