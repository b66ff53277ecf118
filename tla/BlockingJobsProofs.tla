------------------------- MODULE BlockingJobsProofs -------------------------
(***************************************************************************)
(* Proofs about the work done on threads that may block: the file tools    *)
(* (WorkspaceFiles), the shell command (BashCommand) and the computation   *)
(* of the context budget (ContextBudget), which share no state.            *)
(***************************************************************************)
EXTENDS WorkspaceFiles, BashCommand, ContextBudget, TLAPS, SequenceTheorems

-----------------------------------------------------------------------------
(***************************************************************************)
(* Proofs, for any turns, lines and bounds, that the file tools overwrite  *)
(* nothing unseen and do what was approved, while others do not save       *)
(* between a tool's check and its write.                                   *)
(*                                                                         *)
(* Neither property is inductive.  What a call compared is still on disk   *)
(* when it writes (CheckedIsOnDisk), because nobody else writes in between *)
(* (OneHolder): the queue of mutations lets one call at a time past its    *)
(* lock.  The content compared is that of the preview if there was one     *)
(* (BasisIsThePreview), so that the text computed from the second reading  *)
(* is the one the user was shown (PlanIsTheResult, PromiseIsOfThePreview). *)
(***************************************************************************)

Holding  == {"stat", "check", "compare", "reread", "write", "fill", "written", "release"}
Mutating == {"asked", "lock", "wait", "woken"} \cup Holding
Unbased  == {"idle", "read", "asked", "lock", "wait", "woken", "stat", "check"}

(* The path is active while a call is past its lock, and one call is.      *)
OneHolder ==
  /\ \A t \in Turns : pc[t] \in Holding => held
  /\ \A t, u \in Turns : pc[t] \in Holding /\ pc[u] \in Holding => t = u

CallIsAMutation == \A t \in Turns : pc[t] \in Mutating => call[t] \in Writes \cup Edits

(* A call starts without a basis, and without a basis it may only create.  *)
StartsWithoutABasis == \A t \in Turns : pc[t] \in Unbased => basis[t] = Absent

(* What was read is a content, and so is what will be written.             *)
ContentsAreThere ==
  \A t \in Turns : /\ pc[t] = "record" => basis[t] \in Contents
                   /\ pc[t] \in {"write", "fill", "written"} => plan[t] \in Contents

CheckedIsOnDisk == \A t \in Turns : pc[t] \in {"reread", "write"} => file = basis[t]

PromiseIsOfThePreview ==
  \A t \in Turns : pc[t] \in Mutating /\ shown[t] # Absent =>
    promised[t] = ResultOf(call[t], shown[t])

BasisIsThePreview ==
  \A t \in Turns : pc[t] \in {"compare", "reread"} /\ shown[t] # Absent =>
    basis[t] = shown[t]

PlanIsTheResult ==
  \A t \in Turns : pc[t] = "write" =>
    /\ plan[t] = ResultOf(call[t], file)
    /\ file = Absent => call[t].tool = "write"
    /\ shown[t] # Absent => file \in {shown[t], Absent}

FilesInv ==
  /\ FilesTypeOK
  /\ OneHolder
  /\ CallIsAMutation
  /\ StartsWithoutABasis
  /\ ContentsAreThere
  /\ CheckedIsOnDisk
  /\ PromiseIsOfThePreview
  /\ BasisIsThePreview
  /\ PlanIsTheResult
  /\ NothingUnseenIsOverwritten
  /\ ApprovedIsWhatHappens

-----------------------------------------------------------------------------
(* What a mutation makes of a content it accepts is a content.             *)
LEMMA ResultIsAContent ==
  ASSUME NEW c \in Writes \cup Edits, NEW content \in OnDisk, Accepts(c, content)
  PROVE  ResultOf(c, content) \in Contents
<1>1. CASE c \in Writes
  BY <1>1 DEF Writes, ResultOf, Contents
<1>2. CASE c \in Edits
  <2>1. c.tool = "edit" /\ c.from \in Lines /\ c.to \in SUBSET Lines
    BY <1>2 DEF Edits, NoLine
  <2>2. content \in SUBSET Lines
    BY <2>1 DEF Accepts, Applies, OnDisk, Contents
  <2> QED
    BY <2>1, <2>2 DEF ResultOf, Applied, Contents
<1> QED
  BY <1>1, <1>2

(* Before any call everything has its type.                                *)
LEMMA TypeInit == FilesInit => FilesTypeOK
<1> SUFFICES ASSUME FilesInit PROVE FilesTypeOK
  OBVIOUS
<1> USE DEF FilesInit, OnDisk, Places
<1>1. file \in OnDisk /\ readState \in Snapshots \cup {Unread} /\ held \in BOOLEAN
  OBVIOUS
<1>2. pc \in [Turns -> Places]
  OBVIOUS
<1>3. call \in [Turns -> Writes \cup Edits \cup Reads \cup {Idle}]
  OBVIOUS
<1>4. /\ shown \in [Turns -> OnDisk] /\ promised \in [Turns -> OnDisk]
      /\ basis \in [Turns -> OnDisk] /\ plan \in [Turns -> OnDisk]
      /\ replaced \in [Turns -> OnDisk]
  OBVIOUS
<1>5. cancelled \subseteq Turns /\ calls \in 0..MaxCalls /\ saves \in 0..MaxSaves
  BY FilesAssumption DEF FilesAssumption
<1> QED
  BY <1>1, <1>2, <1>3, <1>4, <1>5 DEF FilesTypeOK

(* Every step keeps the types, given that only mutations get past the lock.*)
LEMMA TypeStep == FilesInv /\ [FilesNext]_fileVars => FilesTypeOK'
<1> SUFFICES ASSUME FilesInv, [FilesNext]_fileVars PROVE FilesTypeOK'
  OBVIOUS
<1> USE FilesAssumption DEF FilesAssumption, FilesInv, FilesTypeOK, Places, locals, Goto, At
<1>1. ASSUME NEW t \in Turns, StartRead(t) PROVE FilesTypeOK'
  BY <1>1 DEF StartRead, Reads
<1>2. ASSUME NEW t \in Turns, Preview(t) PROVE FilesTypeOK'
  <2>1. PICK c \in Writes \cup Edits : /\ Accepts(c, file)
                                       /\ call' = [call EXCEPT ![t] = c]
                                       /\ promised' = [promised EXCEPT ![t] = ResultOf(c, file)]
    BY <1>2 DEF Preview
  <2>2. ResultOf(c, file) \in OnDisk
    BY <2>1, ResultIsAContent DEF OnDisk
  <2> QED
    BY <1>2, <2>1, <2>2 DEF Preview
<1>3. ASSUME NEW t \in Turns, Allow(t) \/ Deny(t) \/ CancelTurn(t) PROVE FilesTypeOK'
  BY <1>3 DEF Allow, Deny, CancelTurn, Forget, OnDisk
<1>4. ASSUME NEW t \in Turns, ReadStep(t) PROVE FilesTypeOK'
  <2>1. CASE ReadFile(t)
    BY <2>1 DEF ReadFile
  <2>2. CASE RecordRead(t)
    BY <2>2 DEF RecordRead, OnDisk, Snapshots, ContentsAreThere
  <2>3. CASE ReadFails(t)
    BY <2>3 DEF ReadFails
  <2> QED
    BY <1>4, <2>1, <2>2, <2>3 DEF ReadStep
<1>5. ASSUME NEW t \in Turns, MutationStep(t) PROVE FilesTypeOK'
  <2>1. CASE Lock(t) \/ Relock(t) \/ Interrupted(t) \/ Release(t) \/ Refuse(t) \/ Compare(t)
    BY <2>1 DEF Lock, Relock, Interrupted, Release, Refuse, Compare, Forget, OnDisk
  <2>2. CASE Stat(t)
    BY <2>2 DEF Stat, CallIsAMutation, Mutating, Holding, Writes, Edits, OnDisk
  <2>3. CASE Check(t)
    BY <2>3 DEF Check, Snapshots, Unread, OnDisk
  <2>4. CASE Reread(t)
    <3>1. ResultOf(call[t], file) \in OnDisk
      BY <2>4, ResultIsAContent DEF Reread, CallIsAMutation, Mutating, Holding, OnDisk
    <3> QED
      BY <2>4, <3>1 DEF Reread
  <2>5. CASE Truncate(t)
    BY <2>5 DEF Truncate, OnDisk, Contents
  <2>6. CASE Fill(t)
    BY <2>6 DEF Fill
  <2>7. CASE FillFails(t)
    <3>1. file' \in OnDisk
      BY <2>7 DEF FillFails, OnDisk, Contents, Absent
    <3> QED
      BY <2>7, <3>1 DEF FillFails
  <2>8. CASE RecordWritten(t)
    <3>1. [content |-> plan[t], complete |-> TRUE] \in Snapshots
      BY <2>8 DEF RecordWritten, Snapshots, ContentsAreThere
    <3> QED
      BY <2>8, <3>1 DEF RecordWritten
  <2> QED
    BY <1>5, <2>1, <2>2, <2>3, <2>4, <2>5, <2>6, <2>7, <2>8 DEF MutationStep
<1>6. CASE Save
  BY <1>6 DEF Save
<1>7. CASE UNCHANGED fileVars
  BY <1>7 DEF fileVars
<1> QED
  BY <1>1, <1>2, <1>3, <1>4, <1>5, <1>6, <1>7 DEF FilesNext

-----------------------------------------------------------------------------
(* Who may be past the lock: the mutex of the queue, and its wake-ups.     *)
LEMMA HolderStep == FilesInv /\ [FilesNext]_fileVars => OneHolder'
<1> SUFFICES ASSUME FilesInv, [FilesNext]_fileVars PROVE OneHolder'
  OBVIOUS
<1> USE DEF FilesInv, FilesTypeOK, OneHolder, Holding, Goto, At
<1>1. ASSUME NEW t \in Turns,
             StartRead(t) \/ Preview(t) \/ Allow(t) \/ Deny(t) \/ CancelTurn(t) \/ ReadStep(t)
      PROVE  OneHolder'
  BY <1>1 DEF StartRead, Preview, Allow, Deny, CancelTurn, ReadStep, ReadFile, RecordRead,
              ReadFails
<1>2. ASSUME NEW t \in Turns, MutationStep(t) PROVE OneHolder'
  <2>1. CASE Lock(t) \/ Relock(t) \/ Interrupted(t)
    BY <2>1 DEF Lock, Relock, Interrupted
  <2>2. CASE Stat(t) \/ Check(t) \/ Compare(t) \/ Reread(t)
    BY <2>2 DEF Stat, Check, Compare, Reread
  <2>3. CASE Refuse(t) \/ Truncate(t) \/ Fill(t) \/ FillFails(t) \/ RecordWritten(t)
    BY <2>3 DEF Refuse, Truncate, Fill, FillFails, RecordWritten
  <2>4. CASE Release(t)
    BY <2>4 DEF Release
  <2> QED
    BY <1>2, <2>1, <2>2, <2>3, <2>4 DEF MutationStep
<1>3. CASE Save \/ UNCHANGED fileVars
  BY <1>3 DEF Save, fileVars
<1> QED
  BY <1>1, <1>2, <1>3 DEF FilesNext

(* What a call is, before it has a basis and once it has one.              *)
LEMMA CallStep ==
  FilesInv /\ [FilesNext]_fileVars =>
    CallIsAMutation' /\ StartsWithoutABasis' /\ ContentsAreThere'
<1> DEFINE Local == CallIsAMutation /\ StartsWithoutABasis /\ ContentsAreThere
<1> SUFFICES ASSUME FilesInv, [FilesNext]_fileVars PROVE Local'
  OBVIOUS
<1> USE DEF FilesInv, FilesTypeOK, CallIsAMutation, StartsWithoutABasis, ContentsAreThere,
        Mutating, Unbased, Holding, Goto, At, locals
<1>1. ASSUME NEW t \in Turns, StartRead(t) \/ Allow(t) \/ Deny(t) \/ CancelTurn(t)
      PROVE  Local'
  BY <1>1 DEF StartRead, Allow, Deny, CancelTurn, Forget
<1>2. ASSUME NEW t \in Turns, Preview(t) PROVE Local'
  BY <1>2 DEF Preview
<1>3. ASSUME NEW t \in Turns, ReadStep(t) PROVE Local'
  BY <1>3 DEF ReadStep, ReadFile, RecordRead, ReadFails, OnDisk
<1>4. ASSUME NEW t \in Turns, MutationStep(t) PROVE Local'
  <2>1. CASE Lock(t) \/ Relock(t) \/ Interrupted(t)
    BY <2>1 DEF Lock, Relock, Interrupted, Forget
  <2>2. CASE Stat(t)
    BY <2>2 DEF Stat, Writes, Edits
  <2>3. CASE Check(t) \/ Compare(t) \/ Refuse(t)
    BY <2>3 DEF Check, Compare, Refuse
  <2>4. CASE Reread(t)
    <3>1. ResultOf(call[t], file) \in Contents
      BY <2>4, ResultIsAContent DEF Reread
    <3> QED
      BY <2>4, <3>1 DEF Reread
  <2>5. CASE Truncate(t) \/ Fill(t) \/ FillFails(t) \/ RecordWritten(t)
    BY <2>5 DEF Truncate, Fill, FillFails, RecordWritten
  <2>6. CASE Release(t)
    BY <2>6 DEF Release, Forget
  <2> QED
    BY <1>4, <2>1, <2>2, <2>3, <2>4, <2>5, <2>6 DEF MutationStep
<1>5. CASE Save \/ UNCHANGED fileVars
  BY <1>5 DEF Save, fileVars
<1> QED
  BY <1>1, <1>2, <1>3, <1>4, <1>5 DEF FilesNext

(* What was compared stays on disk until it is overwritten.                *)
LEMMA CheckedStep ==
  ~RacingUser /\ FilesInv /\ [FilesNext]_fileVars =>
    CheckedIsOnDisk' /\ NothingUnseenIsOverwritten'
<1> DEFINE Kept == CheckedIsOnDisk /\ NothingUnseenIsOverwritten
<1> SUFFICES ASSUME ~RacingUser, FilesInv, [FilesNext]_fileVars PROVE Kept'
  OBVIOUS
<1> USE DEF FilesInv, FilesTypeOK, CheckedIsOnDisk, NothingUnseenIsOverwritten, Goto, At, locals
<1>1. ASSUME NEW t \in Turns,
             StartRead(t) \/ Preview(t) \/ Allow(t) \/ Deny(t) \/ CancelTurn(t) \/ ReadStep(t)
      PROVE  Kept'
  BY <1>1 DEF StartRead, Preview, Allow, Deny, CancelTurn, ReadStep, ReadFile, RecordRead,
              ReadFails, Forget
<1>2. ASSUME NEW t \in Turns, MutationStep(t) PROVE Kept'
  <2>1. CASE Lock(t) \/ Relock(t) \/ Interrupted(t) \/ Release(t) \/ Refuse(t)
    BY <2>1 DEF Lock, Relock, Interrupted, Release, Refuse, Forget
  <2>2. CASE Stat(t)
    BY <2>2 DEF Stat, StartsWithoutABasis, Unbased
  <2>3. CASE Check(t) \/ Compare(t) \/ Reread(t)
    BY <2>3 DEF Check, Compare, Reread
  <2>4. CASE Truncate(t)
    BY <2>4 DEF Truncate, OneHolder, Holding
  <2>5. CASE Fill(t) \/ FillFails(t) \/ RecordWritten(t)
    BY <2>5 DEF Fill, FillFails, RecordWritten, OneHolder, Holding
  <2> QED
    BY <1>2, <2>1, <2>2, <2>3, <2>4, <2>5 DEF MutationStep
<1>3. CASE Save
  BY <1>3 DEF Save, Checked
<1>4. CASE UNCHANGED fileVars
  BY <1>4 DEF fileVars
<1> QED
  BY <1>1, <1>2, <1>3, <1>4 DEF FilesNext

(* A call that may create, or whose edit applied, does what it was asked,  *)
(* whether the file has gone meanwhile or not.                             *)
LEMMA WritesAnything ==
  ASSUME NEW c \in Writes \cup Edits, c.tool = "write", NEW old, NEW new
  PROVE  ResultOf(c, old) = ResultOf(c, new)
BY DEF ResultOf

(* The promise made to the user: from the preview to the second reading.   *)
LEMMA PromiseStep ==
  FilesInv /\ [FilesNext]_fileVars => PromiseIsOfThePreview' /\ BasisIsThePreview'
<1> DEFINE Promise == PromiseIsOfThePreview /\ BasisIsThePreview
<1> SUFFICES ASSUME FilesInv, [FilesNext]_fileVars PROVE Promise'
  OBVIOUS
<1> USE DEF FilesInv, FilesTypeOK, PromiseIsOfThePreview, BasisIsThePreview, Mutating, Holding,
            Goto, At, locals
<1>1. ASSUME NEW t \in Turns, StartRead(t) \/ Allow(t) \/ Deny(t) \/ CancelTurn(t)
      PROVE  Promise'
  BY <1>1 DEF StartRead, Allow, Deny, CancelTurn, Forget
<1>2. ASSUME NEW t \in Turns, Preview(t) PROVE Promise'
  BY <1>2 DEF Preview
<1>3. ASSUME NEW t \in Turns, ReadStep(t) PROVE Promise'
  BY <1>3 DEF ReadStep, ReadFile, RecordRead, ReadFails
<1>4. ASSUME NEW t \in Turns, MutationStep(t) PROVE Promise'
  <2>1. CASE Lock(t) \/ Relock(t) \/ Interrupted(t) \/ Release(t) \/ Refuse(t)
    BY <2>1 DEF Lock, Relock, Interrupted, Release, Refuse, Forget
  <2>2. CASE Stat(t) \/ Check(t) \/ Compare(t) \/ Reread(t)
    BY <2>2 DEF Stat, Check, Compare, Reread
  <2>3. CASE Truncate(t) \/ Fill(t) \/ FillFails(t) \/ RecordWritten(t)
    BY <2>3 DEF Truncate, Fill, FillFails, RecordWritten
  <2> QED
    BY <1>4, <2>1, <2>2, <2>3 DEF MutationStep
<1>5. CASE Save \/ UNCHANGED fileVars
  BY <1>5 DEF Save, fileVars
<1> QED
  BY <1>1, <1>2, <1>3, <1>4, <1>5 DEF FilesNext

(* The plan is what the call makes of the file that is about to be         *)
(* overwritten, and that file is the one of the preview, or is gone.       *)
LEMMA PlanStep ==
  ~RacingUser /\ FilesInv /\ [FilesNext]_fileVars => PlanIsTheResult'
<1> SUFFICES ASSUME ~RacingUser, FilesInv, [FilesNext]_fileVars PROVE PlanIsTheResult'
  OBVIOUS
<1> USE DEF FilesInv, FilesTypeOK, PlanIsTheResult, Goto, At, locals
<1>1. ASSUME NEW t \in Turns,
             StartRead(t) \/ Preview(t) \/ Allow(t) \/ Deny(t) \/ CancelTurn(t) \/ ReadStep(t)
      PROVE  PlanIsTheResult'
  BY <1>1 DEF StartRead, Preview, Allow, Deny, CancelTurn, ReadStep, ReadFile, RecordRead,
              ReadFails, Forget
<1>2. ASSUME NEW t \in Turns, MutationStep(t) PROVE PlanIsTheResult'
  <2>1. CASE Lock(t) \/ Relock(t) \/ Interrupted(t) \/ Release(t) \/ Refuse(t)
    BY <2>1 DEF Lock, Relock, Interrupted, Release, Refuse, Forget
  <2>2. CASE Stat(t)
    <3>1. CASE pc'[t] = "write"
      <4>1. file = Absent /\ call[t].tool = "write" /\ plan' = [plan EXCEPT ![t] = call[t].content]
        BY <2>2, <3>1 DEF Stat
      <4>2. plan'[t] = ResultOf(call[t], file)
        BY <4>1 DEF ResultOf
      <4> QED
        BY <2>2, <4>1, <4>2 DEF Stat
    <3>2. CASE pc'[t] # "write"
      BY <2>2, <3>2 DEF Stat
    <3> QED
      BY <3>1, <3>2
  <2>3. CASE Check(t) \/ Compare(t)
    BY <2>3 DEF Check, Compare
  <2>4. CASE Reread(t)
    BY <2>4 DEF Reread, CheckedIsOnDisk, BasisIsThePreview
  <2>5. CASE Truncate(t) \/ Fill(t) \/ FillFails(t) \/ RecordWritten(t)
    BY <2>5 DEF Truncate, Fill, FillFails, RecordWritten, OneHolder, Holding
  <2> QED
    BY <1>2, <2>1, <2>2, <2>3, <2>4, <2>5 DEF MutationStep
<1>3. CASE Save
  BY <1>3 DEF Save, Checked
<1>4. CASE UNCHANGED fileVars
  BY <1>4 DEF fileVars
<1> QED
  BY <1>1, <1>2, <1>3, <1>4 DEF FilesNext

(* What is written is what was promised.                                   *)
LEMMA ApprovedStep == FilesInv /\ [FilesNext]_fileVars => ApprovedIsWhatHappens'
<1> DEFINE Approved == \A t \in Turns : pc[t] \in {"fill", "written"} /\ shown[t] # Absent =>
                         replaced[t] \in {shown[t], Absent} /\ plan[t] = promised[t]
<1> SUFFICES ASSUME FilesInv, [FilesNext]_fileVars PROVE Approved'
  BY TypeStep DEF ApprovedIsWhatHappens
<1> USE DEF FilesInv, FilesTypeOK, ApprovedIsWhatHappens, Goto, At, locals
<1>1. ASSUME NEW t \in Turns,
             StartRead(t) \/ Preview(t) \/ Allow(t) \/ Deny(t) \/ CancelTurn(t) \/ ReadStep(t)
      PROVE  Approved'
  BY <1>1 DEF StartRead, Preview, Allow, Deny, CancelTurn, ReadStep, ReadFile, RecordRead,
              ReadFails, Forget
<1>2. ASSUME NEW t \in Turns, MutationStep(t) PROVE Approved'
  <2>1. CASE Lock(t) \/ Relock(t) \/ Interrupted(t) \/ Release(t) \/ Refuse(t)
    BY <2>1 DEF Lock, Relock, Interrupted, Release, Refuse, Forget
  <2>2. CASE Stat(t) \/ Check(t) \/ Compare(t) \/ Reread(t)
    BY <2>2 DEF Stat, Check, Compare, Reread
  <2>3. CASE Truncate(t)
    <3>1. CASE shown[t] = Absent
      BY <2>3, <3>1 DEF Truncate
    <3>2. CASE shown[t] # Absent
      <4>1. pc[t] = "write" /\ call[t] \in Writes \cup Edits
        BY <2>3 DEF Truncate, CallIsAMutation, Mutating, Holding
      <4>2. /\ promised[t] = ResultOf(call[t], shown[t])
            /\ plan[t] = ResultOf(call[t], file) /\ file \in {shown[t], Absent}
        BY <3>2, <4>1 DEF PromiseIsOfThePreview, Mutating, Holding, PlanIsTheResult
      <4>3. plan[t] = promised[t]
        BY <4>1, <4>2, WritesAnything DEF PlanIsTheResult
      <4> QED
        BY <2>3, <4>2, <4>3 DEF Truncate
    <3> QED
      BY <3>1, <3>2
  <2>4. CASE Fill(t) \/ FillFails(t) \/ RecordWritten(t)
    BY <2>4 DEF Fill, FillFails, RecordWritten
  <2> QED
    BY <1>2, <2>1, <2>2, <2>3, <2>4 DEF MutationStep
<1>3. CASE Save \/ UNCHANGED fileVars
  BY <1>3 DEF Save, fileVars
<1> QED
  BY <1>1, <1>2, <1>3 DEF FilesNext

-----------------------------------------------------------------------------
(* While others do not save between a check and its write, the invariant   *)
(* that ties a call's basis to the file and to its preview holds.          *)
THEOREM FilesInvariant == ~RacingUser /\ FilesSpec => []FilesInv
<1>1. FilesInit => FilesInv
  BY TypeInit DEF FilesInit, FilesInv, OneHolder, Holding, CallIsAMutation, Mutating,
     StartsWithoutABasis, ContentsAreThere, CheckedIsOnDisk, PromiseIsOfThePreview,
     BasisIsThePreview, PlanIsTheResult, NothingUnseenIsOverwritten, ApprovedIsWhatHappens
<1>2. ~RacingUser /\ FilesInv /\ [FilesNext]_fileVars => FilesInv'
  BY TypeStep, HolderStep, CallStep, CheckedStep, PromiseStep, PlanStep, ApprovedStep DEF FilesInv
<1> QED
  <2> SUFFICES ASSUME ~RacingUser PROVE FilesSpec => []FilesInv
    OBVIOUS
  <2>1. FilesInv /\ [FilesNext]_fileVars => FilesInv'
    BY <1>2
  <2> QED
    BY <1>1, <2>1, PTL DEF FilesSpec

(* mutation.rs: two calls never have one path at a time.                   *)
THEOREM OnePathOneHolder == ~RacingUser /\ FilesSpec => []OneHolder
BY FilesInvariant, PTL DEF FilesInv

(* mutation.rs, ensure_existing_file_was_read: a tool overwrites only what *)
(* its check was about, however many turns overlap.                        *)
THEOREM NoUpdateIsLost == ~RacingUser /\ FilesSpec => []NothingUnseenIsOverwritten
BY FilesInvariant, PTL DEF FilesInv

(* permission_preview and the tools: what is approved is what is written.  *)
THEOREM ApprovalsAreKept == ~RacingUser /\ FilesSpec => []ApprovedIsWhatHappens
BY FilesInvariant, PTL DEF FilesInv

-----------------------------------------------------------------------------
(***************************************************************************)
(* Proofs, for every bound on the output and on what is shown of it, of    *)
(* the safety invariants of BashCommand.                                   *)
(*                                                                         *)
(* The argument: the loop answers only with the status of the shell it has *)
(* reaped, and a shell that was reaped ends no other way                   *)
(* (StatusIsTheExit); it kills for a reason it was given, once, and with   *)
(* the group (KilledForAReason).  What was written is received, in the     *)
(* channel or in the pipe, in order (OutputIsOnItsWay), so that when the   *)
(* reader has left the pipe and the channel is empty all of it was         *)
(* received (ClosedMeansRead); and what was received is in memory, or in   *)
(* the file and its end in memory (OutputIsKept).                          *)
(***************************************************************************)

(* The first chunks that were written. *)
Upto(n) == [i \in 1..n |-> i]

CommandTypes ==
  /\ shell \in {"new", "running", "exited", "killed", "reaped"}
  /\ exit \in {"none", "ok", "code", "signal"}
  /\ background \in {"none", "grouped", "escaped", "gone"}
  /\ written \in Nat
  /\ pipe \in Seq(Nat) /\ channel \in Seq(Nat) /\ received \in Seq(Nat)
  /\ reader \in {"open", "done"}
  /\ request \in [cancelled : BOOLEAN, timeout : BOOLEAN, expired : BOOLEAN]
  /\ select \in [status : {"none", "ok", "code", "signal"}, closed : BOOLEAN,
                 reason : {"exited", "cancelled", "timedOut"}, drain : {"off", "armed", "expired"}]
  /\ output \in [prefix : Seq(Nat), tail : Seq(Nat), file : Seq(Nat)]
  /\ terminal \in {"none", "open", "released"}
  /\ result \in {"none", "success", "failed", "timedOut", "aborted", "error"}

(* The loop knows how the shell ended once it has reaped it, which is the last
   that happens to it. *)
StatusIsTheExit ==
  /\ HasExited => shell = "reaped" /\ select.status = exit
  /\ shell \in {"new", "running"} => exit = "none"
  /\ shell \in {"exited", "killed"} => exit # "none"
  /\ shell = "new" => background = "none" /\ ~HasExited
  /\ select.drain # "off" => HasExited

(* The loop kills once and for a reason it was given, and the group with the
   shell. *)
KilledForAReason ==
  /\ select.reason = "cancelled" => request.cancelled
  /\ select.reason = "timedOut" => request.expired
  /\ select.reason # "exited" => shell \notin {"new", "running"} /\ background # "grouped"

(* What an answer was made from is still there. *)
AnswerIsOfTheLoop ==
  result \notin {"none", "error"} =>
    /\ HasExited
    /\ result = "success" => select.status = "ok" /\ select.reason = "exited"
    /\ result = "aborted" => select.reason = "cancelled"
    /\ result = "timedOut" => select.reason = "timedOut"
    /\ select.closed

(* While the loop runs, what was written is received, in the channel or in the
   pipe, in order; the reader is done when all of it is read and nobody is left
   to write. *)
OnItsWay == received \o channel \o pipe
OutputIsOnItsWay ==
  /\ result = "none" => OnItsWay = Upto(written)
  /\ reader = "done" /\ result = "none" => ~Alive /\ pipe = <<>> /\ shell # "new"

(* A channel that was closed by its reader has handed over everything. *)
ClosedMeansRead ==
  select.closed /\ select.drain # "expired" =>
    /\ ~Alive /\ shell # "new" /\ reader = "done"
    /\ received = Upto(written)

(* OutputAccumulator: all in memory, or all in the file and the end in memory. *)
OutputIsKept ==
  IF Truncated
  THEN output.file = received /\ output.tail = LastOf(received, 2 * MaxOutput)
  ELSE output.file = NoSpill /\ output.prefix = received /\ output.tail = received

CommandInv ==
  /\ CommandTypes
  /\ StatusIsTheExit
  /\ KilledForAReason
  /\ AnswerIsOfTheLoop
  /\ OutputIsOnItsWay
  /\ ClosedMeansRead
  /\ OutputIsKept

-----------------------------------------------------------------------------
(* The end of a sequence. *)

IsEnd(l, s, n) == Len(l) = n /\ \A i \in 1..n : l[i] = s[Len(s) - n + i]

(* The last n of a sequence are all of it, or n that end where it does. *)
LEMMA LastOfFacts ==
  ASSUME NEW T, NEW s \in Seq(T), NEW n \in Nat
  PROVE  /\ LastOf(s, n) \in Seq(T)
         /\ Len(s) <= n => LastOf(s, n) = s
         /\ Len(s) > n => IsEnd(LastOf(s, n), s, n)
<1>1. CASE Len(s) <= n
  BY <1>1 DEF LastOf
<1>2. CASE Len(s) > n
  <2> DEFINE a == Len(s) - n + 1
  <2>1. Len(s) \in Nat /\ a \in Int /\ a >= 1 /\ a <= Len(s) + 1
    BY <1>2
  <2>2. \A i \in a..Len(s) : s[i] \in T
    BY <2>1
  <2>3. LastOf(s, n) = SubSeq(s, a, Len(s))
    BY <1>2 DEF LastOf
  <2> HIDE DEF a
  <2>4. /\ SubSeq(s, a, Len(s)) \in Seq(T)
        /\ Len(SubSeq(s, a, Len(s))) = IF a <= Len(s) THEN Len(s) - a + 1 ELSE 0
        /\ \A i \in 1..Len(s) - a + 1 : SubSeq(s, a, Len(s))[i] = s[a + i - 1]
    BY <2>1, <2>2, SubSeqProperties
  <2>5. Len(s) - a + 1 = n /\ \A i \in 1..n : a + i - 1 = Len(s) - n + i
    BY <2>1 DEF a
  <2>6. Len(SubSeq(s, a, Len(s))) = n
    BY <2>1, <2>4, <2>5
  <2>7. \A i \in 1..n : SubSeq(s, a, Len(s))[i] = s[Len(s) - n + i]
    BY <2>4, <2>5
  <2> QED BY <1>2, <2>3, <2>4, <2>6, <2>7 DEF IsEnd
<1>3. Len(s) \in Nat
  OBVIOUS
<1> QED BY <1>1, <1>2, <1>3

(* Sequences with the same elements are the same. *)
LEMMA SameSequence ==
  ASSUME NEW T, NEW s \in Seq(T), NEW u \in Seq(T), Len(s) = Len(u),
         \A i \in 1..Len(s) : s[i] = u[i]
  PROVE  s = u
OBVIOUS

(* What Append adds and what it leaves. *)
LEMMA AppendFacts ==
  ASSUME NEW T, NEW s \in Seq(T), NEW e \in T
  PROVE  /\ Append(s, e) \in Seq(T) /\ Len(s) \in Nat /\ Len(Append(s, e)) = Len(s) + 1
         /\ Append(s, e)[Len(s) + 1] = e
         /\ \A i \in 1..Len(s) : Append(s, e)[i] = s[i]
OBVIOUS

(* What was cut off before makes no difference to the end. *)
LEMMA LastOfMore ==
  ASSUME NEW T, NEW s \in Seq(T), NEW e \in T, NEW n \in Nat \ {0}
  PROVE  LastOf(Append(LastOf(s, n), e), n) = LastOf(Append(s, e), n)
<1> DEFINE l == LastOf(s, n)  m == Append(s, e)  k == Append(l, e)
<1>1. Len(s) \in Nat
  OBVIOUS
<1>2. CASE Len(s) <= n
  BY <1>2, LastOfFacts
<1>3. CASE Len(s) > n
  <2>0. l \in Seq(T) /\ IsEnd(l, s, n)
    BY <1>3, LastOfFacts
  <2>1. l \in Seq(T) /\ Len(l) = n /\ \A i \in 1..n : l[i] = s[Len(s) - n + i]
    BY <2>0 DEF IsEnd
  <2> HIDE DEF l
  <2>2. /\ m \in Seq(T) /\ Len(m) = Len(s) + 1 /\ m[Len(s) + 1] = e
        /\ \A i \in 1..Len(s) : m[i] = s[i]
    BY AppendFacts
  <2>3. /\ k \in Seq(T) /\ Len(k) = n + 1 /\ k[n + 1] = e
        /\ \A i \in 1..n : k[i] = l[i]
    BY <2>1, AppendFacts
  <2> HIDE DEF m, k
  <2> DEFINE p == LastOf(k, n)  q == LastOf(m, n)
  <2>8. Len(k) > n /\ Len(m) > n
    BY <1>1, <1>3, <2>2, <2>3
  <2>4. p \in Seq(T) /\ IsEnd(p, k, n)
    BY <2>3, <2>8, LastOfFacts
  <2>5. q \in Seq(T) /\ IsEnd(q, m, n)
    BY <2>2, <2>8, LastOfFacts
  <2> HIDE DEF p, q
  <2>6. ASSUME NEW i \in 1..n PROVE p[i] = q[i]
    <3>1. p[i] = k[i + 1] /\ q[i] = m[Len(s) - n + i + 1]
      <4>1. Len(k) - n + i = i + 1 /\ Len(m) - n + i = Len(s) - n + i + 1
        BY <1>1, <2>2, <2>3
      <4> QED BY <2>4, <2>5, <4>1 DEF IsEnd
    <3>2. CASE i = n
      BY <1>1, <2>2, <2>3, <3>1, <3>2
    <3>3. CASE i # n
      <4>1. i + 1 \in 1..n /\ Len(s) - n + i + 1 \in 1..Len(s)
            /\ Len(s) - n + (i + 1) = Len(s) - n + i + 1
        BY <1>1, <1>3, <3>3
      <4>2. k[i + 1] = l[i + 1] /\ m[Len(s) - n + i + 1] = s[Len(s) - n + i + 1]
        BY <2>2, <2>3, <4>1
      <4>3. l[i + 1] = s[Len(s) - n + i + 1]
        BY <2>1, <4>1
      <4> QED BY <3>1, <4>2, <4>3
    <3> QED BY <3>2, <3>3
  <2>7. p = q
    BY <2>4, <2>5, <2>6, SameSequence DEF IsEnd
  <2> QED BY <2>7 DEF p, q, k, m, l
<1> QED BY <1>1, <1>2, <1>3

(* The end of a longer end is the end. *)
LEMMA LastOfLast ==
  ASSUME NEW T, NEW s \in Seq(T), NEW n \in Nat, NEW m \in Nat, n <= m
  PROVE  LastOf(LastOf(s, m), n) = LastOf(s, n)
<1> DEFINE l == LastOf(s, m)
<1>1. Len(s) \in Nat
  OBVIOUS
<1>2. CASE Len(s) <= m
  BY <1>2, LastOfFacts
<1>3. CASE Len(s) > m
  <2>0. l \in Seq(T) /\ IsEnd(l, s, m)
    BY <1>3, LastOfFacts
  <2>1. l \in Seq(T) /\ Len(l) = m /\ \A i \in 1..m : l[i] = s[Len(s) - m + i]
    BY <2>0 DEF IsEnd
  <2> HIDE DEF l
  <2>2. CASE n = m
    BY <2>1, <2>2, LastOfFacts DEF l
  <2>3. CASE n < m
    <3> DEFINE p == LastOf(l, n)  q == LastOf(s, n)
    <3>5. Len(l) > n /\ Len(s) > n
      BY <1>1, <1>3, <2>1, <2>3
    <3>1. p \in Seq(T) /\ IsEnd(p, l, n)
      BY <2>1, <3>5, LastOfFacts
    <3>2. q \in Seq(T) /\ IsEnd(q, s, n)
      BY <3>5, LastOfFacts
    <3> HIDE DEF p, q
    <3>3. ASSUME NEW i \in 1..n PROVE p[i] = q[i]
      <4>1. Len(l) - n + i \in 1..m /\ Len(s) - m + (Len(l) - n + i) = Len(s) - n + i
        BY <1>1, <1>3, <2>1, <2>3
      <4> QED BY <2>1, <3>1, <3>2, <4>1 DEF IsEnd
    <3>4. p = q
      BY <3>1, <3>2, <3>3, SameSequence DEF IsEnd
    <3> QED BY <3>4 DEF p, q, l
  <2> QED BY <2>2, <2>3
<1> QED BY <1>1, <1>2, <1>3

(* One more chunk is written. *)
LEMMA OneMoreChunk ==
  ASSUME NEW n \in Nat
  PROVE  Upto(n) \in Seq(Nat) /\ Append(Upto(n), n + 1) = Upto(n + 1)
BY DEF Upto

Together(a, b, c) == (a \o b) \o c = a \o (b \o c)

(* Sequences are put together in any order. *)
LEMMA ChunksTogether ==
  ASSUME NEW a \in Seq(Nat), NEW b \in Seq(Nat), NEW c \in Seq(Nat)
  PROVE  Together(a, b, c)
BY ConcatAssociative DEF Together

(* The first of a sequence moves to the end of the one before it. *)
LEMMA HeadMoves ==
  ASSUME NEW a \in Seq(Nat), NEW c \in Seq(Nat), c # <<>>
  PROVE  Append(a, Head(c)) \o Tail(c) = a \o c
<1> DEFINE h == Head(c)  t == Tail(c)  g == <<h>>
<1>1. h \in Nat /\ t \in Seq(Nat) /\ c = g \o t
  OBVIOUS
<1> HIDE DEF h, t
<1>2. Append(a, h) = a \o g /\ g \in Seq(Nat)
  BY <1>1, AppendIsConcat
<1> HIDE DEF g
<1>3. Together(a, g, t)
  BY <1>1, <1>2, ChunksTogether
<1>4. Append(a, h) \o t = a \o c
  BY <1>1, <1>2, <1>3, Zenon DEF Together
<1> QED BY <1>4 DEF h, t

SameInAll(a, b, c, d, r) == a \o d \o r = a \o b \o c

(* Nothing changes for all if nothing changes for what follows the first. *)
LEMMA SamePrefix ==
  ASSUME NEW a \in Seq(Nat), NEW b \in Seq(Nat), NEW c \in Seq(Nat),
         NEW d \in Seq(Nat), NEW r \in Seq(Nat)
  PROVE  d \o r = b \o c => SameInAll(a, b, c, d, r)
<1>1. Together(a, d, r) /\ Together(a, b, c)
  BY ChunksTogether
<1> QED BY <1>1, Zenon DEF Together, SameInAll

(* A chunk that moves on stays in its place among all. *)
LEMMA OneMovesOn ==
  ASSUME NEW a \in Seq(Nat), NEW b \in Seq(Nat), NEW c \in Seq(Nat), c # <<>>,
         NEW d, d = Append(b, Head(c)), NEW r, r = Tail(c)
  PROVE  SameInAll(a, b, c, d, r)
<1> DEFINE h == Head(c)  t == Tail(c)
<1>1. h \in Nat /\ t \in Seq(Nat)
  OBVIOUS
<1> HIDE DEF h, t
<1>2. d \in Seq(Nat) /\ r \in Seq(Nat)
  BY <1>1 DEF h, t
<1>3. d \o r = b \o c
  BY HeadMoves
<1> QED BY ONLY a \in Seq(Nat), b \in Seq(Nat), c \in Seq(Nat), <1>2, <1>3, SamePrefix

(* What is more than a number that is not 0 is not 1. *)
LEMMA Past ==
  ASSUME NEW n \in Nat, NEW m \in Nat, m # 0, n > m
  PROVE  n # 1
OBVIOUS

(* A chunk added to the last sequence is the last of all. *)
LEMMA OneMoreInAll ==
  ASSUME NEW a \in Seq(Nat), NEW b \in Seq(Nat), NEW c \in Seq(Nat), NEW e \in Nat
  PROVE  a \o b \o Append(c, e) = Append(a \o b \o c, e)
<1> DEFINE ab == a \o b
<1>1. ab \in Seq(Nat)
  OBVIOUS
<1> HIDE DEF ab
<1>2. ab \o Append(c, e) = Append(ab \o c, e)
  BY <1>1
<1> QED BY <1>2 DEF ab

-----------------------------------------------------------------------------
(* The steps. *)

(* The types of the variables. *)
LEMMA CommandTypesStep ==
  ASSUME CommandTypes, [BashNext]_bashVars
  PROVE  CommandTypes'
<1> USE DEF CommandTypes, shellVars, pipeVars, bashVars
<1>1. CASE RefuseCommand
  BY <1>1 DEF RefuseCommand
<1>2. CASE Spawn
  BY <1>2 DEF Spawn
<1>3. CASE WriteChunk
  <2>1. Append(pipe, written + 1) \in Seq(Nat)
    OBVIOUS
  <2> QED BY <1>3, <2>1 DEF WriteChunk
<1>4. CASE Detach
  BY <1>4 DEF Detach
<1>5. CASE ShellExits
  BY <1>5 DEF ShellExits
<1>6. CASE BackgroundExits
  BY <1>6 DEF BackgroundExits
<1>7. CASE ReadChunk
  <2>1. Head(pipe) \in Nat /\ Tail(pipe) \in Seq(Nat) /\ pipe' = Tail(pipe)
    BY <1>7 DEF ReadChunk
  <2>2. UNCHANGED <<shellVars, request, select, output, received, terminal, result>>
    BY <1>7 DEF ReadChunk
  <2>3. channel' = channel \/ channel' = Append(channel, Head(pipe))
    BY <1>7 DEF ReadChunk
  <2>4. reader' \in {reader, "done"}
    BY <1>7 DEF ReadChunk
  <2>6. Append(channel, Head(pipe)) \in Seq(Nat)
    BY <2>1
  <2>5. channel' \in Seq(Nat)
    BY <2>3, <2>6
  <2> QED BY <2>1, <2>2, <2>4, <2>5
<1>8. CASE ReadEnd
  BY <1>8 DEF ReadEnd
<1>9. CASE CancelCommand
  <2>1. request' \in [cancelled : BOOLEAN, timeout : BOOLEAN, expired : BOOLEAN]
    BY <1>9 DEF CancelCommand
  <2>2. UNCHANGED <<shellVars, pipeVars, select, output, received, terminal, result>>
    BY ONLY <1>9 DEF CancelCommand
  <2> QED BY <2>1, <2>2
<1>10. CASE TimeoutExpires
  <2>1. request' \in [cancelled : BOOLEAN, timeout : BOOLEAN, expired : BOOLEAN]
    BY <1>10 DEF TimeoutExpires
  <2>2. UNCHANGED <<shellVars, pipeVars, select, output, received, terminal, result>>
    BY ONLY <1>10 DEF TimeoutExpires
  <2> QED BY <2>1, <2>2
<1>11. CASE AppendChunk
  <2>1. Head(channel) \in Nat /\ Tail(channel) \in Seq(Nat) /\ channel' = Tail(channel)
    BY <1>11 DEF AppendChunk
  <2>2. UNCHANGED <<background, written, pipe, reader, request, select, terminal>>
    BY ONLY <1>11 DEF AppendChunk
  <2>3. shell' \in {shell, "killed"} /\ exit' \in {exit, "signal"} /\ result' \in {result, "error"}
    BY ONLY <1>11 DEF AppendChunk, DropChild
  <2>4. received' \in Seq(Nat)
    <3>1. received' = received \/ received' = Append(received, Head(channel))
      BY ONLY <1>11 DEF AppendChunk
    <3>2. Append(received, Head(channel)) \in Seq(Nat)
      BY <2>1
    <3> QED BY <3>1, <3>2
  <2>5. output' \in [prefix : Seq(Nat), tail : Seq(Nat), file : Seq(Nat)]
    <3>1. CASE output' = output
      BY <3>1
    <3>2. CASE output' = Appended(output, received, Head(channel))
      <4> DEFINE e == Head(channel)
      <4>0. 2 * MaxOutput \in Nat
        BY BashConstantsOK
      <4>1. /\ Append(output.prefix, e) \in Seq(Nat) /\ Append(output.tail, e) \in Seq(Nat)
            /\ Append(output.file, e) \in Seq(Nat) /\ <<>> \in Seq(Nat) /\ NoSpill \in Seq(Nat)
        BY <2>1 DEF NoSpill
      <4> HIDE DEF e
      <4>2. LastOf(Append(output.tail, e), 2 * MaxOutput) \in Seq(Nat)
        BY <4>0, <4>1, LastOfFacts
      <4>3. output' = Appended(output, received, e)
        BY <3>2 DEF e
      <4> HIDE DEF CommandTypes
      <4> QED BY <4>1, <4>2, <4>3 DEF Appended
    <3> QED BY ONLY <1>11, <3>1, <3>2 DEF AppendChunk
  <2> QED BY <2>1, <2>2, <2>3, <2>4, <2>5
<1>12. CASE ChannelEnds
  <2>1. select' \in [status : {"none", "ok", "code", "signal"}, closed : BOOLEAN,
                   reason : {"exited", "cancelled", "timedOut"}, drain : {"off", "armed", "expired"}]
    BY <1>12 DEF ChannelEnds
  <2>2. UNCHANGED <<shellVars, pipeVars, request, output, received, terminal, result>>
    BY ONLY <1>12 DEF ChannelEnds
  <2> QED BY <2>1, <2>2
<1>13. CASE WaitReturns
  <2>1. select' \in [status : {"none", "ok", "code", "signal"}, closed : BOOLEAN,
                   reason : {"exited", "cancelled", "timedOut"}, drain : {"off", "armed", "expired"}]
    BY <1>13 DEF WaitReturns, DrainArmed
  <2>2. UNCHANGED <<exit, background, written, pipeVars, request, output, received, terminal, result>>
    BY ONLY <1>13 DEF WaitReturns, DrainArmed
  <2>3. shell' = "reaped"
    BY ONLY <1>13 DEF WaitReturns, DrainArmed
  <2> QED BY <2>1, <2>2, <2>3
<1>14. CASE KillOnCancel
  <2>1. select' \in [status : {"none", "ok", "code", "signal"}, closed : BOOLEAN,
                   reason : {"exited", "cancelled", "timedOut"}, drain : {"off", "armed", "expired"}]
    BY <1>14 DEF KillOnCancel, Kill, DropChild, KilledWithGroup
  <2>2. UNCHANGED <<written, pipeVars, request, output, received, terminal, result>>
    BY ONLY <1>14 DEF KillOnCancel, Kill, DropChild, KilledWithGroup
  <2>3. shell' \in {shell, "killed"} /\ exit' \in {exit, "signal"} /\ background' \in {background, "gone"}
    BY ONLY <1>14 DEF KillOnCancel, Kill, DropChild, KilledWithGroup
  <2> QED BY <2>1, <2>2, <2>3
<1>15. CASE KillOnTimeout
  <2>1. select' \in [status : {"none", "ok", "code", "signal"}, closed : BOOLEAN,
                   reason : {"exited", "cancelled", "timedOut"}, drain : {"off", "armed", "expired"}]
    BY <1>15 DEF KillOnTimeout, Kill, DropChild, KilledWithGroup
  <2>2. UNCHANGED <<written, pipeVars, request, output, received, terminal, result>>
    BY ONLY <1>15 DEF KillOnTimeout, Kill, DropChild, KilledWithGroup
  <2>3. shell' \in {shell, "killed"} /\ exit' \in {exit, "signal"} /\ background' \in {background, "gone"}
    BY ONLY <1>15 DEF KillOnTimeout, Kill, DropChild, KilledWithGroup
  <2> QED BY <2>1, <2>2, <2>3
<1>16. CASE AnswerCall
  BY <1>16 DEF AnswerCall
<1>17. CASE DrainExpires
  <2>1. select' \in [status : {"none", "ok", "code", "signal"}, closed : BOOLEAN,
                   reason : {"exited", "cancelled", "timedOut"}, drain : {"off", "armed", "expired"}]
    BY <1>17 DEF DrainExpires
  <2>2. UNCHANGED <<shellVars, pipeVars, request, output, received, terminal, result>>
    BY ONLY <1>17 DEF DrainExpires
  <2> QED BY <2>1, <2>2
<1>18. CASE UNCHANGED bashVars
  BY <1>18 DEF bashVars
<1> QED
  BY <1>1, <1>2, <1>3, <1>4, <1>5, <1>6, <1>7, <1>8, <1>9, <1>10, <1>11, <1>12, <1>13,
     <1>14, <1>15, <1>16, <1>17, <1>18 DEF BashNext, Loop

(* A shell ends once, and is reaped once. *)
LEMMA StatusIsTheExitStep ==
  ASSUME CommandTypes, StatusIsTheExit, [BashNext]_bashVars
  PROVE  StatusIsTheExit'
<1> USE DEF CommandTypes, StatusIsTheExit, HasExited, Running, InLoop, shellVars, pipeVars, bashVars
<1>1. CASE RefuseCommand
  BY <1>1 DEF RefuseCommand
<1>2. CASE Spawn
  BY <1>2 DEF Spawn
<1>3. CASE WriteChunk
  BY <1>3 DEF WriteChunk
<1>4. CASE Detach
  BY <1>4 DEF Detach
<1>5. CASE ShellExits
  BY <1>5 DEF ShellExits
<1>6. CASE BackgroundExits
  BY <1>6 DEF BackgroundExits
<1>7. CASE ReadChunk
  BY <1>7 DEF ReadChunk
<1>8. CASE ReadEnd
  BY <1>8 DEF ReadEnd
<1>9. CASE CancelCommand
  BY <1>9 DEF CancelCommand
<1>10. CASE TimeoutExpires
  BY <1>10 DEF TimeoutExpires
<1>11. CASE AppendChunk
  BY <1>11 DEF AppendChunk, DropChild
<1>12. CASE ChannelEnds
  BY <1>12 DEF ChannelEnds
<1>13. CASE WaitReturns
  BY <1>13 DEF WaitReturns
<1>14. CASE KillOnCancel
  BY <1>14 DEF KillOnCancel, Kill, DropChild
<1>15. CASE KillOnTimeout
  BY <1>15 DEF KillOnTimeout, Kill, DropChild
<1>16. CASE AnswerCall
  BY <1>16 DEF AnswerCall
<1>17. CASE DrainExpires
  BY <1>17 DEF DrainExpires
<1>18. CASE UNCHANGED bashVars
  BY <1>18 DEF bashVars
<1> QED
  BY <1>1, <1>2, <1>3, <1>4, <1>5, <1>6, <1>7, <1>8, <1>9, <1>10, <1>11, <1>12, <1>13,
     <1>14, <1>15, <1>16, <1>17, <1>18 DEF BashNext, Loop

(* Nothing is started after the group was killed. *)
LEMMA KilledForAReasonStep ==
  ASSUME CommandTypes, StatusIsTheExit, KilledForAReason, [BashNext]_bashVars
  PROVE  KilledForAReason'
<1> USE DEF CommandTypes, StatusIsTheExit, KilledForAReason, HasExited, Running, InLoop, KilledWithGroup, shellVars, pipeVars, bashVars
<1>1. CASE RefuseCommand
  BY <1>1 DEF RefuseCommand
<1>2. CASE Spawn
  BY <1>2 DEF Spawn
<1>3. CASE WriteChunk
  BY <1>3 DEF WriteChunk
<1>4. CASE Detach
  BY <1>4 DEF Detach
<1>5. CASE ShellExits
  BY <1>5 DEF ShellExits
<1>6. CASE BackgroundExits
  BY <1>6 DEF BackgroundExits
<1>7. CASE ReadChunk
  BY <1>7 DEF ReadChunk
<1>8. CASE ReadEnd
  BY <1>8 DEF ReadEnd
<1>9. CASE CancelCommand
  BY <1>9 DEF CancelCommand
<1>10. CASE TimeoutExpires
  BY <1>10 DEF TimeoutExpires
<1>11. CASE AppendChunk
  BY <1>11 DEF AppendChunk, DropChild
<1>12. CASE ChannelEnds
  BY <1>12 DEF ChannelEnds
<1>13. CASE WaitReturns
  BY <1>13 DEF WaitReturns
<1>14. CASE KillOnCancel
  BY <1>14 DEF KillOnCancel, Kill, DropChild
<1>15. CASE KillOnTimeout
  BY <1>15 DEF KillOnTimeout, Kill, DropChild
<1>16. CASE AnswerCall
  BY <1>16 DEF AnswerCall
<1>17. CASE DrainExpires
  BY <1>17 DEF DrainExpires
<1>18. CASE UNCHANGED bashVars
  BY <1>18 DEF bashVars
<1> QED
  BY <1>1, <1>2, <1>3, <1>4, <1>5, <1>6, <1>7, <1>8, <1>9, <1>10, <1>11, <1>12, <1>13,
     <1>14, <1>15, <1>16, <1>17, <1>18 DEF BashNext, Loop

(* An answer ends the loop. *)
LEMMA AnswerIsOfTheLoopStep ==
  ASSUME CommandTypes, AnswerIsOfTheLoop, [BashNext]_bashVars
  PROVE  AnswerIsOfTheLoop'
<1> USE DEF CommandTypes, AnswerIsOfTheLoop, HasExited, Running, InLoop, shellVars, pipeVars, bashVars
<1>1. CASE RefuseCommand
  BY <1>1 DEF RefuseCommand
<1>2. CASE Spawn
  BY <1>2 DEF Spawn
<1>3. CASE WriteChunk
  BY <1>3 DEF WriteChunk
<1>4. CASE Detach
  BY <1>4 DEF Detach
<1>5. CASE ShellExits
  BY <1>5 DEF ShellExits
<1>6. CASE BackgroundExits
  BY <1>6 DEF BackgroundExits
<1>7. CASE ReadChunk
  BY <1>7 DEF ReadChunk
<1>8. CASE ReadEnd
  BY <1>8 DEF ReadEnd
<1>9. CASE CancelCommand
  BY <1>9 DEF CancelCommand
<1>10. CASE TimeoutExpires
  BY <1>10 DEF TimeoutExpires
<1>11. CASE AppendChunk
  BY <1>11 DEF AppendChunk, DropChild
<1>12. CASE ChannelEnds
  BY <1>12 DEF ChannelEnds
<1>13. CASE WaitReturns
  BY <1>13 DEF WaitReturns
<1>14. CASE KillOnCancel
  BY <1>14 DEF KillOnCancel, Kill, DropChild
<1>15. CASE KillOnTimeout
  BY <1>15 DEF KillOnTimeout, Kill, DropChild
<1>16. CASE AnswerCall
  BY <1>16 DEF AnswerCall
<1>17. CASE DrainExpires
  BY <1>17 DEF DrainExpires
<1>18. CASE UNCHANGED bashVars
  BY <1>18 DEF bashVars
<1> QED
  BY <1>1, <1>2, <1>3, <1>4, <1>5, <1>6, <1>7, <1>8, <1>9, <1>10, <1>11, <1>12, <1>13,
     <1>14, <1>15, <1>16, <1>17, <1>18 DEF BashNext, Loop

(* A chunk goes from the pipe to the channel and from the channel to the result. *)
LEMMA OutputIsOnItsWayStep ==
  ASSUME CommandTypes, OutputIsOnItsWay, [BashNext]_bashVars
  PROVE  OutputIsOnItsWay'
<1> USE DEF shellVars, pipeVars, bashVars, Alive
<1>1. CASE RefuseCommand
  BY <1>1 DEF RefuseCommand, OutputIsOnItsWay, OnItsWay, Alive
<1>2. CASE Spawn
  BY <1>2 DEF Spawn, OutputIsOnItsWay, OnItsWay, Alive
<1>3. CASE WriteChunk
  <2>1. pipe' = Append(pipe, written + 1) /\ written' = written + 1 /\ Alive
        /\ UNCHANGED <<received, channel, reader, result>>
    BY <1>3 DEF WriteChunk
  <2>2. ASSUME result = "none" PROVE OnItsWay' = Upto(written')
    <3>1. /\ written \in Nat /\ written + 1 \in Nat
          /\ received \in Seq(Nat) /\ channel \in Seq(Nat) /\ pipe \in Seq(Nat)
      BY DEF CommandTypes
    <3>2. received \o channel \o Append(pipe, written + 1)
            = Append(received \o channel \o pipe, written + 1)
      BY <3>1, OneMoreInAll
    <3>3. received \o channel \o pipe = Upto(written)
      BY <2>2 DEF OutputIsOnItsWay, OnItsWay
    <3>4. received \o channel \o Append(pipe, written + 1) = Upto(written + 1)
      BY <3>1, <3>2, <3>3, OneMoreChunk
    <3> QED BY <2>1, <3>4 DEF OnItsWay
  <2> QED BY <2>1, <2>2 DEF OutputIsOnItsWay
<1>4. CASE Detach
  BY <1>4 DEF Detach, OutputIsOnItsWay, OnItsWay, Alive
<1>5. CASE ShellExits
  BY <1>5 DEF ShellExits, OutputIsOnItsWay, OnItsWay, Alive
<1>6. CASE BackgroundExits
  BY <1>6 DEF BackgroundExits, OutputIsOnItsWay, OnItsWay, Alive
<1>7. CASE ReadChunk
  <2>1. pipe # <<>> /\ pipe' = Tail(pipe) /\ UNCHANGED <<received, written, result, shell, background>>
        /\ reader = "open"
    BY <1>7 DEF ReadChunk
  <2>2. ASSUME result = "none" PROVE OnItsWay' = Upto(written') /\ reader' = "open"
    <3>1. received \in Seq(Nat) /\ channel \in Seq(Nat) /\ pipe \in Seq(Nat)
      BY DEF CommandTypes
    <3>2. channel' = Append(channel, Head(pipe)) /\ reader' = "open"
      BY <1>7, <2>2 DEF ReadChunk
    <3>3. received \o channel' \o pipe' = received \o channel \o pipe
      <4> DEFINE p == pipe'  c == channel'
      <4>1. pipe # <<>> /\ p = Tail(pipe) /\ c = Append(channel, Head(pipe))
        BY <2>1, <3>2
      <4> HIDE DEF p, c
      <4>2. SameInAll(received, channel, pipe, c, p)
        BY ONLY <3>1, <4>1, OneMovesOn
      <4> QED BY <4>2 DEF p, c, SameInAll
    <3>4. received \o channel \o pipe = Upto(written)
      BY <2>2 DEF OutputIsOnItsWay, OnItsWay
    <3> QED BY <2>1, <3>2, <3>3, <3>4 DEF OnItsWay
  <2> QED BY <2>1, <2>2 DEF OutputIsOnItsWay
<1>8. CASE ReadEnd
  BY <1>8 DEF ReadEnd, OutputIsOnItsWay, OnItsWay, Alive
<1>9. CASE CancelCommand
  BY <1>9 DEF CancelCommand, OutputIsOnItsWay, OnItsWay, Alive
<1>10. CASE TimeoutExpires
  BY <1>10 DEF TimeoutExpires, OutputIsOnItsWay, OnItsWay, Alive
<1>11. CASE AppendChunk
  <2>1. channel # <<>> /\ channel' = Tail(channel) /\ result = "none"
        /\ UNCHANGED <<pipe, reader, written, background>>
    BY <1>11 DEF AppendChunk, InLoop, Running
  <2>2. CASE received' = Append(received, Head(channel)) /\ UNCHANGED <<shell, result>>
    <3>1. received \in Seq(Nat) /\ channel \in Seq(Nat) /\ pipe \in Seq(Nat)
      BY DEF CommandTypes
    <3>2. Append(received, Head(channel)) \o Tail(channel) \o pipe = received \o channel \o pipe
      BY <2>1, <3>1, HeadMoves
    <3>3. received \o channel \o pipe = Upto(written)
      BY <2>1 DEF OutputIsOnItsWay, OnItsWay
    <3>4. OnItsWay' = Upto(written')
      BY <2>1, <2>2, <3>2, <3>3 DEF OnItsWay
    <3> QED BY <2>1, <2>2, <3>4 DEF OutputIsOnItsWay
  <2>3. CASE result' = "error"
    BY <2>3 DEF OutputIsOnItsWay
  <2> QED BY <1>11, <2>2, <2>3 DEF AppendChunk
<1>12. CASE ChannelEnds
  BY <1>12 DEF ChannelEnds, OutputIsOnItsWay, OnItsWay, Alive
<1>13. CASE WaitReturns
  BY <1>13 DEF WaitReturns, OutputIsOnItsWay, OnItsWay, Alive
<1>14. CASE KillOnCancel
  BY <1>14 DEF KillOnCancel, OutputIsOnItsWay, OnItsWay, Alive, Kill, DropChild, KilledWithGroup, InLoop, Running
<1>15. CASE KillOnTimeout
  BY <1>15 DEF KillOnTimeout, OutputIsOnItsWay, OnItsWay, Alive, Kill, DropChild, KilledWithGroup, InLoop, Running
<1>16. CASE AnswerCall
  BY <1>16 DEF AnswerCall, OutputIsOnItsWay, OnItsWay, Alive
<1>17. CASE DrainExpires
  BY <1>17 DEF DrainExpires, OutputIsOnItsWay, OnItsWay, Alive
<1>18. CASE UNCHANGED bashVars
  BY <1>18 DEF OutputIsOnItsWay, OnItsWay, Alive
<1> QED
  BY <1>1, <1>2, <1>3, <1>4, <1>5, <1>6, <1>7, <1>8, <1>9, <1>10, <1>11, <1>12, <1>13,
     <1>14, <1>15, <1>16, <1>17, <1>18 DEF BashNext, Loop

(* Nobody writes once the pipe has ended. *)
LEMMA ClosedMeansReadStep ==
  ASSUME CommandTypes, StatusIsTheExit, OutputIsOnItsWay, ClosedMeansRead, [BashNext]_bashVars
  PROVE  ClosedMeansRead'
<1> USE DEF shellVars, pipeVars, bashVars
<1>1. CASE RefuseCommand
  BY <1>1 DEF RefuseCommand, ClosedMeansRead, Alive, InLoop, Running, HasExited, CommandTypes
<1>2. CASE Spawn
  BY <1>2 DEF Spawn, ClosedMeansRead, Alive, InLoop, Running, HasExited, CommandTypes
<1>3. CASE WriteChunk
  BY <1>3 DEF WriteChunk, ClosedMeansRead, Alive, InLoop, Running, HasExited, CommandTypes
<1>4. CASE Detach
  BY <1>4 DEF Detach, ClosedMeansRead, Alive, InLoop, Running, HasExited, CommandTypes
<1>5. CASE ShellExits
  BY <1>5 DEF ShellExits, ClosedMeansRead, Alive, InLoop, Running, HasExited, CommandTypes
<1>6. CASE BackgroundExits
  BY <1>6 DEF BackgroundExits, ClosedMeansRead, Alive, InLoop, Running, HasExited, CommandTypes
<1>7. CASE ReadChunk
  BY <1>7 DEF ReadChunk, ClosedMeansRead, Alive, InLoop, Running, HasExited, CommandTypes
<1>8. CASE ReadEnd
  BY <1>8 DEF ReadEnd, ClosedMeansRead, Alive, InLoop, Running, HasExited, CommandTypes
<1>9. CASE CancelCommand
  BY <1>9 DEF CancelCommand, ClosedMeansRead, Alive, InLoop, Running, HasExited, CommandTypes
<1>10. CASE TimeoutExpires
  BY <1>10 DEF TimeoutExpires, ClosedMeansRead, Alive, InLoop, Running, HasExited, CommandTypes
<1>11. CASE AppendChunk
  BY <1>11 DEF AppendChunk, ClosedMeansRead, Alive, InLoop, Running, HasExited, CommandTypes
<1>12. CASE ChannelEnds
  <2>1. channel = <<>> /\ reader = "done" /\ result = "none"
        /\ UNCHANGED <<shell, background, reader, received, written>>
    BY <1>12 DEF ChannelEnds, InLoop, Running
  <2>2. ~Alive /\ pipe = <<>> /\ shell # "new" /\ OnItsWay = Upto(written)
    BY <2>1 DEF OutputIsOnItsWay
  <2>3. received \in Seq(Nat)
    BY DEF CommandTypes
  <2>4. received \o <<>> = received
    BY <2>3
  <2>5. received = Upto(written)
    BY <2>1, <2>2, <2>4 DEF OnItsWay
  <2> QED BY <2>1, <2>2, <2>5 DEF ClosedMeansRead, Alive
<1>13. CASE WaitReturns
  BY <1>13 DEF WaitReturns, ClosedMeansRead, Alive, InLoop, Running, HasExited, CommandTypes, DrainArmed, StatusIsTheExit
<1>14. CASE KillOnCancel
  BY <1>14 DEF KillOnCancel, ClosedMeansRead, Alive, InLoop, Running, HasExited, CommandTypes, Kill, DropChild, KilledWithGroup
<1>15. CASE KillOnTimeout
  BY <1>15 DEF KillOnTimeout, ClosedMeansRead, Alive, InLoop, Running, HasExited, CommandTypes, Kill, DropChild, KilledWithGroup
<1>16. CASE AnswerCall
  BY <1>16 DEF AnswerCall, ClosedMeansRead, Alive, InLoop, Running, HasExited, CommandTypes
<1>17. CASE DrainExpires
  BY <1>17 DEF DrainExpires, ClosedMeansRead, Alive, InLoop, Running, HasExited, CommandTypes
<1>18. CASE UNCHANGED bashVars
  BY <1>18 DEF ClosedMeansRead, Alive, InLoop, Running, HasExited, CommandTypes
<1> QED
  BY <1>1, <1>2, <1>3, <1>4, <1>5, <1>6, <1>7, <1>8, <1>9, <1>10, <1>11, <1>12, <1>13,
     <1>14, <1>15, <1>16, <1>17, <1>18 DEF BashNext, Loop

(* The file takes over from memory with all that memory had. *)
LEMMA OutputIsKeptStep ==
  ASSUME CommandTypes, OutputIsKept, [BashNext]_bashVars
  PROVE  OutputIsKept'
<1> USE DEF shellVars, pipeVars, bashVars
<1>1. CASE RefuseCommand
  BY <1>1 DEF RefuseCommand, OutputIsKept, Truncated
<1>2. CASE Spawn
  BY <1>2 DEF Spawn, OutputIsKept, Truncated
<1>3. CASE WriteChunk
  BY <1>3 DEF WriteChunk, OutputIsKept, Truncated
<1>4. CASE Detach
  BY <1>4 DEF Detach, OutputIsKept, Truncated
<1>5. CASE ShellExits
  BY <1>5 DEF ShellExits, OutputIsKept, Truncated
<1>6. CASE BackgroundExits
  BY <1>6 DEF BackgroundExits, OutputIsKept, Truncated
<1>7. CASE ReadChunk
  BY <1>7 DEF ReadChunk, OutputIsKept, Truncated
<1>8. CASE ReadEnd
  BY <1>8 DEF ReadEnd, OutputIsKept, Truncated
<1>9. CASE CancelCommand
  BY <1>9 DEF CancelCommand, OutputIsKept, Truncated
<1>10. CASE TimeoutExpires
  BY <1>10 DEF TimeoutExpires, OutputIsKept, Truncated
<1>11. CASE AppendChunk
  <2> DEFINE e == Head(channel)  more == Append(received, e)
  <2>1. CASE UNCHANGED <<received, output>>
    BY <2>1 DEF OutputIsKept, Truncated
  <2>2. CASE received' = more /\ output' = Appended(output, received, e)
    <3>1. /\ received \in Seq(Nat) /\ output.file \in Seq(Nat) /\ e \in Nat
          /\ MaxOutput \in Nat \ {0} /\ 2 * MaxOutput \in Nat \ {0} /\ MaxOutput <= 2 * MaxOutput
      BY <1>11, BashConstantsOK, SMTT(30) DEF CommandTypes, AppendChunk
    <3> HIDE DEF e
    <3>2. more \in Seq(Nat) /\ Len(received) \in Nat /\ Len(more) = Len(received) + 1
      BY <3>1, AppendFacts
    <3> HIDE DEF more
    <3>3. CASE Len(received) + 1 <= MaxOutput
      <4>1. ~Truncated
        BY <3>1, <3>2, <3>3 DEF Truncated
      <4>2. output.file = NoSpill /\ output.prefix = received /\ output.tail = received
        BY <4>1 DEF OutputIsKept
      <4>3. output' = [prefix |-> more, tail |-> more, file |-> NoSpill]
        BY <2>2, <3>3, <4>2 DEF Appended, more
      <4>4. ~Truncated'
        BY <2>2, <3>1, <3>2, <3>3 DEF Truncated
      <4> QED BY <2>2, <4>3, <4>4 DEF OutputIsKept
    <3>4. CASE Len(received) + 1 > MaxOutput
      <4>1. output' = [prefix |-> <<>>, tail |-> LastOf(Append(output.tail, e), 2 * MaxOutput),
                       file |-> Append(IF output.file = NoSpill THEN output.prefix ELSE output.file, e)]
        BY <2>2, <3>2, <3>1, <3>4 DEF Appended
      <4>2. Truncated'
        BY <2>2, <3>1, <3>2, <3>4 DEF Truncated
      <4>3. /\ Append(IF output.file = NoSpill THEN output.prefix ELSE output.file, e) = more
            /\ LastOf(Append(output.tail, e), 2 * MaxOutput) = LastOf(more, 2 * MaxOutput)
        <5>1. CASE Truncated
          <6>1. output.file = received /\ output.tail = LastOf(received, 2 * MaxOutput)
            BY <5>1 DEF OutputIsKept
          <6>2. Len(NoSpill) = 1
            BY DEF NoSpill
          <6>0. Len(received) > MaxOutput
            BY <5>1 DEF Truncated
          <6>7. Len(received) \in Nat
            BY <3>2
          <6>8. MaxOutput \in Nat /\ MaxOutput # 0
            BY <3>1
          <6>5. Len(received) # 1
            BY ONLY <6>7, <6>8, <6>0, Past
          <6>3. output.file # NoSpill
            BY <6>1, <6>2, <6>5
          <6>4. LastOf(Append(LastOf(received, 2 * MaxOutput), e), 2 * MaxOutput)
                  = LastOf(Append(received, e), 2 * MaxOutput)
            <7> DEFINE n == 2 * MaxOutput
            <7>1. n \in Nat \ {0}
              BY <3>1
            <7> HIDE DEF n
            <7>2. LastOf(Append(LastOf(received, n), e), n) = LastOf(Append(received, e), n)
              BY <3>1, <7>1, LastOfMore
            <7> QED BY <7>2 DEF n
          <6> QED BY <6>1, <6>3, <6>4 DEF more
        <5>2. CASE ~Truncated
          <6>1. output.file = NoSpill /\ output.prefix = received /\ output.tail = received
            BY <5>2 DEF OutputIsKept
          <6> QED BY <6>1 DEF more
        <5> QED BY <5>1, <5>2
      <4> QED BY <2>2, <4>1, <4>2, <4>3 DEF OutputIsKept
    <3> QED BY <3>1, <3>2, <3>3, <3>4
  <2> QED BY <1>11, <2>1, <2>2 DEF AppendChunk
<1>12. CASE ChannelEnds
  BY <1>12 DEF ChannelEnds, OutputIsKept, Truncated
<1>13. CASE WaitReturns
  BY <1>13 DEF WaitReturns, OutputIsKept, Truncated
<1>14. CASE KillOnCancel
  BY <1>14 DEF KillOnCancel, OutputIsKept, Truncated, Kill
<1>15. CASE KillOnTimeout
  BY <1>15 DEF KillOnTimeout, OutputIsKept, Truncated, Kill
<1>16. CASE AnswerCall
  BY <1>16 DEF AnswerCall, OutputIsKept, Truncated
<1>17. CASE DrainExpires
  BY <1>17 DEF DrainExpires, OutputIsKept, Truncated
<1>18. CASE UNCHANGED bashVars
  BY <1>18 DEF OutputIsKept, Truncated
<1> QED
  BY <1>1, <1>2, <1>3, <1>4, <1>5, <1>6, <1>7, <1>8, <1>9, <1>10, <1>11, <1>12, <1>13,
     <1>14, <1>15, <1>16, <1>17, <1>18 DEF BashNext, Loop

-----------------------------------------------------------------------------
(* The theorems. *)

(* A call that has not started. *)
LEMMA CommandInvInit == BashInit => CommandInv
<1> SUFFICES ASSUME BashInit PROVE CommandInv
  OBVIOUS
<1>1. CommandTypes
  <2>1. NoSpill \in Seq(Nat) /\ <<>> \in Seq(Nat)
    BY DEF NoSpill
  <2> QED BY <2>1 DEF BashInit, CommandTypes
<1>2. StatusIsTheExit /\ KilledForAReason /\ AnswerIsOfTheLoop
  BY DEF BashInit, StatusIsTheExit, KilledForAReason, AnswerIsOfTheLoop, HasExited
<1>3. OutputIsOnItsWay
  <2>1. <<>> \o <<>> \o <<>> = Upto(0)
    BY DEF Upto
  <2> QED BY <2>1 DEF BashInit, OutputIsOnItsWay, OnItsWay
<1>4. ClosedMeansRead
  BY DEF BashInit, ClosedMeansRead
<1>5. OutputIsKept
  <2>1. ~Truncated
    BY BashConstantsOK DEF BashInit, Truncated
  <2> QED BY <2>1 DEF BashInit, OutputIsKept
<1> QED BY <1>1, <1>2, <1>3, <1>4, <1>5 DEF CommandInv

(* Every step keeps the invariant, one conjunct after the other. *)
LEMMA CommandInvStep == CommandInv /\ [BashNext]_bashVars => CommandInv'
<1> SUFFICES ASSUME CommandInv, [BashNext]_bashVars PROVE CommandInv'
  OBVIOUS
<1>1. CommandTypes' /\ StatusIsTheExit' /\ KilledForAReason' /\ AnswerIsOfTheLoop'
  BY CommandTypesStep, StatusIsTheExitStep, KilledForAReasonStep, AnswerIsOfTheLoopStep
     DEF CommandInv
<1>2. OutputIsOnItsWay' /\ ClosedMeansRead' /\ OutputIsKept'
  BY OutputIsOnItsWayStep, ClosedMeansReadStep, OutputIsKeptStep DEF CommandInv
<1> QED BY <1>1, <1>2 DEF CommandInv

(* The invariant of the shell command holds whatever the processes, the timers
   and the user do. *)
THEOREM CommandInvariant == BashInit /\ [][BashNext]_bashVars => []CommandInv
BY CommandInvInit, CommandInvStep, PTL

(* What the tool answers is what happened (execute_bash): a success is a shell
   that ended by itself with code 0; an abort or a timeout was asked for and has
   left none of the group behind; and all the command wrote before the end of its
   output is in the result, or in the file with its end in the result. *)
THEOREM CommandIsToldTruly == BashInit /\ [][BashNext]_bashVars => []CommandOutcomeIsTrue
<1>1. ASSUME CommandInv PROVE CommandOutcomeIsTrue
  <2> USE DEF CommandInv
  <2>1. ResultTellsTheEnd
    BY <1>1 DEF ResultTellsTheEnd, AnswerIsOfTheLoop, StatusIsTheExit, KilledForAReason
  <2>2. NoneOfTheGroupSurvives
    BY <1>1 DEF NoneOfTheGroupSurvives, AnswerIsOfTheLoop, KilledForAReason
  <2>3. NoOutputIsLost
    <3> SUFFICES ASSUME result \notin {"none", "error"}
                 PROVE  /\ Truncated => output.file = received /\ Shown = LastOf(received, MaxOutput)
                        /\ ~Truncated => Shown = received
                        /\ select.drain # "expired" => received = [i \in 1..written |-> i]
      BY DEF NoOutputIsLost
    <3>1. ASSUME Truncated PROVE output.file = received /\ Shown = LastOf(received, MaxOutput)
      <4>1. output.file = received /\ output.tail = LastOf(received, 2 * MaxOutput)
        BY <1>1, <3>1 DEF OutputIsKept
      <4>2. received \in Seq(Nat) /\ MaxOutput \in Nat /\ 2 * MaxOutput \in Nat
            /\ MaxOutput <= 2 * MaxOutput
        BY <1>1, BashConstantsOK DEF CommandTypes
      <4> DEFINE n == 2 * MaxOutput
      <4> HIDE DEF n
      <4>3. n \in Nat /\ MaxOutput <= n
        BY <4>2 DEF n
      <4>4. LastOf(LastOf(received, n), MaxOutput) = LastOf(received, MaxOutput)
        BY <4>2, <4>3, LastOfLast
      <4> QED BY <3>1, <4>1, <4>4 DEF Shown, n
    <3>2. ASSUME ~Truncated PROVE Shown = received
      BY <1>1, <3>2 DEF OutputIsKept, Shown
    <3>3. ASSUME select.drain # "expired" PROVE received = [i \in 1..written |-> i]
      BY <1>1, <3>3 DEF AnswerIsOfTheLoop, ClosedMeansRead, Upto
    <3> QED BY <3>1, <3>2, <3>3
  <2> QED BY <2>1, <2>2, <2>3 DEF CommandOutcomeIsTrue
<1> QED BY <1>1, CommandInvariant, PTL

-----------------------------------------------------------------------------
(***************************************************************************)
(* Proofs, for every number of requests and cancellations, of the safety   *)
(* invariants of ContextBudget.                                            *)
(*                                                                         *)
(* The argument: a command or an envelope is of the current generation     *)
(* exactly if it is of the latest request (AllLawful), and the latest      *)
(* request is in one place of the worker only (InOnePlace); so what is     *)
(* collected with the current generation is the latest request's, and      *)
(* nothing is left of it (AnsweredIsOver).                                 *)
(***************************************************************************)

(* Ids and generations in play: of a request made, and of the latest one    *)
(* exactly if they are of the current generation.                           *)
Lawful(c) ==
  /\ c.id <= made
  /\ c.gen <= generation
  /\ c.gen = generation <=> c.id = latest

AllLawful ==
  /\ active # None => Lawful(active)
  /\ queued # None => Lawful(queued)
  /\ job # None => Lawful(job)
  /\ \A i \in DOMAIN inbox : inbox[i] # Shutdown => Lawful(inbox[i])
  /\ \A i \in DOMAIN results : Lawful(results[i])

NothingFromTheFuture ==
  /\ latest <= made /\ awaited <= made
  /\ \A r \in told \cup deferred : r <= made
  /\ \A e \in events : e.id <= made

(* Where the two threads are. *)
ThreadsAgree ==
  /\ worker = "busy" <=> job # None
  /\ ui = "idle" => events = {}
  /\ ui = "dispatch" => active = None /\ queued # None

(* The latest request is in one place of the worker only. *)
Current(c) == latest # 0 /\ c.id = latest
NoneCurrent(s) == \A i \in DOMAIN s : ~Current(s[i])
InOnePlace ==
  /\ Current(queued) => ~Current(job) /\ NoneCurrent(inbox)
  /\ Current(queued) \/ Current(job) => NoneCurrent(results)
  /\ ~NoneCurrent(inbox) => ~Current(job) /\ NoneCurrent(results)
  /\ \A i, j \in DOMAIN results : Current(results[i]) /\ Current(results[j]) => i = j

(* A request that was answered, or is going to be told of a failure, is in  *)
(* none of them, unless a thread that ended will never take it.             *)
Answered == told \cup {e.id : e \in events}
AnsweredIsOver ==
  /\ Answered \cap deferred = {}
  /\ active.id \notin Answered \cup deferred
  /\ queued.id \notin Answered \cup deferred
  /\ latest \in Answered \cup deferred =>
       /\ NoneCurrent(results) /\ ~Current(job)
       /\ NoneCurrent(inbox) \/ Disconnected

(* What the overlay waits for is the latest request, and its envelope is    *)
(* not that of a cancellation.                                              *)
AwaitedIsLatest ==
  /\ awaited # 0 => open /\ ~cancelWanted
  /\ awaited # 0 /\ (active.id = awaited \/ queued.id = awaited) => awaited = latest
  /\ \A i \in DOMAIN results : Current(results[i]) => results[i].outcome # "cancelled"

ResultsAreAnnounced == results # <<>> => DrainIsComing \/ ui = "collect"

IInv ==
  /\ TypeOK
  /\ AllLawful
  /\ NothingFromTheFuture
  /\ ThreadsAgree
  /\ InOnePlace
  /\ AnsweredIsOver
  /\ LoadedIsLatest
  /\ AwaitedIsLatest
  /\ ResultsAreAnnounced
  /\ AnswerIsComing

-----------------------------------------------------------------------------
(* Sequences and kinds. *)

LEMMA AppendElements ==
  ASSUME NEW S, NEW s \in Seq(S), NEW e \in S
  PROVE  /\ Append(s, e) \in Seq(S) /\ Append(s, e) # <<>>
         /\ Len(Append(s, e)) = Len(s) + 1 /\ Append(s, e)[Len(s) + 1] = e
         /\ \A i \in DOMAIN s : i \in DOMAIN Append(s, e) /\ Append(s, e)[i] = s[i]
         /\ \A i \in DOMAIN Append(s, e) :
              \/ i = Len(s) + 1 /\ Append(s, e)[i] = e
              \/ i \in DOMAIN s /\ Append(s, e)[i] = s[i]
<1>1. Append(s, e) \in Seq(S) /\ Len(Append(s, e)) = Len(s) + 1
  OBVIOUS
<1>2. Append(s, e) # <<>>
  <2>1. Len(s) \in Nat /\ Len(<<>>) = 0
    OBVIOUS
  <2> QED
    BY <1>1, <2>1
<1>3. \A i \in DOMAIN s : i \in DOMAIN Append(s, e) /\ Append(s, e)[i] = s[i]
  OBVIOUS
<1>4. Append(s, e)[Len(s) + 1] = e
  OBVIOUS
<1>5. \A i \in DOMAIN Append(s, e) : i = Len(s) + 1 \/ i \in DOMAIN s
  BY <1>1
<1> QED
  BY <1>1, <1>2, <1>3, <1>4, <1>5

LEMMA InboxGrows ==
  ASSUME NEW s \in Seq(Commands \cup {Shutdown}), NEW e \in Commands \cup {Shutdown}
  PROVE  /\ Append(s, e) # <<>> /\ Append(s, e)[Len(Append(s, e))] = e
         /\ \E i \in DOMAIN Append(s, e) : Append(s, e)[i] = e
         /\ \A i \in DOMAIN s : i \in DOMAIN Append(s, e) /\ Append(s, e)[i] = s[i]
         /\ \A i \in DOMAIN Append(s, e) :
              \/ i = Len(s) + 1 /\ Append(s, e)[i] = e
              \/ i \in DOMAIN s /\ Append(s, e)[i] = s[i]
<1>1. Len(s) + 1 \in DOMAIN Append(s, e)
  OBVIOUS
<1> QED
  BY <1>1, AppendElements

LEMMA ResultsGrow ==
  ASSUME NEW s \in Seq(Envelopes), NEW e \in Envelopes
  PROVE  /\ Append(s, e) # <<>> /\ Append(s, e)[Len(Append(s, e))] = e
         /\ \E i \in DOMAIN Append(s, e) : Append(s, e)[i] = e
         /\ \A i \in DOMAIN s : i \in DOMAIN Append(s, e) /\ Append(s, e)[i] = s[i]
         /\ \A i \in DOMAIN Append(s, e) :
              \/ i = Len(s) + 1 /\ Append(s, e)[i] = e
              \/ i \in DOMAIN s /\ Append(s, e)[i] = s[i]
<1>1. Len(s) + 1 \in DOMAIN Append(s, e)
  OBVIOUS
<1> QED
  BY <1>1, AppendElements

LEMMA TailElements ==
  ASSUME NEW S, NEW s \in Seq(S), s # <<>>
  PROVE  /\ Head(s) \in S /\ Tail(s) \in Seq(S)
         /\ s[1] = Head(s) /\ 1 \in DOMAIN s
         /\ \A i \in DOMAIN Tail(s) : i + 1 \in DOMAIN s /\ Tail(s)[i] = s[i + 1]
         /\ \A i \in DOMAIN s : i # 1 => i - 1 \in DOMAIN Tail(s) /\ Tail(s)[i - 1] = s[i]
  OBVIOUS

LEMMA LastElement ==
  ASSUME NEW S, NEW s \in Seq(S), s # <<>>
  PROVE  Len(s) \in DOMAIN s /\ s[Len(s)] \in S
  OBVIOUS

LEMMA Kinds ==
  /\ \A c \in Commands : c.id \in Requests /\ c.gen \in Generations
                        /\ c # None /\ c # Shutdown /\ Failure(c.id) \in Events
  /\ \A e \in Envelopes : e.id \in Requests /\ e.gen \in Generations
                         /\ e.outcome \in Outcomes
  /\ \A r \in Requests, g \in Generations : [id |-> r, gen |-> g] \in Commands
  /\ \A r \in Requests, g \in Generations, o \in Outcomes :
       [id |-> r, gen |-> g, outcome |-> o] \in Envelopes
  /\ \A r \in Requests : Failure(r) \in Events /\ Failure(r).id = r
                          /\ Failure(r).outcome = "failed"
  /\ None.id = 0 /\ None.gen = 0 /\ Shutdown.id = 0 /\ Shutdown # None
  /\ \A r \in Requests : r \in Nat /\ r > 0 /\ r <= MaxRequests
  BY BoundsAssumption DEF Commands, Envelopes, Events, Failure, None, Shutdown, Requests,
     Generations, Outcomes

(* No command or answer anywhere carries a number not yet given out. *)
LEMMA NumbersAreUsed ==
  ASSUME TypeOK, AllLawful
  PROVE  /\ job.id \in Nat /\ job.id <= made
         /\ \A i \in DOMAIN inbox : inbox[i].id \in Nat /\ inbox[i].id <= made
         /\ \A i \in DOMAIN results : results[i].id \in Nat /\ results[i].id <= made
<1>1. made \in Nat
  BY BoundsAssumption DEF TypeOK
<1>2. job.id \in Nat /\ job.id <= made
  <2>1. CASE job = None
    BY <1>1, <2>1, Kinds
  <2>2. CASE job # None
    <3>1. job \in Commands /\ job.id <= made
      BY <2>2 DEF TypeOK, AllLawful, Lawful
    <3> QED
      BY ONLY <3>1, Kinds
  <2> QED
    BY <2>1, <2>2
<1>3. ASSUME NEW i \in DOMAIN inbox PROVE inbox[i].id \in Nat /\ inbox[i].id <= made
  <2>1. inbox[i] \in Commands \cup {Shutdown}
    BY <1>3 DEF TypeOK
  <2>2. CASE inbox[i] = Shutdown
    BY <1>1, <2>2, Kinds
  <2>3. CASE inbox[i] # Shutdown
    <3>1. inbox[i] \in Commands /\ inbox[i].id <= made
      BY <1>3, <2>1, <2>3 DEF AllLawful, Lawful
    <3> QED
      BY ONLY <3>1, Kinds
  <2> QED
    BY <2>2, <2>3
<1>4. ASSUME NEW i \in DOMAIN results PROVE results[i].id \in Nat /\ results[i].id <= made
  <2>1. results[i] \in Envelopes
    BY <1>4 DEF TypeOK
  <2>2. results[i].id <= made
    BY <1>4 DEF AllLawful, Lawful
  <2> QED
    BY ONLY <2>1, <2>2, Kinds
<1> QED
  BY <1>2, <1>3, <1>4

LEMMA Empty ==
  /\ 0 \in 0..MaxRequests /\ 0 \in 0..MaxCancels
  /\ \A S : <<>> \in Seq(S)
  /\ DOMAIN <<>> = {}
  BY BoundsAssumption

LEMMA InitHolds == Init => IInv
<1> SUFFICES ASSUME Init PROVE IInv
  OBVIOUS
<1>1. TypeOK
  BY Empty DEF Init, TypeOK, None
<1>2. AllLawful /\ NothingFromTheFuture /\ ThreadsAgree
  BY Empty DEF Init, AllLawful, NothingFromTheFuture, ThreadsAgree, None
<1>3. InOnePlace
  BY Empty DEF Init, InOnePlace, NoneCurrent, Current
<1>4. AnsweredIsOver
  BY Empty DEF Init, AnsweredIsOver, Answered
<1>5. LoadedIsLatest /\ AwaitedIsLatest /\ ResultsAreAnnounced
  BY Empty DEF Init, LoadedIsLatest, AwaitedIsLatest, ResultsAreAnnounced
<1>6. AnswerIsComing
  BY DEF Init, AnswerIsComing
<1> QED
  BY <1>1, <1>2, <1>3, <1>4, <1>5, <1>6 DEF IInv

-----------------------------------------------------------------------------
(* Types. *)
LEMMA TypeInductive == TypeOK /\ ThreadsAgree /\ [Next]_vars => TypeOK'
<1> SUFFICES ASSUME TypeOK, ThreadsAgree, [Next]_vars PROVE TypeOK'
  OBVIOUS
<1> USE DEF TypeOK, threadVars, ownVars, overlayVars, ghostVars
<1>1. CASE Take
  <2>1. Latest \in Commands \cup {Shutdown}
    BY <1>1, LastElement DEF Take, Latest
  <2>2. CASE \E i \in DOMAIN inbox : inbox[i] = Shutdown
    BY <1>1, <2>2 DEF Take
  <2>3. CASE \A i \in DOMAIN inbox : inbox[i] # Shutdown
    <3>1. Latest \in Commands
      BY <1>1, <2>1, <2>3, LastElement DEF Take, Latest
    <3>2. [id |-> Latest.id, gen |-> Latest.gen, outcome |-> "cancelled"] \in Envelopes
      BY <3>1 DEF Commands, Envelopes, Outcomes
    <3>3. results' \in Seq(Envelopes)
      BY <1>1, <2>3, <3>2, AppendElements DEF Take, Answer
    <3> QED
      BY <1>1, <2>3, <3>1, <3>3, Empty DEF Take
  <2> QED
    BY <2>2, <2>3
<1>2. CASE Finish
  <2>1. PICK outcome \in Outcomes : Answer(job, outcome)
    BY <1>2 DEF Finish
  <2>2. [id |-> job.id, gen |-> job.gen, outcome |-> outcome] \in Envelopes
    BY <1>2 DEF Finish, ThreadsAgree, Commands, Envelopes
  <2>3. results' \in Seq(Envelopes)
    BY <2>1, <2>2, AppendElements DEF Answer
  <2> QED
    BY <1>2, <2>3 DEF Finish
<1>3. CASE Panic
  BY <1>3 DEF Panic
<1>4. CASE DropReceiver
  BY <1>4 DEF DropReceiver
<1>5. CASE Notify
  BY <1>5 DEF Notify
<1>6. CASE Load
  <2> DEFINE r == made + 1
  <2> DEFINE command == [id |-> r, gen |-> generation + 1]
  <2>1. r \in Requests /\ made' = r /\ awaited' = r /\ r \in 0..MaxRequests
    BY <1>6, BoundsAssumption DEF Load, Requests
  <2>2. command \in Commands
    BY <2>1 DEF Commands, Generations
  <2>3. Append(inbox, command) \in Seq(Commands \cup {Shutdown})
    BY <2>2
  <2>4. CASE LoadSnapshot(r)
    <3>1. /\ generation' \in Nat /\ latest' \in 0..MaxRequests /\ deferred' \subseteq Requests
          /\ queued' \in Commands \cup {None}
      BY <2>1, <2>2, <2>4 DEF LoadSnapshot
    <3>2. active' \in Commands \cup {None} /\ inbox' \in Seq(Commands \cup {Shutdown})
      BY <2>2, <2>3, <2>4 DEF LoadSnapshot, Send
    <3> HIDE DEF r, command
    <3> QED
      BY <1>6, <2>1, <3>1, <3>2 DEF Load
  <2>5. CASE /\ deferred' = deferred \cup {r}
             /\ UNCHANGED <<generation, active, queued, inbox, latest>>
    BY <1>6, <2>1, <2>5 DEF Load
  <2> QED
    BY <1>6, <2>1, <2>4, <2>5 DEF Load
<1>7. CASE Close
  BY <1>7, Empty DEF Close
<1>8. CASE Cancel
  <2>1. results' \in Seq(Envelopes) /\ cancels' \in 0..MaxCancels /\ latest' \in 0..MaxRequests
    BY <1>8, BoundsAssumption DEF Cancel, CancelPending
  <2>2. active' = None /\ queued' = None /\ generation' \in Nat
    BY <1>8 DEF Cancel, CancelPending
  <2> QED
    BY <1>8, <2>1, <2>2 DEF Cancel
<1>9. CASE Reset
  BY <1>9, BoundsAssumption, Empty DEF Reset, CancelPending
<1>10. CASE Stop
  <2>1. Append(inbox, Shutdown) \in Seq(Commands \cup {Shutdown})
    OBVIOUS
  <2>2. results' \in Seq(Envelopes) /\ latest' \in 0..MaxRequests /\ awaited' \in 0..MaxRequests
    BY <1>10, BoundsAssumption DEF Stop, CancelPending
  <2>3. active' = None /\ queued' = None /\ generation' \in Nat
    BY <1>10 DEF Stop, CancelPending
  <2>4. inbox' \in Seq(Commands \cup {Shutdown})
    BY <1>10, <2>1 DEF Stop
  <2> QED
    BY <1>10, <2>2, <2>3, <2>4 DEF Stop
<1>11. CASE Drain
  BY <1>11, Kinds DEF Drain
<1>12. CASE Collect
  <2>1. Head(results) \in Envelopes /\ Tail(results) \in Seq(Envelopes)
    BY <1>12, TailElements DEF Collect
  <2>2. EventsOf(Head(results)) \subseteq Events
    BY <2>1 DEF EventsOf, Envelopes, Events, Outcomes
  <2> QED
    BY <1>12, <2>1, <2>2 DEF Collect
<1>13. CASE CollectEmpty
  BY <1>13 DEF CollectEmpty, Disconnected
<1>14. CASE CollectDisconnected
  <2>1. {Failure(c.id) : c \in {active, queued} \ {None}} \subseteq Events
    BY Kinds
  <2> QED
    BY <1>14, <2>1 DEF CollectDisconnected
<1>15. CASE DispatchQueued
  <2>1. queued \in Commands
    BY <1>15 DEF DispatchQueued, ThreadsAgree
  <2>2. Append(inbox, queued) \in Seq(Commands \cup {Shutdown}) /\ Failure(queued.id) \in Events
    BY <2>1, Kinds
  <2>3. active' \in Commands \cup {None} /\ inbox' \in Seq(Commands \cup {Shutdown})
    BY <1>15, <2>1, <2>2 DEF DispatchQueued, Send
  <2> QED
    BY <1>15, <2>2, <2>3 DEF DispatchQueued
<1>16. CASE Apply
  <2>1. {e.id : e \in events} \subseteq Requests
    BY DEF Events
  <2> QED
    BY <1>16, <2>1, BoundsAssumption DEF Apply
<1>17. CASE UNCHANGED vars
  BY <1>17 DEF vars
<1> QED
  BY <1>1, <1>2, <1>3, <1>4, <1>5, <1>6, <1>7, <1>8, <1>9, <1>10, <1>11,
     <1>12, <1>13, <1>14, <1>15, <1>16, <1>17 DEF Next, DrainStep

(* The two threads. *)
LEMMA ThreadsInductive == TypeOK /\ ThreadsAgree /\ [Next]_vars => ThreadsAgree'
<1> SUFFICES ASSUME TypeOK, ThreadsAgree, [Next]_vars PROVE ThreadsAgree'
  OBVIOUS
<1> USE DEF ThreadsAgree, threadVars, ownVars, overlayVars, ghostVars
<1>1. CASE Take
  <2>1. CASE \E i \in DOMAIN inbox : inbox[i] = Shutdown
    BY <1>1, <2>1 DEF Take
  <2>2. CASE \A i \in DOMAIN inbox : inbox[i] # Shutdown
    <3>1. Latest \in Commands
      BY <1>1, <2>2, LastElement DEF TypeOK, Take, Latest
    <3>2. Latest # None
      BY <3>1, Kinds
    <3> QED
      BY <1>1, <2>2, <3>2 DEF Take
  <2> QED
    BY <2>1, <2>2
<1>2. CASE Finish
  BY <1>2 DEF Finish, Answer
<1>3. CASE Panic
  BY <1>3 DEF Panic
<1>4. CASE DropReceiver
  BY <1>4 DEF DropReceiver
<1>5. CASE Notify
  BY <1>5 DEF Notify
<1>6. CASE Load
  BY <1>6 DEF Load, LoadSnapshot, Send, Deaf
<1>7. CASE Close
  BY <1>7 DEF Close
<1>8. CASE Cancel
  BY <1>8 DEF Cancel, CancelPending
<1>9. CASE Reset
  BY <1>9 DEF Reset, CancelPending
<1>10. CASE Stop
  BY <1>10 DEF Stop, CancelPending, Deaf
<1>11. CASE Drain
  BY <1>11 DEF Drain
<1>12. CASE Collect
  BY <1>12 DEF Collect
<1>13. CASE CollectEmpty
  BY <1>13 DEF CollectEmpty, Disconnected
<1>14. CASE CollectDisconnected
  BY <1>14 DEF CollectDisconnected, Disconnected
<1>15. CASE DispatchQueued
  BY <1>15 DEF DispatchQueued, Send, Deaf
<1>16. CASE Apply
  BY <1>16 DEF Apply
<1>17. CASE UNCHANGED vars
  BY <1>17 DEF vars
<1> QED
  BY <1>1, <1>2, <1>3, <1>4, <1>5, <1>6, <1>7, <1>8, <1>9, <1>10, <1>11,
     <1>12, <1>13, <1>14, <1>15, <1>16, <1>17 DEF Next, DrainStep

(* Ids of the past. *)
LEMMA PastInductive ==
  /\ TypeOK
  /\ ThreadsAgree
  /\ AllLawful
  /\ NothingFromTheFuture
  /\ [Next]_vars
  => NothingFromTheFuture'
<1> SUFFICES ASSUME TypeOK, ThreadsAgree, AllLawful, NothingFromTheFuture,
     [Next]_vars PROVE NothingFromTheFuture'
  OBVIOUS
<1> USE DEF NothingFromTheFuture, threadVars, ownVars, overlayVars, ghostVars
<1>1. CASE Take
  BY <1>1 DEF Take, Answer, Latest
<1>2. CASE Finish
  BY <1>2 DEF Finish, Answer
<1>3. CASE Panic
  BY <1>3 DEF Panic
<1>4. CASE DropReceiver
  BY <1>4 DEF DropReceiver
<1>5. CASE Notify
  BY <1>5 DEF Notify
<1>6. CASE Load
  <2>1. made \in Nat /\ made' = made + 1 /\ awaited' = made' /\ events' = events /\ told' = told
    BY <1>6, BoundsAssumption DEF TypeOK, Load
  <2>2. latest' \in {latest, made'} /\ deferred' \subseteq deferred \cup {made'}
    BY <1>6 DEF Load, LoadSnapshot
  <2>3. latest \in Nat /\ told \subseteq Nat /\ deferred \subseteq Nat /\ \A e \in events : e.id \in Nat
    BY Kinds, BoundsAssumption DEF TypeOK, Events
  <2> QED
    BY <2>1, <2>2, <2>3
<1>7. CASE Close
  <2>1. made \in Nat
    BY BoundsAssumption DEF TypeOK
  <2> QED
    BY <1>7, <2>1 DEF Close
<1>8. CASE Cancel
  <2>1. made \in Nat
    BY BoundsAssumption DEF TypeOK
  <2> QED
    BY <1>8, <2>1 DEF Cancel, CancelPending
<1>9. CASE Reset
  <2>1. made \in Nat
    BY BoundsAssumption DEF TypeOK
  <2> QED
    BY <1>9, <2>1 DEF Reset, CancelPending
<1>10. CASE Stop
  <2>1. made \in Nat
    BY BoundsAssumption DEF TypeOK
  <2> QED
    BY <1>10, <2>1 DEF Stop, CancelPending
<1>11. CASE Drain
  <2>1. \A r \in deferred : Failure(r).id = r
    BY Kinds DEF TypeOK
  <2> QED
    BY <1>11, <2>1 DEF Drain
<1>12. CASE Collect
  <2>1. \A e \in EventsOf(Head(results)) : e.id <= made
    BY <1>12, TailElements DEF Collect, EventsOf, TypeOK, AllLawful, Lawful
  <2> QED
    BY <1>12, <2>1 DEF Collect
<1>13. CASE CollectEmpty
  BY <1>13 DEF CollectEmpty, Disconnected
<1>14. CASE CollectDisconnected
  <2>1. \A e \in {Failure(c.id) : c \in {active, queued} \ {None}} : e.id <= made
    BY DEF Failure, AllLawful, Lawful
  <2> QED
    BY <1>14, <2>1 DEF CollectDisconnected
<1>15. CASE DispatchQueued
  <2>1. Failure(queued.id).id <= made
    BY <1>15 DEF DispatchQueued, ThreadsAgree, Failure, AllLawful, Lawful
  <2> QED
    BY <1>15, <2>1 DEF DispatchQueued
<1>16. CASE Apply
  <2>1. made \in Nat
    BY BoundsAssumption DEF TypeOK
  <2> QED
    BY <1>16, <2>1 DEF Apply
<1>17. CASE UNCHANGED vars
  BY <1>17 DEF vars
<1> QED
  BY <1>1, <1>2, <1>3, <1>4, <1>5, <1>6, <1>7, <1>8, <1>9, <1>10, <1>11,
     <1>12, <1>13, <1>14, <1>15, <1>16, <1>17 DEF Next, DrainStep

(* Ids and generations. *)
LEMMA LawInductive ==
  /\ TypeOK
  /\ ThreadsAgree
  /\ NothingFromTheFuture
  /\ AllLawful
  /\ [Next]_vars
  => AllLawful'
<1> SUFFICES ASSUME TypeOK, ThreadsAgree, NothingFromTheFuture, AllLawful,
     [Next]_vars PROVE AllLawful'
  OBVIOUS
<1> USE DEF AllLawful, threadVars, ownVars, overlayVars, ghostVars
<1>1. CASE Take
  <2>1. \A c : Lawful(c)' <=> Lawful(c)
    BY <1>1 DEF Take, Lawful
  <2>2. CASE \E i \in DOMAIN inbox : inbox[i] = Shutdown
    BY <1>1, <2>1, <2>2 DEF Take
  <2>3. CASE \A i \in DOMAIN inbox : inbox[i] # Shutdown
    <3>1. Lawful(Latest)
      BY <1>1, <2>3, LastElement DEF TypeOK, Take, Latest
    <3>2. CASE Latest.gen = generation
      BY <1>1, <2>1, <2>3, <3>1, <3>2 DEF Take
    <3>3. CASE Latest.gen # generation
      <4> DEFINE e == [id |-> Latest.id, gen |-> Latest.gen, outcome |-> "cancelled"]
      <4>1. Lawful(e)
        BY <3>1 DEF Lawful
      <4>2. results' = Append(results, e) /\ job' = None /\ inbox' = <<>>
            /\ active' = active /\ queued' = queued
        BY <1>1, <2>3, <3>3 DEF Take, Answer
      <4>3. \A i \in DOMAIN results' : results'[i] = e \/ (i \in DOMAIN results /\ results'[i] = results[i])
        <5>1. e \in Envelopes
          BY <1>1, <2>3, LastElement DEF TypeOK, Take, Latest, Commands, Envelopes, Outcomes
        <5> HIDE DEF e
        <5> QED
          BY <4>2, <5>1, ResultsGrow DEF TypeOK
      <4> HIDE DEF e
      <4> QED
        BY <2>1, <4>1, <4>2, <4>3
    <3> QED
      BY <3>2, <3>3
  <2> QED
    BY <2>2, <2>3
<1>2. CASE Finish
  <2>1. PICK outcome \in Outcomes : Answer(job, outcome)
    BY <1>2 DEF Finish
  <2> DEFINE e == [id |-> job.id, gen |-> job.gen, outcome |-> outcome]
  <2>2. Lawful(e)
    BY <1>2 DEF Finish, ThreadsAgree, Lawful
  <2>3. results' = Append(results, e) /\ job' = None
    BY <1>2, <2>1 DEF Finish, Answer
  <2>4. \A i \in DOMAIN results' : results'[i] = e \/ (i \in DOMAIN results /\ results'[i] = results[i])
    <3>1. e \in Envelopes
      BY <1>2 DEF Finish, ThreadsAgree, TypeOK, Commands, Envelopes
    <3> HIDE DEF e
    <3> QED
      BY <2>3, <3>1, ResultsGrow DEF TypeOK
  <2>5. \A c : Lawful(c)' <=> Lawful(c)
    BY <1>2 DEF Finish, Lawful
  <2> HIDE DEF e
  <2> QED
    BY <1>2, <2>2, <2>3, <2>4, <2>5 DEF Finish
<1>3. CASE Panic
  BY <1>3 DEF Panic, Lawful
<1>4. CASE DropReceiver
  BY <1>4 DEF DropReceiver, Lawful
<1>5. CASE Notify
  BY <1>5 DEF Notify, Lawful
<1>6. CASE Load
  <2>0. PICK command : command = [id |-> made + 1, gen |-> generation + 1]
    OBVIOUS
  <2>1. made' = made + 1 /\ made \in Nat /\ generation \in Nat /\ latest \in Nat
    BY <1>6, BoundsAssumption DEF Load, TypeOK
  <2>2. CASE UNCHANGED <<generation, active, queued, inbox, latest>>
    <3>1. \A c \in Commands \cup Envelopes : Lawful(c) => Lawful(c)'
      BY <2>1, <2>2, Kinds DEF Lawful
    <3> QED
      BY <1>6, <2>2, <3>1, Kinds DEF Load, TypeOK
  <2>3. CASE tx /\ LoadSnapshot(made')
    <3>1. generation' = generation + 1 /\ latest' = made'
      BY <2>3 DEF LoadSnapshot
    <3>2. ASSUME NEW c \in Commands \cup Envelopes, Lawful(c) PROVE Lawful(c)'
      BY <2>1, <3>1, <3>2, Kinds DEF Lawful, Generations, NothingFromTheFuture
    <3>3. Lawful(command)'
      BY <2>0, <2>1, <3>1 DEF Lawful
    <3>4. /\ active' \in {active, command} /\ queued' \in {queued, command}
          /\ inbox' = inbox \/ inbox' = Append(inbox, command)
      BY <2>0, <2>1, <2>3, <3>1 DEF LoadSnapshot, Send
    <3>5. command \in Commands
      BY <1>6, <2>0, <2>1, BoundsAssumption DEF Load, Commands, Requests, Generations
    <3>6. \A i \in DOMAIN inbox' :
            inbox'[i] = command \/ (i \in DOMAIN inbox /\ inbox'[i] = inbox[i])
      <4>1. command \in Commands \cup {Shutdown} /\ inbox \in Seq(Commands \cup {Shutdown})
        BY <3>5 DEF TypeOK
      <4> QED
        BY <3>4, <4>1, InboxGrows
    <3>7. job' = job /\ results' = results
      BY <1>6 DEF Load
    <3>8. (active # None => Lawful(active))' /\ (queued # None => Lawful(queued))'
      BY <3>2, <3>3, <3>4 DEF TypeOK
    <3>9. (job # None => Lawful(job))'
      BY <3>2, <3>7 DEF TypeOK
    <3>10. (\A i \in DOMAIN results : Lawful(results[i]))'
      BY <3>2, <3>7 DEF TypeOK
    <3>11. (\A i \in DOMAIN inbox : inbox[i] # Shutdown => Lawful(inbox[i]))'
      BY <3>2, <3>3, <3>6 DEF TypeOK
    <3> QED
      BY <3>8, <3>9, <3>10, <3>11
  <2> QED
    BY <1>6, <2>2, <2>3 DEF Load, LoadSnapshot
<1>7. CASE Close
  BY <1>7 DEF Close, Lawful
<1>8. CASE Cancel
  <2>1. generation' = generation + 1 /\ latest' = 0 /\ made' = made /\ generation \in Nat
    BY <1>8 DEF Cancel, CancelPending, TypeOK
  <2>2. ASSUME NEW c \in Commands, Lawful(c) PROVE Lawful(c)'
    BY <2>1, <2>2, Kinds DEF Lawful, Generations
  <2>3. active' = None /\ queued' = None /\ results' = <<>> /\ job' = job
    BY <1>8 DEF Cancel, CancelPending
  <2>4. \A i \in DOMAIN inbox' : inbox'[i] # Shutdown => i \in DOMAIN inbox /\ inbox'[i] = inbox[i]
    BY <1>8 DEF Cancel, TypeOK
  <2> QED
    BY <2>2, <2>3, <2>4 DEF TypeOK
<1>9. CASE Reset
  <2>1. generation' = generation + 1 /\ latest' = 0 /\ made' = made /\ generation \in Nat
    BY <1>9 DEF Reset, CancelPending, TypeOK
  <2>2. ASSUME NEW c \in Commands, Lawful(c) PROVE Lawful(c)'
    BY <2>1, <2>2, Kinds DEF Lawful, Generations
  <2>3. active' = None /\ queued' = None /\ results' = <<>> /\ job' = job
    BY <1>9 DEF Reset, CancelPending
  <2>4. \A i \in DOMAIN inbox' : inbox'[i] # Shutdown => i \in DOMAIN inbox /\ inbox'[i] = inbox[i]
    BY <1>9 DEF Reset, TypeOK
  <2> QED
    BY <2>2, <2>3, <2>4 DEF TypeOK
<1>10. CASE Stop
  <2>1. generation' = generation + 1 /\ latest' = 0 /\ made' = made /\ generation \in Nat
    BY <1>10 DEF Stop, CancelPending, TypeOK
  <2>2. ASSUME NEW c \in Commands, Lawful(c) PROVE Lawful(c)'
    BY <2>1, <2>2, Kinds DEF Lawful, Generations
  <2>3. active' = None /\ queued' = None /\ results' = <<>> /\ job' = job
    BY <1>10 DEF Stop, CancelPending
  <2>4. \A i \in DOMAIN inbox' : inbox'[i] # Shutdown => i \in DOMAIN inbox /\ inbox'[i] = inbox[i]
    BY <1>10 DEF Stop, TypeOK
  <2> QED
    BY <2>2, <2>3, <2>4 DEF TypeOK
<1>11. CASE Drain
  BY <1>11 DEF Drain, Lawful
<1>12. CASE Collect
  <2>1. \A c : Lawful(c)' <=> Lawful(c)
    BY <1>12 DEF Collect, Lawful
  <2>2. \A i \in DOMAIN results' : i + 1 \in DOMAIN results /\ results'[i] = results[i + 1]
    BY <1>12, TailElements DEF Collect, TypeOK
  <2> QED
    BY <1>12, <2>1, <2>2 DEF Collect
<1>13. CASE CollectEmpty
  BY <1>13 DEF CollectEmpty, Disconnected, Lawful
<1>14. CASE CollectDisconnected
  BY <1>14 DEF CollectDisconnected, Disconnected, Lawful
<1>15. CASE DispatchQueued
  <2>1. \A c : Lawful(c)' <=> Lawful(c)
    BY <1>15 DEF DispatchQueued, Lawful
  <2>2. Lawful(queued) /\ queued \in Commands
    BY <1>15 DEF DispatchQueued, ThreadsAgree, TypeOK
  <2>3. active' \in {active, queued} /\ (inbox' = inbox \/ inbox' = Append(inbox, queued))
    BY <1>15 DEF DispatchQueued, Send
  <2>4. \A i \in DOMAIN inbox' : inbox'[i] = queued \/ (i \in DOMAIN inbox /\ inbox'[i] = inbox[i])
    <3>1. queued \in Commands \cup {Shutdown} /\ inbox \in Seq(Commands \cup {Shutdown})
      BY <2>2 DEF TypeOK
    <3> QED
      BY <2>3, <3>1, InboxGrows
  <2> QED
    BY <1>15, <2>1, <2>2, <2>3, <2>4 DEF DispatchQueued
<1>16. CASE Apply
  BY <1>16 DEF Apply, Lawful
<1>17. CASE UNCHANGED vars
  BY <1>17 DEF vars, Lawful
<1> QED
  BY <1>1, <1>2, <1>3, <1>4, <1>5, <1>6, <1>7, <1>8, <1>9, <1>10, <1>11,
     <1>12, <1>13, <1>14, <1>15, <1>16, <1>17 DEF Next, DrainStep

(* What is handed to the UI. *)
LEMMA LoadedInductive ==
  /\ TypeOK
  /\ ThreadsAgree
  /\ AllLawful
  /\ LoadedIsLatest
  /\ [Next]_vars
  => LoadedIsLatest'
<1> SUFFICES ASSUME TypeOK, ThreadsAgree, AllLawful, LoadedIsLatest, [Next]_vars
     PROVE LoadedIsLatest'
  OBVIOUS
<1> USE DEF LoadedIsLatest, threadVars, ownVars, overlayVars, ghostVars
<1>1. CASE Take
  BY <1>1 DEF Take, Answer, Latest
<1>2. CASE Finish
  BY <1>2 DEF Finish, Answer
<1>3. CASE Panic
  BY <1>3 DEF Panic
<1>4. CASE DropReceiver
  BY <1>4 DEF DropReceiver
<1>5. CASE Notify
  BY <1>5 DEF Notify
<1>6. CASE Load
  BY <1>6 DEF Load, LoadSnapshot, Send, Deaf, ThreadsAgree
<1>7. CASE Close
  BY <1>7 DEF Close
<1>8. CASE Cancel
  BY <1>8 DEF Cancel, CancelPending, ThreadsAgree
<1>9. CASE Reset
  BY <1>9 DEF Reset, CancelPending, ThreadsAgree
<1>10. CASE Stop
  BY <1>10 DEF Stop, CancelPending, Deaf, ThreadsAgree
<1>11. CASE Drain
  <2>1. \A r \in deferred : Failure(r).outcome # "loaded"
    BY Kinds DEF TypeOK
  <2> QED
    BY <1>11, <2>1 DEF Drain
<1>12. CASE Collect
  <2>1. \A e \in EventsOf(Head(results)) : e.outcome = "loaded" => e.id = latest
    BY <1>12, TailElements DEF Collect, EventsOf, TypeOK, AllLawful, Lawful
  <2> QED
    BY <1>12, <2>1 DEF Collect
<1>13. CASE CollectEmpty
  BY <1>13 DEF CollectEmpty, Disconnected
<1>14. CASE CollectDisconnected
  <2>1. \A e \in {Failure(c.id) : c \in {active, queued} \ {None}} : e.outcome # "loaded"
    BY DEF Failure
  <2> QED
    BY <1>14, <2>1 DEF CollectDisconnected
<1>15. CASE DispatchQueued
  <2>1. Failure(queued.id).outcome # "loaded"
    BY DEF Failure
  <2> QED
    BY <1>15, <2>1 DEF DispatchQueued
<1>16. CASE Apply
  BY <1>16 DEF Apply
<1>17. CASE UNCHANGED vars
  BY <1>17 DEF vars
<1> QED
  BY <1>1, <1>2, <1>3, <1>4, <1>5, <1>6, <1>7, <1>8, <1>9, <1>10, <1>11,
     <1>12, <1>13, <1>14, <1>15, <1>16, <1>17 DEF Next, DrainStep

(* The latest request is in one place. *)
LEMMA OneInductive ==
  /\ TypeOK
  /\ ThreadsAgree
  /\ NothingFromTheFuture
  /\ AllLawful
  /\ InOnePlace
  /\ [Next]_vars
  => InOnePlace'
<1> SUFFICES ASSUME TypeOK, ThreadsAgree, NothingFromTheFuture, AllLawful,
     InOnePlace, [Next]_vars PROVE InOnePlace'
  OBVIOUS
<1> USE DEF InOnePlace, NoneCurrent, Current, threadVars, ownVars, overlayVars,
     ghostVars
<1>1. CASE Take
  <2>1. CASE \E i \in DOMAIN inbox : inbox[i] = Shutdown
    BY <1>1, <2>1 DEF Take
  <2>2. CASE \A i \in DOMAIN inbox : inbox[i] # Shutdown
    <3>1. Len(inbox) \in DOMAIN inbox /\ Latest = inbox[Len(inbox)] /\ Latest \in Commands
      BY <1>1, <2>2, LastElement DEF TypeOK, Take, Latest
    <3>2. CASE Latest.gen = generation
      <4>1. job' = Latest /\ results' = results /\ inbox' = <<>> /\ queued' = queued /\ latest' = latest
        BY <1>1, <2>2, <3>2 DEF Take
      <4> QED
        BY <3>1, <4>1
    <3>3. CASE Latest.gen # generation
      <4>1. PICK e : e = [id |-> Latest.id, gen |-> Latest.gen, outcome |-> "cancelled"]
        OBVIOUS
      <4>2. e \in Envelopes
        BY <3>1, <4>1 DEF Commands, Envelopes, Outcomes
      <4>3. e.id # latest
        BY <2>2, <3>1, <3>3, <4>1 DEF AllLawful, Lawful
      <4>4. results' = Append(results, e) /\ job' = None /\ inbox' = <<>>
            /\ queued' = queued /\ latest' = latest
        BY <1>1, <2>2, <3>3, <4>1 DEF Take, Answer
      <4>5. \A i \in DOMAIN results' : results'[i] = e \/ (i \in DOMAIN results /\ results'[i] = results[i])
        BY <4>2, <4>4, ResultsGrow DEF TypeOK
      <4> QED
        BY <4>3, <4>4, <4>5, Kinds
    <3> QED
      BY <3>2, <3>3
  <2> QED
    BY <2>1, <2>2
<1>2. CASE Finish
  <2>1. PICK outcome \in Outcomes : Answer(job, outcome)
    BY <1>2 DEF Finish
  <2>2. PICK e : e = [id |-> job.id, gen |-> job.gen, outcome |-> outcome]
    OBVIOUS
  <2>3. e \in Envelopes
    BY <1>2, <2>2 DEF Finish, ThreadsAgree, TypeOK, Commands, Envelopes
  <2>4. results' = Append(results, e) /\ job' = None
        /\ inbox' = inbox /\ queued' = queued /\ latest' = latest
    BY <1>2, <2>1, <2>2 DEF Finish, Answer
  <2>5. \A i \in DOMAIN results' :
          \/ i = Len(results) + 1 /\ results'[i] = e
          \/ i \in DOMAIN results /\ results'[i] = results[i]
    BY <2>3, <2>4, ResultsGrow DEF TypeOK
  <2>6. e.id = job.id
    BY <2>2
  <2> QED
    BY <2>4, <2>5, <2>6, Kinds
<1>3. CASE Panic
  BY <1>3, Kinds DEF Panic
<1>4. CASE DropReceiver
  BY <1>4 DEF DropReceiver
<1>5. CASE Notify
  BY <1>5 DEF Notify
<1>6. CASE Load
  <2>1. PICK command : command = [id |-> made + 1, gen |-> generation + 1]
    OBVIOUS
  <2>2. made' = made + 1 /\ made \in Nat /\ generation \in Nat
        /\ job' = job /\ results' = results
    BY <1>6, BoundsAssumption DEF Load, TypeOK
  <2>3. CASE UNCHANGED <<generation, active, queued, inbox, latest>>
    BY <2>2, <2>3
  <2>4. CASE tx /\ LoadSnapshot(made')
    <3>1. generation' = generation + 1 /\ latest' = made + 1
      BY <2>2, <2>4 DEF LoadSnapshot
    <3>2. \/ queued' = command /\ inbox' = inbox
          \/ queued' = queued /\ inbox' \in {inbox, Append(inbox, command)}
      BY <2>1, <2>2, <2>4, <3>1 DEF LoadSnapshot, Send
    <3>3. command \in Commands
      BY <1>6, <2>1, <2>2, BoundsAssumption DEF Load, Commands, Requests, Generations
    <3>4. /\ queued.id # latest' /\ job.id # latest'
          /\ \A i \in DOMAIN inbox : inbox[i].id # latest'
          /\ \A i \in DOMAIN results : results[i].id # latest'
      BY <2>2, <3>1, Kinds DEF TypeOK, AllLawful, Lawful
    <3> QED
      BY <2>2, <3>2, <3>4
  <2> QED
    BY <1>6, <2>3, <2>4 DEF Load, LoadSnapshot
<1>7. CASE Close
  BY <1>7 DEF Close
<1>8. CASE Cancel
  <2>1. latest' = 0
    BY <1>8 DEF Cancel, CancelPending
  <2> QED
    BY <2>1
<1>9. CASE Reset
  <2>1. latest' = 0
    BY <1>9 DEF Reset, CancelPending
  <2> QED
    BY <2>1
<1>10. CASE Stop
  <2>1. latest' = 0
    BY <1>10 DEF Stop, CancelPending
  <2> QED
    BY <2>1
<1>11. CASE Drain
  BY <1>11 DEF Drain
<1>12. CASE Collect
  <2>1. \A i \in DOMAIN results' : i + 1 \in DOMAIN results /\ results'[i] = results[i + 1]
    BY <1>12, TailElements DEF Collect, TypeOK
  <2>2. latest' = latest /\ queued' = queued /\ inbox' = inbox /\ job' = job
    BY <1>12 DEF Collect
  <2>3. ASSUME NEW i \in DOMAIN results', NEW j \in DOMAIN results',
               Current(results[i + 1]), Current(results[j + 1])
        PROVE  i = j
    <3>1. i \in Nat /\ j \in Nat
      BY <1>12 DEF Collect, TypeOK
    <3>2. i + 1 = j + 1
      BY <2>1, <2>3
    <3> QED
      BY <3>1, <3>2
  <2> QED
    BY <2>1, <2>2, <2>3
<1>13. CASE CollectEmpty
  BY <1>13 DEF CollectEmpty, Disconnected
<1>14. CASE CollectDisconnected
  BY <1>14, Kinds DEF CollectDisconnected, Disconnected
<1>15. CASE DispatchQueued
  <2>1. queued \in Commands /\ queued' = None /\ job' = job /\ results' = results /\ latest' = latest
    BY <1>15 DEF DispatchQueued, ThreadsAgree, TypeOK
  <2>2. inbox' \in {inbox, Append(inbox, queued)}
    BY <1>15 DEF DispatchQueued, Send
  <2>3. \A i \in DOMAIN inbox' : inbox'[i] = queued \/ (i \in DOMAIN inbox /\ inbox'[i] = inbox[i])
    <3>1. queued \in Commands \cup {Shutdown} /\ inbox \in Seq(Commands \cup {Shutdown})
      BY <2>1 DEF TypeOK
    <3> QED
      BY <2>2, <3>1, InboxGrows
  <2> QED
    BY <2>1, <2>3, Kinds
<1>16. CASE Apply
  BY <1>16 DEF Apply
<1>17. CASE UNCHANGED vars
  BY <1>17 DEF vars
<1> QED
  BY <1>1, <1>2, <1>3, <1>4, <1>5, <1>6, <1>7, <1>8, <1>9, <1>10, <1>11,
     <1>12, <1>13, <1>14, <1>15, <1>16, <1>17 DEF Next, DrainStep

(* What was answered is over. *)
LEMMA OverInductive ==
  /\ TypeOK
  /\ ThreadsAgree
  /\ NothingFromTheFuture
  /\ AllLawful
  /\ InOnePlace
  /\ AnsweredIsOver
  /\ [Next]_vars
  => AnsweredIsOver'
<1> SUFFICES ASSUME TypeOK, ThreadsAgree, NothingFromTheFuture, AllLawful,
     InOnePlace, AnsweredIsOver, [Next]_vars PROVE AnsweredIsOver'
  OBVIOUS
<1> USE DEF AnsweredIsOver, Answered, NoneCurrent, Current, Disconnected,
     threadVars, ownVars, overlayVars, ghostVars
<1>1. CASE Take
  <2>1. CASE \E i \in DOMAIN inbox : inbox[i] = Shutdown
    BY <1>1, <2>1 DEF Take
  <2>2. CASE \A i \in DOMAIN inbox : inbox[i] # Shutdown
    <3>1. Len(inbox) \in DOMAIN inbox /\ Latest = inbox[Len(inbox)] /\ Latest \in Commands
      BY <1>1, <2>2, LastElement DEF TypeOK, Take, Latest
    <3>2. CASE Latest.gen = generation
      <4>1. job' = Latest /\ results' = results /\ inbox' = <<>> /\ queued' = queued /\ latest' = latest
            /\ UNCHANGED <<active, events, told, deferred>>
        BY <1>1, <2>2, <3>2 DEF Take
      <4>2. ~Disconnected
        BY <1>1 DEF Take
      <4> QED
        BY <3>1, <4>1, <4>2
    <3>3. CASE Latest.gen # generation
      <4>1. PICK e : e = [id |-> Latest.id, gen |-> Latest.gen, outcome |-> "cancelled"]
        OBVIOUS
      <4>2. e \in Envelopes
        BY <3>1, <4>1 DEF Commands, Envelopes, Outcomes
      <4>3. e.id # latest
        BY <2>2, <3>1, <3>3, <4>1 DEF AllLawful, Lawful
      <4>4. results' = Append(results, e) /\ job' = None /\ inbox' = <<>>
            /\ queued' = queued /\ latest' = latest /\ UNCHANGED <<active, events, told, deferred>>
        BY <1>1, <2>2, <3>3, <4>1 DEF Take, Answer
      <4>5. \A i \in DOMAIN results' : results'[i] = e \/ (i \in DOMAIN results /\ results'[i] = results[i])
        BY <4>2, <4>4, ResultsGrow DEF TypeOK
      <4> QED
        BY <4>3, <4>4, <4>5, Kinds
    <3> QED
      BY <3>2, <3>3
  <2> QED
    BY <2>1, <2>2
<1>2. CASE Finish
  <2>1. PICK outcome \in Outcomes : Answer(job, outcome)
    BY <1>2 DEF Finish
  <2>2. PICK e : e = [id |-> job.id, gen |-> job.gen, outcome |-> outcome]
    OBVIOUS
  <2>3. e \in Envelopes
    BY <1>2, <2>2 DEF Finish, ThreadsAgree, TypeOK, Commands, Envelopes
  <2>4. results' = Append(results, e) /\ job' = None
        /\ UNCHANGED <<inbox, queued, latest, active, events, told, deferred>>
        /\ ~Disconnected
    BY <1>2, <2>1, <2>2 DEF Finish, Answer
  <2>5. \A i \in DOMAIN results' : results'[i] = e \/ (i \in DOMAIN results /\ results'[i] = results[i])
    BY <2>3, <2>4, ResultsGrow DEF TypeOK
  <2>6. e.id = job.id
    BY <2>2
  <2> QED
    BY <2>4, <2>5, <2>6, Kinds
<1>3. CASE Panic
  BY <1>3, Kinds DEF Panic
<1>4. CASE DropReceiver
  BY <1>4 DEF DropReceiver
<1>5. CASE Notify
  BY <1>5 DEF Notify
<1>6. CASE Load
  <2>1. PICK command : command = [id |-> made + 1, gen |-> generation + 1]
    OBVIOUS
  <2>2. made' = made + 1 /\ made \in Nat /\ generation \in Nat
        /\ UNCHANGED <<job, results, worker, events, told>>
    BY <1>6, BoundsAssumption DEF Load, TypeOK
  <2>3. command.id = made' /\ made' \notin told \cup {e.id : e \in events} \cup deferred
    BY <2>1, <2>2 DEF NothingFromTheFuture
  <2>4. active.id # made' /\ queued.id # made' /\ latest # made'
    BY <2>2, Kinds DEF TypeOK, AllLawful, Lawful, NothingFromTheFuture
  <2>5. CASE deferred' = deferred \cup {made'} /\ UNCHANGED <<active, queued, inbox, latest>>
    BY <2>2, <2>3, <2>4, <2>5
  <2>6. CASE tx /\ LoadSnapshot(made')
    <3>1. generation' = generation + 1 /\ latest' = made'
      BY <2>6 DEF LoadSnapshot
    <3>2. \/ deferred' = deferred \cup {made'} /\ UNCHANGED <<active, queued, inbox>>
          \/ /\ deferred' = deferred /\ active' \in {active, command}
             /\ queued' \in {queued, command}
      BY <2>1, <2>2, <2>6, <3>1 DEF LoadSnapshot, Send
    <3>3. /\ job.id # made' /\ \A i \in DOMAIN inbox : inbox[i].id # made'
          /\ \A i \in DOMAIN results : results[i].id # made'
      BY ONLY <2>2, TypeOK, AllLawful, NumbersAreUsed
    <3> QED
      BY <2>2, <2>3, <2>4, <3>1, <3>2, <3>3
  <2> QED
    BY <1>6, <2>5, <2>6 DEF Load, LoadSnapshot
<1>7. CASE Close
  BY <1>7 DEF Close
<1>8. CASE Cancel
  <2>1. latest' = 0 /\ active' = None /\ queued' = None /\ events' = events /\ told' = told
        /\ deferred' \subseteq deferred
    BY <1>8 DEF Cancel, CancelPending
  <2>2. 0 \notin told \cup {e.id : e \in events} \cup deferred
    BY Kinds DEF TypeOK, Events
  <2> QED
    BY <2>1, <2>2, Kinds
<1>9. CASE Reset
  <2>1. latest' = 0 /\ active' = None /\ queued' = None /\ events' = events /\ told' = told
        /\ deferred' \subseteq deferred
    BY <1>9 DEF Reset, CancelPending
  <2>2. 0 \notin told \cup {e.id : e \in events} \cup deferred
    BY Kinds DEF TypeOK, Events
  <2> QED
    BY <2>1, <2>2, Kinds
<1>10. CASE Stop
  <2>1. latest' = 0 /\ active' = None /\ queued' = None /\ events' = events /\ told' = told
        /\ deferred' \subseteq deferred
    BY <1>10 DEF Stop, CancelPending
  <2>2. 0 \notin told \cup {e.id : e \in events} \cup deferred
    BY Kinds DEF TypeOK, Events
  <2> QED
    BY <2>1, <2>2, Kinds
<1>11. CASE Drain
  <2>1. {e.id : e \in events'} = deferred /\ deferred' = {} /\ {e.id : e \in events} = {}
    BY <1>11, Kinds DEF Drain, ThreadsAgree, TypeOK
  <2> QED
    BY <1>11, <2>1 DEF Drain
<1>12. CASE Collect
  <2>1. /\ \A i \in DOMAIN results' : i + 1 \in DOMAIN results /\ results'[i] = results[i + 1]
        /\ 1 \in DOMAIN results /\ results[1] = Head(results) /\ Head(results) \in Envelopes
    BY <1>12, TailElements DEF Collect, TypeOK
  <2>2. active' \in {active, None} /\ UNCHANGED <<latest, queued, inbox, job, deferred, told, worker>>
    BY <1>12 DEF Collect
  <2>5. 0 \notin told \cup {e.id : e \in events} \cup deferred
    BY Kinds DEF TypeOK, Events
  <2>6. active'.id \in {active.id, 0}
    BY <2>2, Kinds
  <2>3. CASE EventsOf(Head(results)) = {}
    <3>1. events' = events
      BY <1>12, <2>3 DEF Collect
    <3>2. (\A i \in DOMAIN results : ~Current(results[i]))
          => \A i \in DOMAIN results' : ~Current(results'[i])
      BY <2>1
    <3> QED
      BY <2>1, <2>2, <2>5, <2>6, <3>1, <3>2
  <2>4. CASE EventsOf(Head(results)) # {}
    <3>1. Head(results).gen = generation /\ Head(results).id = latest /\ latest # 0
      BY <2>1, <2>4, Kinds DEF EventsOf, AllLawful, Lawful
    <3>2. {e.id : e \in events'} = {e.id : e \in events} \cup {latest}
      BY <1>12, <2>4, <3>1 DEF Collect, EventsOf
    <3>3. active'.id # latest
      BY <1>12, <3>1, Kinds DEF Collect, TypeOK, AllLawful, Lawful
    <3>4. \A i \in DOMAIN results' : results'[i].id # latest
      <4> TAKE i \in DOMAIN results'
      <4>1. i + 1 \in DOMAIN results /\ results'[i] = results[i + 1] /\ i + 1 # 1
        BY <1>12, <2>1 DEF Collect, TypeOK
      <4> QED
        BY <2>1, <3>1, <4>1 DEF InOnePlace
    <3>5. /\ queued.id # latest /\ job.id # latest /\ latest \notin deferred
          /\ \A i \in DOMAIN inbox : inbox[i].id # latest
      BY <2>1, <3>1 DEF InOnePlace
    <3>6. active'.id \notin told' \cup {e.id : e \in events'} \cup deferred'
      BY <2>2, <2>5, <2>6, <3>1, <3>2, <3>3
    <3> QED
      BY <2>2, <3>2, <3>4, <3>5, <3>6
  <2> QED
    BY <2>3, <2>4
<1>13. CASE CollectEmpty
  BY <1>13 DEF CollectEmpty, Disconnected
<1>14. CASE CollectDisconnected
  <2>1. {e.id : e \in events'} \subseteq {e.id : e \in events} \cup {active.id, queued.id}
    BY <1>14 DEF CollectDisconnected, Failure
  <2>2. active' = None /\ queued' = None /\ results' = <<>> /\ job = None
        /\ UNCHANGED <<latest, inbox, job, deferred, told, worker>> /\ Disconnected
    BY <1>14 DEF CollectDisconnected, ThreadsAgree
  <2>3. 0 \notin told \cup {e.id : e \in events'} \cup deferred
    <3>1. \A e \in events' : e.id \in Requests
      BY <1>14, Kinds DEF CollectDisconnected, TypeOK, Events, Failure
    <3> QED
      BY <2>2, <3>1, Kinds DEF TypeOK
  <2> QED
    BY <2>1, <2>2, <2>3, Kinds
<1>15. CASE DispatchQueued
  <2>1. queued \in Commands /\ queued' = None
        /\ UNCHANGED <<job, results, latest, deferred, told, worker>>
    BY <1>15 DEF DispatchQueued, ThreadsAgree, TypeOK
  <2>2. 0 \notin told \cup {e.id : e \in events} \cup deferred \cup {queued.id}
    BY <2>1, Kinds DEF TypeOK, Events
  <2>3. CASE Deaf
    <3>1. {e.id : e \in events'} = {e.id : e \in events} \cup {queued.id} /\ active' = active
      <4>1. events' = events \cup {Failure(queued.id)} /\ active' = active
        BY <1>15, <2>3 DEF DispatchQueued, Send
      <4>2. Failure(queued.id).id = queued.id
        BY DEF Failure
      <4> QED
        BY <4>1, <4>2
    <3>2. active.id # queued.id
      BY <1>15, <2>1, Kinds DEF DispatchQueued, ThreadsAgree
    <3> QED
      BY <1>15, <2>1, <2>2, <2>3, <3>1, <3>2, Kinds DEF DispatchQueued, Send, InOnePlace, Deaf
  <2>4. CASE ~Deaf
    <3>1. events' = events /\ active' = queued /\ inbox' = Append(inbox, queued)
      BY <1>15, <2>4 DEF DispatchQueued, Send
    <3>2. \A i \in DOMAIN inbox' : inbox'[i] = queued \/ (i \in DOMAIN inbox /\ inbox'[i] = inbox[i])
      <4>1. queued \in Commands \cup {Shutdown} /\ inbox \in Seq(Commands \cup {Shutdown})
        BY <2>1 DEF TypeOK
      <4> QED
        BY <3>1, <4>1, InboxGrows
    <3> QED
      BY <2>1, <2>2, <3>1, <3>2, Kinds
  <2> QED
    BY <2>3, <2>4
<1>16. CASE Apply
  <2>1. told' \cup {e.id : e \in events'} = told \cup {e.id : e \in events}
    BY <1>16 DEF Apply
  <2> QED
    BY <1>16, <2>1 DEF Apply
<1>17. CASE UNCHANGED vars
  BY <1>17 DEF vars
<1> QED
  BY <1>1, <1>2, <1>3, <1>4, <1>5, <1>6, <1>7, <1>8, <1>9, <1>10, <1>11,
     <1>12, <1>13, <1>14, <1>15, <1>16, <1>17 DEF Next, DrainStep

(* What the overlay waits for. *)
LEMMA AwaitedInductive ==
  /\ TypeOK
  /\ ThreadsAgree
  /\ NothingFromTheFuture
  /\ AllLawful
  /\ AwaitedIsLatest
  /\ [Next]_vars
  => AwaitedIsLatest'
<1> SUFFICES ASSUME TypeOK, ThreadsAgree, NothingFromTheFuture, AllLawful,
     AwaitedIsLatest, [Next]_vars PROVE AwaitedIsLatest'
  OBVIOUS
<1> USE DEF AwaitedIsLatest, Current, threadVars, ownVars, overlayVars, ghostVars
<1>1. CASE Take
  <2>1. UNCHANGED <<awaited, open, cancelWanted, active, queued, latest>>
    BY <1>1 DEF Take
  <2>2. CASE \E i \in DOMAIN inbox : inbox[i] = Shutdown
    BY <1>1, <2>1, <2>2 DEF Take
  <2>3. CASE \A i \in DOMAIN inbox : inbox[i] # Shutdown
    <3>1. Len(inbox) \in DOMAIN inbox /\ Latest = inbox[Len(inbox)] /\ Latest \in Commands
      BY <1>1, <2>3, LastElement DEF TypeOK, Take, Latest
    <3>2. CASE Latest.gen = generation
      BY <1>1, <2>1, <2>3, <3>2 DEF Take
    <3>3. CASE Latest.gen # generation
      <4>1. PICK e : e = [id |-> Latest.id, gen |-> Latest.gen, outcome |-> "cancelled"]
        OBVIOUS
      <4>2. e \in Envelopes
        BY <3>1, <4>1 DEF Commands, Envelopes, Outcomes
      <4>3. e.id # latest
        BY <2>3, <3>1, <3>3, <4>1 DEF AllLawful, Lawful
      <4>4. results' = Append(results, e)
        BY <1>1, <2>3, <3>3, <4>1 DEF Take, Answer
      <4>5. \A i \in DOMAIN results' : results'[i] = e \/ (i \in DOMAIN results /\ results'[i] = results[i])
        BY <4>2, <4>4, ResultsGrow DEF TypeOK
      <4> QED
        BY <2>1, <4>3, <4>5
    <3> QED
      BY <3>2, <3>3
  <2> QED
    BY <2>2, <2>3
<1>2. CASE Finish
  <2>1. PICK outcome \in Outcomes :
          (outcome = "cancelled" => generation # job.gen) /\ Answer(job, outcome)
    BY <1>2 DEF Finish
  <2>2. PICK e : e = [id |-> job.id, gen |-> job.gen, outcome |-> outcome]
    OBVIOUS
  <2>3. e \in Envelopes
    BY <1>2, <2>2 DEF Finish, ThreadsAgree, TypeOK, Commands, Envelopes
  <2>4. results' = Append(results, e)
        /\ UNCHANGED <<awaited, open, cancelWanted, active, queued, latest>>
    <3>1. results' = Append(results, e)
      BY <2>1, <2>2 DEF Answer
    <3> QED
      BY <1>2, <3>1 DEF Finish
  <2>5. \A i \in DOMAIN results' : results'[i] = e \/ (i \in DOMAIN results /\ results'[i] = results[i])
    BY <2>3, <2>4, ResultsGrow DEF TypeOK
  <2>6. e.id = latest => e.outcome # "cancelled"
    BY <1>2, <2>1, <2>2 DEF Finish, ThreadsAgree, AllLawful, Lawful
  <2> QED
    BY <2>4, <2>5, <2>6
<1>3. CASE Panic
  BY <1>3 DEF Panic
<1>4. CASE DropReceiver
  BY <1>4 DEF DropReceiver
<1>5. CASE Notify
  BY <1>5 DEF Notify
<1>6. CASE Load
  <2>1. PICK command : command = [id |-> made + 1, gen |-> generation + 1]
    OBVIOUS
  <2>2. made' = made + 1 /\ made \in Nat /\ generation \in Nat /\ results' = results
        /\ awaited' = made' /\ open' = TRUE /\ cancelWanted' = FALSE
    BY <1>6, BoundsAssumption DEF Load, TypeOK
  <2>3. active.id # made' /\ queued.id # made'
    BY <2>2, Kinds DEF TypeOK, AllLawful, Lawful
  <2>4. CASE UNCHANGED <<active, queued, inbox, latest>>
    BY <2>2, <2>3, <2>4
  <2>5. CASE tx /\ LoadSnapshot(made')
    <3>1. latest' = made'
      BY <2>5 DEF LoadSnapshot
    <3>2. \A i \in DOMAIN results : results[i].id # made'
      BY <2>2, Kinds DEF TypeOK, AllLawful, Lawful
    <3> QED
      BY <2>2, <3>1, <3>2
  <2> QED
    BY <1>6, <2>4, <2>5 DEF Load, LoadSnapshot
<1>7. CASE Close
  BY <1>7 DEF Close
<1>8. CASE Cancel
  <2>1. awaited' = 0 /\ latest' = 0
    BY <1>8 DEF Cancel, CancelPending
  <2>2. results' = <<>>
    BY <1>8 DEF Cancel, CancelPending
  <2> QED
    BY <2>1, <2>2
<1>9. CASE Reset
  <2>1. awaited' = 0 /\ latest' = 0
    BY <1>9 DEF Reset, CancelPending
  <2>2. results' = <<>>
    BY <1>9 DEF Reset, CancelPending
  <2> QED
    BY <2>1, <2>2
<1>10. CASE Stop
  <2>1. awaited' = 0 /\ latest' = 0
    BY <1>10 DEF Stop, CancelPending
  <2>2. results' = <<>>
    BY <1>10 DEF Stop, CancelPending
  <2> QED
    BY <2>1, <2>2
<1>11. CASE Drain
  BY <1>11 DEF Drain
<1>12. CASE Collect
  <2>1. \A i \in DOMAIN results' : i + 1 \in DOMAIN results /\ results'[i] = results[i + 1]
    BY <1>12, TailElements DEF Collect, TypeOK
  <2>2. active' \in {active, None} /\ UNCHANGED <<awaited, open, cancelWanted, queued, latest>>
    BY <1>12 DEF Collect
  <2> QED
    BY <2>1, <2>2, Kinds
<1>13. CASE CollectEmpty
  BY <1>13 DEF CollectEmpty, Disconnected
<1>14. CASE CollectDisconnected
  BY <1>14, Kinds DEF CollectDisconnected
<1>15. CASE DispatchQueued
  BY <1>15, Kinds DEF DispatchQueued, Send
<1>16. CASE Apply
  BY <1>16 DEF Apply
<1>17. CASE UNCHANGED vars
  BY <1>17 DEF vars
<1> QED
  BY <1>1, <1>2, <1>3, <1>4, <1>5, <1>6, <1>7, <1>8, <1>9, <1>10, <1>11,
     <1>12, <1>13, <1>14, <1>15, <1>16, <1>17 DEF Next, DrainStep

(* An envelope is announced. *)
LEMMA AnnouncedInductive ==
  /\ TypeOK
  /\ ResultsAreAnnounced
  /\ [Next]_vars
  => ResultsAreAnnounced'
<1> SUFFICES ASSUME TypeOK, ResultsAreAnnounced, [Next]_vars PROVE
     ResultsAreAnnounced'
  OBVIOUS
<1> USE DEF ResultsAreAnnounced, DrainIsComing, threadVars, ownVars, overlayVars,
     ghostVars
<1>1. CASE Take
  BY <1>1 DEF Take, Answer, Latest
<1>2. CASE Finish
  BY <1>2 DEF Finish, Answer
<1>3. CASE Panic
  BY <1>3 DEF Panic
<1>4. CASE DropReceiver
  BY <1>4 DEF DropReceiver
<1>5. CASE Notify
  BY <1>5 DEF Notify
<1>6. CASE Load
  BY <1>6 DEF Load, LoadSnapshot, Send, Deaf
<1>7. CASE Close
  BY <1>7 DEF Close
<1>8. CASE Cancel
  BY <1>8 DEF Cancel, CancelPending
<1>9. CASE Reset
  BY <1>9 DEF Reset, CancelPending
<1>10. CASE Stop
  BY <1>10 DEF Stop, CancelPending, Deaf
<1>11. CASE Drain
  BY <1>11 DEF Drain
<1>12. CASE Collect
  BY <1>12 DEF Collect
<1>13. CASE CollectEmpty
  BY <1>13 DEF CollectEmpty, Disconnected
<1>14. CASE CollectDisconnected
  BY <1>14 DEF CollectDisconnected, Disconnected
<1>15. CASE DispatchQueued
  BY <1>15 DEF DispatchQueued, Send, Deaf
<1>16. CASE Apply
  BY <1>16 DEF Apply
<1>17. CASE UNCHANGED vars
  BY <1>17 DEF vars
<1> QED
  BY <1>1, <1>2, <1>3, <1>4, <1>5, <1>6, <1>7, <1>8, <1>9, <1>10, <1>11,
     <1>12, <1>13, <1>14, <1>15, <1>16, <1>17 DEF Next, DrainStep

(* An answer is coming. *)
LEMMA ComingInductive ==
  /\ TypeOK
  /\ ThreadsAgree
  /\ NothingFromTheFuture
  /\ AllLawful
  /\ AwaitedIsLatest
  /\ ResultsAreAnnounced
  /\ AnswerIsComing
  /\ [Next]_vars
  => AnswerIsComing'
<1> SUFFICES ASSUME TypeOK, ThreadsAgree, NothingFromTheFuture, AllLawful,
     AwaitedIsLatest, ResultsAreAnnounced, AnswerIsComing, [Next]_vars PROVE
     AnswerIsComing'
  OBVIOUS
<1> USE DEF AnswerIsComing, UnderWay, DrainIsComing, Latest, Disconnected,
     threadVars, ownVars, overlayVars, ghostVars
<1>1. CASE Take
  <2>1. CASE \E i \in DOMAIN inbox : inbox[i] = Shutdown
    BY <1>1, <2>1 DEF Take
  <2>2. CASE \A i \in DOMAIN inbox : inbox[i] # Shutdown
    <3> DEFINE last == inbox[Len(inbox)]
    <3>1. last \in Commands
      BY <1>1, <2>2, LastElement DEF TypeOK, Take
    <3>2. active # None => active.gen # 0
      BY Kinds DEF TypeOK, Generations
    <3>3. job = None /\ UNCHANGED <<active, queued, awaited, events, deferred, woken, ui>> /\ ~Disconnected
      BY <1>1 DEF Take, ThreadsAgree
    <3>4. CASE last.gen = generation
      <4>1. job' = last /\ results' = results /\ worker' = "busy"
        BY <1>1, <2>2, <3>4 DEF Take
      <4> HIDE DEF last
      <4>2. active # None => UnderWay(active)'
        <5>1. CASE inbox # <<>> /\ last.gen = active.gen
          BY <3>3, <4>1, <5>1
        <5>2. CASE \E i \in DOMAIN results : results[i].gen = active.gen
          BY <1>1, <3>2, <3>3, <4>1, <5>2, Kinds DEF Take, last
        <5> QED
          BY <3>2, <3>3, <5>1, <5>2, Kinds DEF last
      <4> QED
        BY <1>1, <3>3, <4>1, <4>2 DEF Take
    <3>5. CASE last.gen # generation
      <4>1. PICK e : e = [id |-> last.id, gen |-> last.gen, outcome |-> "cancelled"]
        OBVIOUS
      <4>2. e \in Envelopes /\ e.gen = last.gen
        BY <3>1, <4>1 DEF Commands, Envelopes, Outcomes
      <4>3. results' = Append(results, e) /\ worker' = "notify"
        BY <1>1, <2>2, <3>5, <4>1 DEF Take, Answer
      <4>4. /\ \A i \in DOMAIN results : i \in DOMAIN results' /\ results'[i] = results[i]
            /\ \E i \in DOMAIN results' : results'[i] = e
        BY <4>2, <4>3, ResultsGrow DEF TypeOK
      <4> HIDE DEF last
      <4>5. active # None => UnderWay(active)'
        BY <3>2, <3>3, <4>2, <4>3, <4>4, Kinds DEF last
      <4> QED
        BY <3>3, <4>3, <4>5
    <3> QED
      BY <3>4, <3>5
  <2> QED
    BY <2>1, <2>2
<1>2. CASE Finish
  <2>1. PICK outcome \in Outcomes : Answer(job, outcome)
    BY <1>2 DEF Finish
  <2>2. PICK e : e = [id |-> job.id, gen |-> job.gen, outcome |-> outcome]
    OBVIOUS
  <2>3. e \in Envelopes /\ e.gen = job.gen
    BY <1>2, <2>2 DEF Finish, ThreadsAgree, TypeOK, Commands, Envelopes
  <2>4. results' = Append(results, e)
    BY <2>1, <2>2 DEF Answer
  <2>5. /\ \A i \in DOMAIN results : i \in DOMAIN results' /\ results'[i] = results[i]
        /\ \E i \in DOMAIN results' : results'[i] = e
    BY <2>3, <2>4, ResultsGrow DEF TypeOK
  <2>6. UNCHANGED <<active, queued, awaited, events, deferred, woken, ui, inbox>>
        /\ worker' = "notify" /\ worker = "busy"
    BY <1>2 DEF Finish
  <2>7. active # None => UnderWay(active)'
    BY <2>3, <2>5, <2>6
  <2> QED
    BY <2>6, <2>7
<1>3. CASE Panic
  BY <1>3 DEF Panic
<1>4. CASE DropReceiver
  BY <1>4 DEF DropReceiver
<1>5. CASE Notify
  BY <1>5 DEF Notify
<1>6. CASE Load
  <2>1. PICK command : command = [id |-> made + 1, gen |-> generation + 1]
    OBVIOUS
  <2>2. made' = made + 1 /\ made \in Nat /\ awaited' = made' /\ woken' = TRUE
        /\ UNCHANGED <<job, results, worker, ui, events>>
    BY <1>6, BoundsAssumption DEF Load, TypeOK
  <2>3. command.id = made'
    BY <2>1, <2>2
  <2>4. CASE deferred' = deferred \cup {made'} /\ UNCHANGED <<active, queued, inbox>>
    BY <2>2, <2>4
  <2>5. CASE tx /\ LoadSnapshot(made') /\ active # None
    <3>1. queued' = command /\ UNCHANGED <<active, inbox>>
      BY <2>1, <2>2, <2>5 DEF LoadSnapshot
    <3> QED
      BY <2>2, <2>3, <2>5, <3>1
  <2>6. CASE tx /\ LoadSnapshot(made') /\ active = None /\ ~Deaf
    <3>1. active' = command /\ queued' = queued /\ inbox' = Append(inbox, command)
      BY <2>1, <2>2, <2>6 DEF LoadSnapshot, Send
    <3>2. command \in Commands \cup {Shutdown} /\ inbox \in Seq(Commands \cup {Shutdown})
      BY <1>6, <2>1, <2>2, BoundsAssumption DEF Load, Commands, Requests, Generations, TypeOK
    <3>3. inbox' # <<>> /\ inbox'[Len(inbox')] = command
      BY <3>1, <3>2, InboxGrows
    <3> QED
      BY <2>2, <2>3, <3>1, <3>3
  <2>7. CASE tx /\ LoadSnapshot(made') /\ active = None /\ Deaf
    BY <2>2, <2>4, <2>7 DEF LoadSnapshot, Send
  <2> QED
    BY <1>6, <2>2, <2>4, <2>5, <2>6, <2>7 DEF Load, LoadSnapshot
<1>7. CASE Close
  BY <1>7 DEF Close
<1>8. CASE Cancel
  BY <1>8 DEF Cancel, CancelPending, AwaitedIsLatest
<1>9. CASE Reset
  BY <1>9 DEF Reset, CancelPending, AwaitedIsLatest
<1>10. CASE Stop
  BY <1>10 DEF Stop, CancelPending, Deaf
<1>11. CASE Drain
  <2>1. \A r \in deferred : Failure(r).id = r
    BY Kinds DEF TypeOK
  <2>2. events = {}
    BY <1>11 DEF Drain, ThreadsAgree
  <2> QED
    BY <1>11, <2>1, <2>2 DEF Drain
<1>12. CASE Collect
  <2>1. /\ \A i \in DOMAIN results : i # 1 => i - 1 \in DOMAIN results' /\ results'[i - 1] = results[i]
        /\ results[1] = Head(results) /\ 1 \in DOMAIN results /\ Head(results) \in Envelopes
    BY <1>12, TailElements DEF Collect, TypeOK
  <2>2. UNCHANGED <<queued, awaited, deferred, woken, worker, ui, inbox, job>>
        /\ events' = events \cup EventsOf(Head(results))
    BY <1>12 DEF Collect
  <2>3. CASE active.gen # Head(results).gen
    <3>1. active' = active
      BY <1>12, <2>3 DEF Collect
    <3>2. active # None => UnderWay(active)'
      <4>1. (\E i \in DOMAIN results : results[i].gen = active.gen)
            => \E i \in DOMAIN results' : results'[i].gen = active.gen
        BY <2>1, <2>3
      <4> QED
        BY <2>2, <3>1, <4>1
    <3> QED
      BY <2>2, <3>1, <3>2
  <2>4. CASE active.gen = Head(results).gen
    <3>1. active' = None
      BY <1>12, <2>4 DEF Collect
    <3>2. active # None
      BY <2>1, <2>4, Kinds DEF Generations
    <3>3. awaited # 0 /\ active.id = awaited => \E e \in events' : e.id = awaited
      <4> SUFFICES ASSUME awaited # 0, active.id = awaited PROVE \E e \in events' : e.id = awaited
        OBVIOUS
      <4>1. awaited = latest /\ active.gen = generation
        BY <3>2 DEF AwaitedIsLatest, AllLawful, Lawful
      <4>2. Head(results).id = latest
        BY <2>1, <2>4, <4>1 DEF AllLawful, Lawful
      <4>3. Head(results).outcome # "cancelled"
        BY <2>1, <4>1, <4>2 DEF AwaitedIsLatest, Current
      <4> QED
        <5>1. EventsOf(Head(results)) = {[id |-> latest, outcome |-> Head(results).outcome]}
          BY <2>4, <4>1, <4>2, <4>3 DEF EventsOf
        <5>2. PICK e : e = [id |-> latest, outcome |-> Head(results).outcome]
          OBVIOUS
        <5>3. e \in events' /\ e.id = awaited
          BY <2>2, <4>1, <5>1, <5>2
        <5> QED
          BY <5>3
    <3>4. ui \in {"collect", "recollect"} /\ results # <<>>
      BY <1>12 DEF Collect
    <3> QED
      BY <2>2, <3>1, <3>3, <3>4, Kinds DEF ResultsAreAnnounced
  <2> QED
    BY <2>3, <2>4
<1>13. CASE CollectEmpty
  BY <1>13 DEF CollectEmpty, Disconnected
<1>14. CASE CollectDisconnected
  <2>1. \A c \in {active, queued} \ {None} : Failure(c.id) \in events' /\ Failure(c.id).id = c.id
    BY <1>14 DEF CollectDisconnected, Failure
  <2>2. active' = None /\ queued' = None /\ UNCHANGED <<awaited, deferred, woken, worker>>
        /\ events \subseteq events'
    BY <1>14 DEF CollectDisconnected
  <2>3. awaited # 0 => awaited # None.id
    BY Kinds
  <2> QED
    BY <2>1, <2>2, <2>3
<1>15. CASE DispatchQueued
  <2>1. queued \in Commands /\ active = None /\ queued' = None
        /\ UNCHANGED <<job, results, awaited, deferred, worker, woken>>
    BY <1>15 DEF DispatchQueued, ThreadsAgree, TypeOK
  <2>2. CASE Deaf
    <3>1. Failure(queued.id) \in events' /\ events \subseteq events' /\ active' = active
      BY <1>15, <2>2 DEF DispatchQueued, Send
    <3>2. Failure(queued.id).id = queued.id
      BY DEF Failure
    <3> QED
      BY <2>1, <3>1, <3>2, Kinds
  <2>3. CASE ~Deaf
    <3>1. active' = queued /\ inbox' = Append(inbox, queued) /\ events' = events
      BY <1>15, <2>3 DEF DispatchQueued, Send
    <3>2. inbox' # <<>> /\ inbox'[Len(inbox')] = queued
      <4>1. queued \in Commands \cup {Shutdown} /\ inbox \in Seq(Commands \cup {Shutdown})
        BY <2>1 DEF TypeOK
      <4> QED
        BY <3>1, <4>1, InboxGrows
    <3> QED
      BY <2>1, <3>1, <3>2, Kinds
  <2> QED
    BY <2>2, <2>3
<1>16. CASE Apply
  BY <1>16 DEF Apply
<1>17. CASE UNCHANGED vars
  BY <1>17 DEF vars
<1> QED
  BY <1>1, <1>2, <1>3, <1>4, <1>5, <1>6, <1>7, <1>8, <1>9, <1>10, <1>11,
     <1>12, <1>13, <1>14, <1>15, <1>16, <1>17 DEF Next, DrainStep

-----------------------------------------------------------------------------
(* The inductive invariant of ContextBudget.                                *)
THEOREM InvariantHolds == Spec => []IInv
<1>1. IInv /\ [Next]_vars => IInv'
  BY TypeInductive, LawInductive, PastInductive, ThreadsInductive, OneInductive, OverInductive,
     LoadedInductive, AwaitedInductive, AnnouncedInductive, ComingInductive DEF IInv
<1> QED
  BY InitHolds, <1>1, PTL DEF Spec

(* Every variable of the model has its type.                                *)
THEOREM TypeCorrect == Spec => []TypeOK
<1>1. IInv => TypeOK
  BY DEF IInv
<1> QED
  BY <1>1, InvariantHolds, PTL

(* A snapshot that was cancelled or replaced never leaves the worker,       *)
(* although the thread finishes it (runtime_event_from_envelope).           *)
THEOREM LoadedIsTheLatest == Spec => []LoadedIsLatest
<1>1. IInv => LoadedIsLatest
  BY DEF IInv
<1> QED
  BY <1>1, InvariantHolds, PTL

(* Nobody is told twice of a request, also when the thread ends with one    *)
(* active and one queued (collect_finished_events, drain_events).           *)
THEOREM AnswersAreSingle == Spec => []AnsweredOnce
<1>1. ASSUME IInv PROVE AnsweredOnce
  <2> SUFFICES ASSUME NEW r \in Answered
               PROVE  /\ active.id # r /\ queued.id # r /\ r \notin deferred
                      /\ \A i \in DOMAIN results :
                           results[i].gen = generation => results[i].id # r
    BY DEF AnsweredOnce, Answered
  <2>1. active.id # r /\ queued.id # r /\ r \notin deferred
    BY <1>1 DEF IInv, AnsweredIsOver
  <2>2. ASSUME NEW i \in DOMAIN results, results[i].gen = generation
        PROVE  results[i].id # r
    <3>1. results[i].id = latest /\ latest # 0
      BY <1>1, <2>2, Kinds DEF IInv, TypeOK, AllLawful, Lawful
    <3>2. r = latest => results[i].id # latest
      BY <1>1, <3>1 DEF IInv, AnsweredIsOver, NoneCurrent, Current
    <3> QED
      BY <3>1, <3>2
  <2> QED
    BY <2>1, <2>2
<1> QED
  BY <1>1, InvariantHolds, PTL

(* A request the overlay waits for is never forgotten: it is active or      *)
(* queued, with something under way that moves it on, or its failure is to  *)
(* be reported.                                                             *)
THEOREM AnswerAlwaysComing == Spec => []AnswerIsComing
<1>1. IInv => AnswerIsComing
  BY DEF IInv
<1> QED
  BY <1>1, InvariantHolds, PTL
=============================================================================
