---------------------------- MODULE SessionStore ----------------------------
(***************************************************************************)
(* One session of the local session store: its append-only JSONL file, its *)
(* row in the metadata index, and the handles (in-memory view + recorder)  *)
(* through which concurrent callers change it.                             *)
(*                                                                         *)
(* The file is kept as what scan_entries makes of it: the entries of its   *)
(* readable lines, first occurrence of an id only, and the state of the    *)
(* text after the last newline.  A write that fails may have put any part  *)
(* of its batch into the file; a crash may follow at any point.            *)
(* Other sessions appear only through the eviction their opening causes.   *)
(***************************************************************************)
EXTENDS Naturals, FiniteSets, SequencesExt

CONSTANTS
  Callers,        (* tasks that call the store: persistence actor, session worker *)
  Nobody,         (* no caller, no handle                                         *)
  MaxCalls,       (* bound: calls that change an existing session                 *)
  MaxWriteFailures,    (* bound: failing writes of the file or of the index            *)
  MaxCrashes,     (* bound: ends of the process, orderly or not                   *)
  MaxEvictions,   (* bound: evictions caused by opening other sessions            *)
  MaxDrops,       (* bound: calls dropped in the middle by a panic                *)
  TornWrites      (* whether a failed write may stop inside a line                *)

ASSUME StoreConstantsOK ==
  /\ Nobody \notin Callers \cup Nat
  /\ MaxCalls \in Nat /\ MaxWriteFailures \in Nat /\ MaxCrashes \in Nat
  /\ MaxEvictions \in Nat /\ MaxDrops \in Nat /\ TornWrites \in BOOLEAN

VARIABLES
  lines,      (* entries of the readable lines of the file, in file order      *)
  tail,       (* what follows the last newline: Clean, Torn, or a whole entry  *)
  indexed,    (* length of the view the index row was derived from, 0: no row  *)
  mapped,     (* the handle in `recorders`, or Nobody                          *)
  closing,    (* evicted handles that are still to be shut down                *)
  view,       (* LocalSessionState::entries of each handle                     *)
  pendingState, (* LocalSessionState::pending_state_entries                    *)
  buffered,   (* RecorderWorker::pending_entries                               *)
  holder,     (* who holds the operation lock of each handle                   *)
  pc, op,     (* where each caller stands and what it was asked to do          *)
  held,       (* the handle a caller keeps an Arc of                           *)
  loaded,     (* the entries a caller read from the file                       *)
  mine,       (* the entries a caller will report as stored                    *)
  acked,      (* history: entries some caller was told are stored              *)
  glued,      (* history: a write landed on a line without its newline         *)
  consumed    (* the bounds used up so far                                        *)

fileVars   == <<lines, tail, glued>>
handleVars == <<view, pendingState, buffered>>
callVars   == <<op, held, loaded, mine>>
storeVars == <<lines, tail, indexed, mapped, closing, view, pendingState, buffered, holder,
          pc, op, held, loaded, mine, acked, glued, consumed>>

(* Every handle after the first follows an eviction or the end of a process. *)
Handles == 1..(1 + MaxCrashes + MaxEvictions)
Ids     == Nat \ {0}
(* An entry names its parent; a Leaf entry also names the target it moves   *)
(* the active branch to.  0 stands for None.                                *)
Entry == [id : Ids, kind : {"Header", "Item", "Leaf"},
          parent : Ids \cup {0}, target : Ids \cup {0}]
(* A line that is not there, or only begun, in the place of an entry. *)
NoLine(state) == [id |-> 0, kind |-> state, parent |-> 0, target |-> 0]
Clean  == NoLine("clean")
Torn   == NoLine("torn")
Header == [id |-> 1, kind |-> "Header", parent |-> 0, target |-> 0]

IdsOf(entries) == {entries[i].id : i \in DOMAIN entries}

-----------------------------------------------------------------------------
(* The file *)

(* The entries whose id is not known yet, in order. *)
New(entries, known) ==
  LET kept[n \in 0..Len(entries)] ==
        IF n = 0 THEN <<>>
        ELSE IF entries[n].id \in IdsOf(known) THEN kept[n - 1]
        ELSE Append(kept[n - 1], entries[n])
  IN  kept[Len(entries)]

(* scan_entries: a tail without newline counts when it happens to be whole. *)
Readable(l, t) == IF t \in {Clean, Torn} THEN l ELSE l \o New(<<t>>, l)
OnFile == Readable(lines, tail)

ParentsPresent(entries) ==
  \A i \in DOMAIN entries : entries[i].parent \in IdsOf(entries) \cup {0}
Loadable == OnFile # <<>> /\ ParentsPresent(OnFile)

(* write_batch got through n lines and left cut behind.  Text put after an  *)
(* unterminated line joins that line and makes it unreadable.               *)
Written(batch, n, cut) ==
  LET joins == tail # Clean /\ (n > 0 \/ cut # Clean)
      whole == SubSeq(batch, IF joins THEN 2 ELSE 1, n)
  IN  /\ lines' = lines \o New(whole, lines)
      /\ tail'  = CASE n = 0 /\ cut = Clean -> tail
                    [] n = 0 /\ joins       -> Torn
                    [] OTHER                -> cut
      /\ glued' = (glued \/ joins)

Cuts(batch, n) ==
  IF TornWrites /\ n < Len(batch) THEN {Clean, Torn, batch[n + 1]} ELSE {Clean}

WriteSucceeds(batch) == Written(batch, Len(batch), Clean) 
WriteFails(batch) ==
  \E n \in 0..Len(batch) : \E cut \in Cuts(batch, n) : Written(batch, n, cut)

-----------------------------------------------------------------------------
(* Parents of new entries *)

LatestNonLeaf(entries) ==
  LET others == {i \in DOMAIN entries : entries[i].kind # "Leaf"}
  IN  entries[CHOOSE i \in others : \A j \in others : j <= i].id

AppendParent(entries) ==
  IF Last(entries).kind # "Leaf" THEN Last(entries).id
  ELSE IF Last(entries).target # 0 THEN Last(entries).target
  ELSE LatestNonLeaf(entries)

MessageItem(id, parent) == [id |-> id, kind |-> "Item", parent |-> parent, target |-> 0]
Leaf(id, parent, target) ==
  [id |-> id, kind |-> "Leaf", parent |-> parent, target |-> target]

(* The batch of append_entries: each entry is the child of the one before. *)
Batch(entries, size) ==
  [i \in 1..size |-> MessageItem(consumed.entries + i,
                          IF i = 1 THEN AppendParent(entries) ELSE consumed.entries + i - 1)]

-----------------------------------------------------------------------------
Goto(c, label) == pc' = [pc EXCEPT ![c] = label]
Use(what, n) == consumed' = [consumed EXCEPT ![what] = @ + n]
MayFail == consumed.failures < MaxWriteFailures

Unlock(c) ==
  IF holder[held[c]] = c THEN holder' = [holder EXCEPT ![held[c]] = Nobody]
  ELSE UNCHANGED holder

(* Leaving the store: the guard and the Arc of the handle are dropped. *)
Leave(c) ==
  /\ Goto(c, "idle")
  /\ held'   = [held EXCEPT ![c] = Nobody]
  /\ mine'   = [mine EXCEPT ![c] = {}]
  /\ loaded' = [loaded EXCEPT ![c] = <<>>]
  /\ UNCHANGED op

OpenHandle(h, entries) ==
  /\ view'     = [view EXCEPT ![h] = entries]
  /\ pendingState' = [pendingState EXCEPT ![h] = <<>>]
  /\ buffered' = [buffered EXCEPT ![h] = <<>>]

(* commit_pending_state_entries after a successful flush of the recorder. *)
FlushSucceeds(h) ==
  /\ WriteSucceeds(buffered[h])
  /\ buffered' = [buffered EXCEPT ![h] = <<>>]
  /\ view'     = [view EXCEPT ![h] = @ \o pendingState[h]]
  /\ pendingState' = [pendingState EXCEPT ![h] = <<>>]

(* Mutant: the recorder forgets its entries when the write fails. *)
FlushFailsAndForgets(h) ==
  /\ MayFail /\ buffered[h] # <<>>
  /\ WriteFails(buffered[h])
  /\ buffered' = [buffered EXCEPT ![h] = <<>>]
  /\ UNCHANGED <<view, pendingState>>

(* A failed write keeps its entries in the recorder, in order. *)
FlushFails(h) ==
  /\ MayFail /\ buffered[h] # <<>>
  /\ WriteFails(buffered[h])
  /\ UNCHANGED handleVars

-----------------------------------------------------------------------------
(* create_session.  A session that could not be created is never named to   *)
(* anybody; its dropped recorder tries once more to write the header.       *)

CreatePersist(c) ==
  /\ pc[c] = "idle" /\ consumed.entries = 0
  /\ OpenHandle(1, <<Header>>)
  /\ WriteSucceeds(<<Header>>)
  /\ held' = [held EXCEPT ![c] = 1]
  /\ mine' = [mine EXCEPT ![c] = {Header}]
  /\ consumed' = [consumed EXCEPT !.entries = 1, !.handles = 1]
  /\ Goto(c, "register")
  /\ UNCHANGED <<indexed, mapped, closing, holder, op, loaded, acked>>

CreateFails(c) ==
  /\ pc[c] = "idle" /\ consumed.entries = 0 /\ MayFail
  /\ \E n \in {0, 1} : Written(<<Header>>, n, Clean)
  /\ consumed' = [consumed EXCEPT !.entries = 1, !.failures = @ + 1]
  /\ UNCHANGED <<indexed, mapped, closing, handleVars, holder, pc, callVars, acked>>

CreateRegister(c) ==
  /\ pc[c] = "register"
  /\ mapped' = held[c]
  /\ Goto(c, "index")
  /\ UNCHANGED <<fileVars, indexed, closing, handleVars, holder, callVars, acked, consumed>>

-----------------------------------------------------------------------------
(* handle_for_session *)

Kinds == {"append", "append two", "leaf", "flush", "flush all"}

(* flush_all only visits handles that are open. *)
Lookup(c, kind) ==
  /\ pc[c] = "idle" /\ indexed > 0
  /\ kind = "flush all" => mapped # Nobody
  /\ consumed.calls < MaxCalls
  /\ Use("calls", 1)
  /\ op' = [op EXCEPT ![c] = kind]
  /\ held' = [held EXCEPT ![c] = mapped]
  /\ Goto(c, IF mapped # Nobody THEN "lock" ELSE "load")
  /\ UNCHANGED <<fileVars, indexed, mapped, closing, handleVars, holder, loaded, mine,
                 acked>>

(* Besides a file that is not loadable, reading the index row or the file   *)
(* may fail; that changes nothing.                                          *)
LoadFile(c) ==
  /\ pc[c] = "load"
  /\ \/ Loadable /\ loaded' = [loaded EXCEPT ![c] = OnFile] /\ Goto(c, "insert")
     \/ Goto(c, "idle") /\ UNCHANGED loaded
  /\ UNCHANGED <<fileVars, indexed, mapped, closing, handleVars, holder, op, held, mine,
                 acked, consumed>>

(* The map is looked up again under the write lock: the first one wins. *)
InsertHandle(c) ==
  /\ pc[c] = "insert"
  /\ \/ /\ mapped # Nobody
        /\ held' = [held EXCEPT ![c] = mapped]
        /\ UNCHANGED <<mapped, handleVars, consumed>>
     \/ /\ mapped = Nobody
        /\ OpenHandle(consumed.handles + 1, loaded[c])
        /\ mapped' = consumed.handles + 1
        /\ held'   = [held EXCEPT ![c] = consumed.handles + 1]
        /\ Use("handles", 1)
  /\ loaded' = [loaded EXCEPT ![c] = <<>>]
  /\ Goto(c, "lock")
  /\ UNCHANGED <<fileVars, indexed, closing, holder, op, mine, acked>>

(* Closing the handle of another session that was evicted for this one      *)
(* fails: the call ends with that error, and the new handle stays.          *)
InsertHandleFails(c) ==
  /\ pc[c] = "insert" /\ mapped = Nobody /\ MayFail
  /\ OpenHandle(consumed.handles + 1, loaded[c])
  /\ mapped' = consumed.handles + 1
  /\ consumed' = [consumed EXCEPT !.handles = @ + 1, !.failures = @ + 1]
  /\ Leave(c)
  /\ UNCHANGED <<fileVars, indexed, closing, holder, acked>>

-----------------------------------------------------------------------------
(* The mutations, under the operation lock of the handle *)

Acquire(c) ==
  /\ pc[c] = "lock" /\ holder[held[c]] = Nobody
  /\ holder' = [holder EXCEPT ![held[c]] = c]
  /\ Goto(c, IF op[c] \in {"flush", "flush all"} THEN "flush" ELSE "recover")
  /\ UNCHANGED <<fileVars, indexed, mapped, closing, handleVars, callVars, acked, consumed>>

(* Mutant: a mutation does not wait for what an earlier one left behind.    *)
SkipRecovery(c) ==
  /\ pc[c] = "recover"
  /\ Goto(c, "write")
  /\ UNCHANGED <<fileVars, handleVars, indexed, mapped, closing, holder, callVars,
                 acked, consumed>>

(* recover_pending_state_entries: what an earlier failure left comes first. *)
Recover(c) ==
  /\ pc[c] = "recover"
  /\ IF pendingState[held[c]] = <<>> THEN UNCHANGED <<fileVars, handleVars>>
     ELSE FlushSucceeds(held[c])
  /\ Goto(c, "write")
  /\ UNCHANGED <<indexed, mapped, closing, holder, callVars, acked, consumed>>

RecoverFails(c) ==
  /\ pc[c] = "recover" /\ pendingState[held[c]] # <<>>
  /\ FlushFails(held[c])
  /\ Use("failures", 1)
  /\ Unlock(c) /\ Leave(c)
  /\ UNCHANGED <<indexed, mapped, closing, acked>>

(* What append_entries and set_leaf write. *)
NewEntries(c) ==
  LET entries == view[held[c]]
  IN  CASE op[c] = "append"     -> {Batch(entries, 1)}
        [] op[c] = "append two" -> {Batch(entries, 2)}
        [] op[c] = "leaf" ->
             {<<Leaf(consumed.entries + 1, LatestNonLeaf(entries), t)>> :
                t \in IdsOf(entries) \cup {0}}

WriteEntries(c) ==
  /\ pc[c] = "write"
  /\ \E batch \in NewEntries(c) :
       /\ WriteSucceeds(buffered[held[c]] \o batch)
       /\ buffered' = [buffered EXCEPT ![held[c]] = <<>>]
       /\ view' = [view EXCEPT ![held[c]] = @ \o batch]
       /\ mine' = [mine EXCEPT ![c] = ToSet(batch)]
       /\ Use("entries", Len(batch))
  /\ Goto(c, "index")
  /\ UNCHANGED <<indexed, mapped, closing, pendingState, holder, op, held, loaded, acked>>

(* Mutant: the recorder drops a batch it could not write.                   *)
FailureForgottenByRecorder(c) ==
  /\ pc[c] = "write" /\ MayFail
  /\ \E batch \in NewEntries(c) :
       /\ WriteFails(buffered[held[c]] \o batch)
       /\ pendingState' = [pendingState EXCEPT ![held[c]] = @ \o batch]
       /\ consumed' = [consumed EXCEPT !.entries = @ + Len(batch), !.failures = @ + 1]
  /\ Unlock(c) /\ Leave(c)
  /\ UNCHANGED <<indexed, mapped, closing, buffered, view, acked>>

(* Mutant: the lock is not given back.                                      *)
FailureKeepsLock(c) ==
  /\ pc[c] = "write" /\ MayFail
  /\ \E batch \in NewEntries(c) :
       /\ WriteFails(buffered[held[c]] \o batch)
       /\ buffered' = [buffered EXCEPT ![held[c]] = @ \o batch]
       /\ pendingState' = [pendingState EXCEPT ![held[c]] = @ \o batch]
       /\ consumed' = [consumed EXCEPT !.entries = @ + Len(batch), !.failures = @ + 1]
  /\ Leave(c)
  /\ UNCHANGED <<indexed, mapped, closing, holder, view, acked>>

WriteEntriesFails(c) ==
  /\ pc[c] = "write" /\ MayFail
  /\ \E batch \in NewEntries(c) :
       /\ WriteFails(buffered[held[c]] \o batch)
       /\ buffered' = [buffered EXCEPT ![held[c]] = @ \o batch]
       /\ pendingState' = [pendingState EXCEPT ![held[c]] = @ \o batch]
       /\ consumed' = [consumed EXCEPT !.entries = @ + Len(batch), !.failures = @ + 1]
  /\ Unlock(c) /\ Leave(c)
  /\ UNCHANGED <<indexed, mapped, closing, view, acked>>

(* flush and flush_handle: success promises the whole view.  flush_all lets *)
(* go of the lock before it updates the index.                              *)
Flush(c) ==
  /\ pc[c] = "flush"
  /\ FlushSucceeds(held[c])
  /\ mine' = [mine EXCEPT ![c] = ToSet(view'[held[c]])]
  /\ IF op[c] = "flush all" THEN Unlock(c) ELSE UNCHANGED holder
  /\ Goto(c, "index")
  /\ UNCHANGED <<indexed, mapped, closing, op, held, loaded, acked, consumed>>

FlushCallFails(c) ==
  /\ pc[c] = "flush"
  /\ FlushFails(held[c])
  /\ Use("failures", 1)
  /\ Unlock(c) /\ Leave(c)
  /\ UNCHANGED <<indexed, mapped, closing, acked>>

(* upsert_session with the metadata cloned when the caller's write was done. *)
UpsertIndex(c) ==
  /\ pc[c] = "index"
  /\ indexed' = IF op[c] = "flush all" THEN Cardinality(mine[c]) ELSE Len(view[held[c]])
  /\ acked' = acked \cup mine[c]
  /\ Unlock(c) /\ Leave(c)
  /\ UNCHANGED <<fileVars, mapped, closing, handleVars, consumed>>

UpsertIndexFails(c) ==
  /\ pc[c] = "index" /\ MayFail
  /\ Use("failures", 1)
  /\ Unlock(c) /\ Leave(c)
  /\ UNCHANGED <<fileVars, indexed, mapped, closing, handleVars, acked>>

-----------------------------------------------------------------------------
(* The environment *)

(* A turn's thread panics while its persistence actor awaits the recorder:  *)
(* the guard is dropped, the recorder still does what it was sent, and the  *)
(* handle's view does not learn of it.                                      *)
CallDropped(c) ==
  /\ pc[c] \notin {"idle", "register"} /\ consumed.drops < MaxDrops
  /\ \/ UNCHANGED <<fileVars, buffered>> /\ Use("drops", 1)
     \/ /\ pc[c] \in {"recover", "flush"}
        /\ WriteSucceeds(buffered[held[c]])
        /\ buffered' = [buffered EXCEPT ![held[c]] = <<>>]
        /\ Use("drops", 1)
     \/ /\ pc[c] = "write"
        /\ \E batch \in NewEntries(c) :
             /\ WriteSucceeds(buffered[held[c]] \o batch)
             /\ buffered' = [buffered EXCEPT ![held[c]] = <<>>]
             /\ consumed' = [consumed EXCEPT !.entries = @ + Len(batch), !.drops = @ + 1]
  /\ holder' = IF held[c] = Nobody THEN holder
               ELSE [holder EXCEPT ![held[c]] = IF @ = c THEN Nobody ELSE @]
  /\ Leave(c)
  /\ UNCHANGED <<indexed, mapped, closing, view, pendingState, acked>>

(* evict_idle_recorders: the map holds the only Arc. *)
Evict ==
  /\ mapped # Nobody /\ consumed.evictions < MaxEvictions
  /\ \A c \in Callers : held[c] # mapped
  /\ closing' = closing \cup {mapped}
  /\ mapped'  = Nobody
  /\ Use("evictions", 1)
  /\ UNCHANGED <<fileVars, indexed, handleVars, holder, pc, callVars, acked>>

(* shutdown_evicted_recorders, on the task that opened the other session:   *)
(* the recorder writes what it still has, then the index row is replaced.   *)
CloseEvicted(h) ==
  /\ h \in closing
  /\ FlushSucceeds(h)
  /\ closing' = closing \ {h}
  /\ \/ indexed' = Len(view'[h]) /\ UNCHANGED consumed
     \/ MayFail /\ Use("failures", 1) /\ UNCHANGED indexed
  /\ UNCHANGED <<mapped, holder, pc, callVars, acked>>

CloseEvictedFails(h) ==
  /\ h \in closing
  /\ FlushFails(h)
  /\ closing' = closing \ {h}
  /\ Use("failures", 1)
  /\ UNCHANGED <<indexed, mapped, holder, pc, callVars, acked>>

ProcessEnds ==
  /\ consumed.crashes < MaxCrashes
  /\ Use("crashes", 1)
  /\ mapped' = Nobody
  /\ closing' = {}
  /\ holder' = [h \in Handles |-> Nobody]
  /\ pc'     = [c \in Callers |-> "idle"]
  /\ held'   = [c \in Callers |-> Nobody]
  /\ loaded' = [c \in Callers |-> <<>>]
  /\ mine'   = [c \in Callers |-> {}]
  /\ UNCHANGED <<op, acked>>

KillProcess == ProcessEnds /\ UNCHANGED <<fileVars, indexed, handleVars>>

(* LocalSessionStore::shutdown, which consumes the store.  One that fails   *)
(* leaves what a failing flush and a crash leave.                           *)
ShutdownStore ==
  /\ mapped # Nobody /\ closing = {} /\ \A c \in Callers : pc[c] = "idle"
  /\ FlushSucceeds(mapped)
  /\ indexed' = Len(view'[mapped])
  /\ ProcessEnds

-----------------------------------------------------------------------------
StoreInit ==
  /\ lines = <<>> /\ tail = Clean /\ glued = FALSE
  /\ indexed = 0 /\ mapped = Nobody /\ closing = {}
  /\ view     = [h \in Handles |-> <<>>]
  /\ pendingState = [h \in Handles |-> <<>>]
  /\ buffered = [h \in Handles |-> <<>>]
  /\ holder   = [h \in Handles |-> Nobody]
  /\ pc     = [c \in Callers |-> "idle"]
  /\ op     = [c \in Callers |-> "append"]
  /\ held   = [c \in Callers |-> Nobody]
  /\ loaded = [c \in Callers |-> <<>>]
  /\ mine   = [c \in Callers |-> {}]
  /\ acked = {}
  /\ consumed = [entries |-> 0, calls |-> 0, handles |-> 0, failures |-> 0, crashes |-> 0, evictions |-> 0,
             drops |-> 0]

Continue(c) ==
  \/ CreateRegister(c) \/ LoadFile(c) \/ InsertHandle(c) \/ InsertHandleFails(c)
  \/ Recover(c) \/ RecoverFails(c)
  \/ WriteEntries(c) \/ WriteEntriesFails(c)
  \/ Flush(c) \/ FlushCallFails(c)
  \/ UpsertIndex(c) \/ UpsertIndexFails(c)

StoreNext ==
  \/ \E c \in Callers : CreatePersist(c) \/ CreateFails(c)
  \/ \E c \in Callers, kind \in Kinds : Lookup(c, kind)
  \/ \E c \in Callers : Acquire(c)
  \/ \E c \in Callers : Continue(c) \/ CallDropped(c)
  \/ Evict
  \/ \E h \in Handles : CloseEvicted(h) \/ CloseEvictedFails(h)
  \/ KillProcess
  \/ ShutdownStore

(* A started call keeps running; tokio's Mutex serves its waiters in order. *)
StoreFairness == \A c \in Callers : WF_storeVars(Continue(c)) /\ SF_storeVars(Acquire(c))

StoreSpec == StoreInit /\ [][StoreNext]_storeVars /\ StoreFairness

-----------------------------------------------------------------------------
StoreTypeOK ==
  /\ lines \in Seq(Entry) /\ tail \in {Clean, Torn} \cup Entry
  /\ glued \in BOOLEAN
  /\ indexed \in Nat
  /\ mapped \in Handles \cup {Nobody} /\ closing \in SUBSET Handles
  /\ view \in [Handles -> Seq(Entry)]
  /\ pendingState \in [Handles -> Seq(Entry)] /\ buffered \in [Handles -> Seq(Entry)]
  /\ holder \in [Handles -> Callers \cup {Nobody}]
  /\ pc \in [Callers -> {"idle", "register", "load", "insert", "lock", "recover",
                         "write", "flush", "index"}]
  /\ op \in [Callers -> Kinds]
  /\ held \in [Callers -> Handles \cup {Nobody}]
  /\ loaded \in [Callers -> Seq(Entry)] /\ mine \in [Callers -> SUBSET Entry]
  /\ acked \in SUBSET Entry

(* What a caller was told is stored can be read back, through failed        *)
(* writes, retries, crashes and restarts, as long as no write joined an     *)
(* unterminated line.  It is read back with the whole file: once the        *)
(* session was created no entry precedes its parent there, although failed  *)
(* batches are written in part and again (append_entries, set_leaf, flush   *)
(* and recover_pending_state_entries against load).                         *)
AckedIsReloaded ==
  ~glued =>
    /\ acked \subseteq ToSet(OnFile)
    /\ indexed > 0 =>
         /\ Loadable
         /\ \A i \in DOMAIN OnFile :
              OnFile[i].parent \in IdsOf(SubSeq(OnFile, 1, i - 1)) \cup {0}

(* Every variable keeps its type, and the in-memory view never diverges     *)
(* from the file: it is a prefix of what a reload would give, and the rest  *)
(* is exactly a prefix of what the recorder still holds.                    *)
ViewMatchesFile ==
  /\ StoreTypeOK
  /\ ~glued /\ mapped # Nobody =>
       /\ IsPrefix(view[mapped], OnFile)
       /\ IsPrefix(OnFile, view[mapped] \o buffered[mapped])

(* The log reads as if the calls had run one after the other: every entry   *)
(* continues the branch that the entries before it left active.             *)
LogIsSequential ==
  ~glued => \A i \in 2..Len(OnFile) :
    LET before == SubSeq(OnFile, 1, i - 1)
    IN  OnFile[i].parent = IF OnFile[i].kind = "Leaf" THEN LatestNonLeaf(before)
                           ELSE AppendParent(before)

(* The file and the view in memory are one log, written in call order.      *)
ViewAndFileAreOneLog == ViewMatchesFile /\ LogIsSequential

(* With failures that stop between lines, the file and the answers given    *)
(* implement the abstract log, also while handles are evicted and reopened. *)
Log == INSTANCE SessionLog WITH log <- OnFile, promised <- acked
ImplementsLog == Log!Spec

(* Every call returns, also after a failed write or a failed recovery: no   *)
(* path leaves the operation lock behind.                                   *)
EveryCallReturns == \A c \in Callers : pc[c] # "idle" ~> pc[c] = "idle"

(* store/local.rs:303: entries of a failed persist are kept in order and    *)
(* are on disk before the next mutation is accepted.                        *)
RecoveredEntriesAreStored == acked \subseteq ToSet(OnFile)
=============================================================================
