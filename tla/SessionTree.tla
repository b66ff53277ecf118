---------------------------- MODULE SessionTree ----------------------------
(***************************************************************************)
(* The tree of entries of one session and what /tree makes of it: the path *)
(* of a leaf, the rows of that path, where each row rewinds to, and the    *)
(* branches a user can switch to.                                          *)
(*                                                                         *)
(* Entries are only ever appended, so an entry's id is its position and    *)
(* its parent has a smaller one; entry 1 is the header.  An entry is a     *)
(* message of the history, a configuration, a transcript line or a Leaf,   *)
(* which moves the active branch to its target.                            *)
(* resolve.rs also reads Compaction and BranchSummary entries, which no    *)
(* code writes; they are left out.                                         *)
(***************************************************************************)
EXTENDS Naturals, FiniteSets, SequencesExt

CONSTANTS
  Calls,        (* ids of the tool calls of one assistant message *)
  MaxEntries    (* bound: entries of the file                     *)

ASSUME TreeConstantsOK == MaxEntries \in Nat /\ IsFiniteSet(Calls)

VARIABLES
  entries,      (* the entries of the session, in file order                   *)
  stage,        (* "idle", "config" once a turn wrote its configuration, "open" *)
  owed          (* calls of the last message whose results are still to come   *)

treeVars == <<entries, stage, owed>>

NoEntry == 0
Rows == {"User", "Reasoning", "Assistant", "Tool"}
NodeKinds == Rows \cup {"Header", "Config", "Replay", "Leaf"}
Node(kind, parent, target, calls) ==
  [kind |-> kind, parent |-> parent, target |-> target, calls |-> calls]
Root == Node("Header", NoEntry, NoEntry, {})

-----------------------------------------------------------------------------
(* topology.rs, for a file es.                                              *)

Positions(es) == DOMAIN es
IsLeaf(es, i)  == es[i].kind = "Leaf"
Visible(es)    == {i \in Positions(es) : es[i].kind \in Rows}
Children(es, i) == {j \in Positions(es) : es[j].parent = i}

(* The chain of parents of an entry, from the header down to the entry.     *)
Chain(es, i) ==
  LET chain[j \in Positions(es)] ==
        IF es[j].parent = NoEntry THEN <<j>> ELSE Append(chain[es[j].parent], j)
  IN  chain[i]

(* resolve_path: a Leaf stands for its target.                              *)
PathOf(es, leaf) == Chain(es, IF IsLeaf(es, leaf) THEN es[leaf].target ELSE leaf)

InSubtree(es, i, root) == root \in ToSet(Chain(es, i))

VisibleParent(es, i) ==
  Max({NoEntry} \cup ((ToSet(Chain(es, i)) \cap Visible(es)) \ {i}))
LatestVisible(es, root) == Max({i \in Visible(es) : InSubtree(es, i, root)})

LatestEntry(es, root) ==
  Max({i \in Positions(es) : ~IsLeaf(es, i) /\ InSubtree(es, i, root)})

(* The history a leaf stands for.                                           *)
History(es, leaf) == SelectSeq(PathOf(es, leaf), LAMBDA i : i \in Visible(es))

-----------------------------------------------------------------------------
(* rewind.rs: the entry each row rewinds to, or NoEntry.                       *)

Recoverable(es) == {i \in Positions(es) : es[i].kind \in {"Config", "Replay"}}

(* The last of the hidden entries that follow a row, along the active path  *)
(* where they fork on it.                                                   *)
RestoreTarget(es, path, i) ==
  LET follow[j \in Positions(es)] ==
        LET hidden == Children(es, j) \cap Recoverable(es)
            onPath == hidden \cap ToSet(path)
        IN  IF hidden = {} THEN j
            ELSE follow[Max(IF onPath # {} THEN onPath ELSE hidden)]
  IN  follow[i]

(* Mutant: every result of a batch of tool calls will do.                   *)
BatchStepAnyResult(es, path, acc, i) ==
  IF es[i].kind \notin Rows THEN acc
  ELSE IF acc.unanswered # {} /\ es[i].kind = "Tool"
       THEN [unanswered |-> acc.unanswered \ es[i].calls,
             target  |-> [acc.target EXCEPT ![i] = RestoreTarget(es, path, i)]]
       ELSE [unanswered |-> IF es[i].kind = "Assistant" THEN es[i].calls ELSE {},
             target  |-> IF es[i].kind = "Assistant" /\ es[i].calls # {}
                         THEN [acc.target EXCEPT ![i] = NoEntry] ELSE acc.target]

(* A row of a batch of tool calls rewinds nowhere until the last result.    *)
BatchStep(es, path, acc, i) ==
  IF es[i].kind \notin Rows THEN acc
  ELSE IF acc.unanswered # {} /\ es[i].kind = "Tool"
       THEN LET left == acc.unanswered \ es[i].calls
            IN  [unanswered |-> left,
                 target  |-> [acc.target EXCEPT
                               ![i] = IF left = {} THEN RestoreTarget(es, path, i) ELSE NoEntry]]
       ELSE LET opened == IF es[i].kind = "Assistant" THEN es[i].calls ELSE {}
            IN  [unanswered |-> opened,
                 target  |-> IF opened # {} THEN [acc.target EXCEPT ![i] = NoEntry]
                             ELSE acc.target]

(* assistant_or_tool_rewind_target.                                         *)
MessageTarget(es, path, i) ==
  FoldLeft(LAMBDA acc, j : BatchStep(es, path, acc, j),
           [unanswered |-> {}, target |-> [j \in Positions(es) |-> RestoreTarget(es, path, j)]],
           path).target[i]

(* A thought rewinds with the message it led to, if nothing else follows it.*)
OwningAssistant(es, path, i) ==
  LET follow[j \in Positions(es)] ==
        LET next == Children(es, j) \cap (Visible(es) \cup Recoverable(es))
            only == CHOOSE k \in next : TRUE
        IN  IF Cardinality(next) # 1 THEN NoEntry
            ELSE IF only \notin Visible(es) THEN follow[only]
            ELSE IF es[only].kind = "Assistant" THEN MessageTarget(es, path, only)
            ELSE NoEntry
  IN  follow[i]

RewindTarget(es, path, i) ==
  CASE es[i].kind = "User"      -> es[i].parent
    [] es[i].kind = "Reasoning" -> OwningAssistant(es, path, i)
    [] OTHER                    -> MessageTarget(es, path, i)

-----------------------------------------------------------------------------
(* projection.rs: the rows of a leaf from a given row on, each with its     *)
(* visible parent, the entry it rewinds to and the branches that fork at it.*)

Siblings(es, parent) == {i \in Visible(es) : VisibleParent(es, i) = parent}
Branch(es, root) ==
  [root |-> root, leaf |-> LatestEntry(es, root), latest |-> LatestVisible(es, root),
   messages |-> Cardinality({i \in Visible(es) : InSubtree(es, i, root)})]
(* Of the branches at a row, the one on the path is marked.                 *)
BranchChoices(es, path, i) ==
  IF Cardinality(Siblings(es, i)) < 2 THEN {}
  ELSE {<<Branch(es, root), root \in ToSet(path)>> : root \in Siblings(es, i)}

Row(es, path, i) ==
  [id |-> i, parent |-> VisibleParent(es, i), rewind |-> RewindTarget(es, path, i),
   choices |-> BranchChoices(es, path, i)]

RowsFrom(es, leaf, start) ==
  LET path == PathOf(es, leaf)
      shown == SelectSeq(path, LAMBDA i : i \in Visible(es) /\ i >= start)
  IN  [k \in DOMAIN shown |-> Row(es, path, shown[k])]

(* session_tree_snapshot_for_leaf, session_tree_snapshot and                *)
(* session_branch_preview_snapshot.                                         *)
SnapshotForLeaf(es, leaf) == RowsFrom(es, leaf, NoEntry)
Snapshot(es) == SnapshotForLeaf(es, Len(es))
BranchPreview(es, root) ==
  RowsFrom(es, LatestEntry(es, root),
           IF VisibleParent(es, root) = NoEntry THEN root ELSE VisibleParent(es, root))

(* branch.rs: a row begins a branch if nothing visible is above it or if it *)
(* has visible siblings.                                                    *)
BranchRoots(es) ==
  {i \in Visible(es) : VisibleParent(es, i) = NoEntry
                       \/ Cardinality(Siblings(es, VisibleParent(es, i))) >= 2}
ParentBranch(es, root) ==
  Max({NoEntry} \cup ((ToSet(Chain(es, root)) \cap BranchRoots(es)) \ {root}))
CurrentBranch(es) ==
  Max({NoEntry} \cup (ToSet(PathOf(es, Len(es))) \cap BranchRoots(es)))
BranchTree(es) ==
  {[branch |-> Branch(es, root), parent |-> ParentBranch(es, root),
    current |-> root = CurrentBranch(es)] : root \in BranchRoots(es)}

-----------------------------------------------------------------------------
(* The store's appends: an entry goes under the leaf; a Leaf entry itself   *)
(* goes under the newest other entry.                                       *)

ParentOfNext(es) == IF IsLeaf(es, Len(es)) THEN es[Len(es)].target ELSE Len(es)
AppendEntry(kind, calls) ==
  /\ Len(entries) < MaxEntries
  /\ entries' = Append(entries, Node(kind, ParentOfNext(entries), NoEntry, calls))

WithLeaf(es, target) ==
  Append(es, Node("Leaf", Max({i \in Positions(es) : ~IsLeaf(es, i)}), target, {}))
SetLeaf(target) ==
  /\ Len(entries) < MaxEntries
  /\ entries' = WithLeaf(entries, target)
  /\ UNCHANGED <<stage, owed>>

TreeInit == entries = <<Root>> /\ stage = "idle" /\ owed = {}

(* persist_turn_start and persist_context_item, as the entries they append: *)
(* the configuration, the user's message, then thoughts, messages and       *)
(* results, each followed or not by what the transcript shows of it.        *)
WriteConfig ==
  /\ stage = "idle" /\ stage' = "config"
  /\ AppendEntry("Config", {}) /\ UNCHANGED owed
WriteUser ==
  /\ stage = "config" /\ stage' = "open"
  /\ AppendEntry("User", {}) /\ UNCHANGED owed
WriteReasoning ==
  /\ stage = "open" /\ owed = {}
  /\ AppendEntry("Reasoning", {}) /\ UNCHANGED <<stage, owed>>
WriteAssistant ==
  /\ stage = "open" /\ owed = {}
  /\ \E calls \in SUBSET Calls : AppendEntry("Assistant", calls) /\ owed' = calls
  /\ UNCHANGED stage
WriteResult ==
  /\ stage = "open"
  /\ \E call \in owed : AppendEntry("Tool", {call}) /\ owed' = owed \ {call}
  /\ UNCHANGED stage
WriteReplay ==
  /\ stage = "open" /\ Last(entries).kind \in Rows
  /\ AppendEntry("Replay", {}) /\ UNCHANGED <<stage, owed>>

(* A turn ends after any of its entries: it is done, it failed, or the      *)
(* process ended.                                                           *)
TurnEnds ==
  /\ stage # "idle" /\ stage' = "idle" /\ owed' = {}
  /\ UNCHANGED entries

(* select_entry_rewind, switch_branch and TruncateConversation, which the   *)
(* coordinator refuses while a turn runs.  A message that is truncated      *)
(* leaves the item before it as the leaf, or the header.                    *)
SelectEntryRewind ==
  /\ stage = "idle"
  /\ \E row \in ToSet(Snapshot(entries)) : row.rewind # NoEntry /\ SetLeaf(row.rewind)
SwitchBranch ==
  /\ stage = "idle"
  /\ \E node \in BranchTree(entries) : SetLeaf(node.branch.leaf)
TruncateConversation ==
  /\ stage = "idle"
  /\ LET spoken == History(entries, Len(entries))
     IN  \E k \in {j \in DOMAIN spoken : entries[spoken[j]].kind = "User"} :
           SetLeaf(IF k = 1 THEN 1 ELSE spoken[k - 1])

TreeNext ==
  \/ WriteConfig \/ WriteUser \/ WriteReasoning \/ WriteAssistant \/ WriteResult
  \/ WriteReplay \/ TurnEnds
  \/ SelectEntryRewind \/ SwitchBranch \/ TruncateConversation

-----------------------------------------------------------------------------
(* What a user of /tree relies on.                                          *)

(* The positions of the entries and the kinds of turn.                      *)
TreeTypeOK ==
  /\ stage \in {"idle", "config", "open"} /\ owed \subseteq Calls
  /\ \A i \in Positions(entries) :
       /\ entries[i].kind \in NodeKinds /\ entries[i].calls \subseteq Calls
       /\ (i = 1 <=> entries[i].parent = NoEntry) /\ entries[i].parent < i
       /\ (IsLeaf(entries, i) <=> entries[i].target # NoEntry) /\ entries[i].target < i

(* The calls of the last message of a history that no later result answers. *)
Unanswered(es, spoken) ==
  LET asked == {k \in DOMAIN spoken : es[spoken[k]].calls # {} /\ es[spoken[k]].kind = "Assistant"}
      last  == Max(asked)
  IN  IF asked = {} \/ \E k \in (last + 1)..Len(spoken) : es[spoken[k]].kind # "Tool" THEN {}
      ELSE es[spoken[last]].calls \
             UNION {es[spoken[k]].calls : k \in (last + 1)..Len(spoken)}

(* Rewinding to a message of the user keeps what came before it; rewinding  *)
(* to another row keeps what the user sees up to it, the thought with the   *)
(* message it led to, and never cuts a batch of tool calls in two.          *)
RewindLandsOnTheRow ==
  LET seen == History(entries, Len(entries))
      shownRows == Snapshot(entries)
  IN  \A k \in DOMAIN shownRows :
        LET kind == entries[shownRows[k].id].kind
            kept == CASE kind = "User" -> k - 1 [] kind = "Reasoning" -> k + 1 [] OTHER -> k
            spoken == History(entries, shownRows[k].rewind)
        IN  shownRows[k].rewind # NoEntry =>
              /\ spoken = SubSeq(seen, 1, kept)
              /\ kind # "User" => Unanswered(entries, spoken) = {}

(* A branch's preview is the end of what the tree shows once the user has   *)
(* switched to it, which is what the switch itself answered.                *)
SwitchShowsThePreview ==
  \A root \in BranchRoots(entries) :
    LET leaf     == LatestEntry(entries, root)
        answered == SnapshotForLeaf(entries, leaf)
        after    == WithLeaf(entries, leaf)
    IN  /\ Snapshot(after) = answered
        /\ IsSuffix(BranchPreview(entries, root), answered)
        /\ CurrentBranch(after) # NoEntry /\ InSubtree(after, CurrentBranch(after), root)

(* A turn that wrote its configuration and then no message.                 *)
Stillborn(es) ==
  \E i \in Positions(es) : es[i].kind = "Config"
                     /\ ~\E j \in Children(es, i) : es[j].kind = "User"

(* Nothing that was ever said is lost to the user: while every turn stored  *)
(* its message, each row is shown by the branch of some node of the tree.   *)
EveryRowIsReachable ==
  stage # "config" /\ ~Stillborn(entries) =>
    \A i \in Visible(entries) :
      \E node \in BranchTree(entries) :
        i \in {row.id : row \in ToSet(SnapshotForLeaf(entries, node.branch.leaf))}

(* What /tree shows, and where it takes the user, agrees with the file.     *)
TreeIsTrue ==
  TreeTypeOK /\ RewindLandsOnTheRow /\ SwitchShowsThePreview /\ EveryRowIsReachable
=============================================================================
