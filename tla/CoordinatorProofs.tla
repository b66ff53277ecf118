-------------------------- MODULE CoordinatorProofs --------------------------
(***************************************************************************)
(* Proofs, for any bounds, kinds of commands and users, of the safety      *)
(* properties of Coordinator.                                              *)
(*                                                                         *)
(* That answers find who asked rests on AnswersInv: the trees of the store *)
(* hold every path a turn, a command or an answer names (TreesGrow,        *)
(* TurnsWrite, CommandsAreOfTheStore, ConversationIsStored), the inbox is  *)
(* the active turn's and the turn was started in this conversation         *)
(* (InboxIsOfTheTurn), every observation under way has a generation of its *)
(* own and the awaited one is among them (ObservationsAreNumbered), and    *)
(* each turn and each Reset makes two generations at most                  *)
(* (GenerationsAreBounded).                                                *)
(*                                                                         *)
(* That a waiter's conversation is what the session holds needs more: one  *)
(* thing at a time is under way (OneAtATime, TurnsWait), a restored        *)
(* history and a truncation on their way are those of the leaf they come   *)
(* with (CommandWaits, AnswerWaits), and in between the conversation is    *)
(* the stored history but for what its turn has yet to report (InStep).    *)
(***************************************************************************)
EXTENDS Coordinator, SequenceFilterProofs

-----------------------------------------------------------------------------
(* The inductive invariant *)

Path == Seq(Entries)
Jobs == [kind : Mutations \cup {"list"}, session : Sessions \cup {None}, path : Path,
         loaded : BOOLEAN, history : Seq(Path)]
Results == [of : Mutations \cup {"list"}, result : {"rows", "noop", "restored", "failed"},
            session : Sessions \cup {None}, history : Seq(Path)]
TurnEvents == [kind : {"entry"}, session : Sessions, entry : Path] \cup [kind : {"end"}]
Asked == [generation : Nat, turn : Turns]

EnvType == [generation : Nat, active : Nat \cup {None}, tasks : Seq(Asked), results : Seq(Asked)]
WorkerType == [queue : Seq(Jobs), job : Seq(Jobs), events : Seq(Results),
               commands : Nat, mutations : Nat, alive : BOOLEAN]

Types ==
  /\ conv \in [session : Sessions \cup {None}, history : Seq(Path)] /\ era \in Nat
  /\ active \in Turns \cup {None} /\ preparing \in Turns \cup {None}
  /\ inbox \in Seq(TurnEvents)
  /\ written \in [Turns -> 0..4] /\ phase \in [Turns -> {"new", "waiting", "live", "over"}]
  /\ item \in [Turns -> Path] /\ home \in [Turns -> Sessions \cup {None}]
  /\ born \in [Turns -> Int]
  /\ env \in EnvType /\ worker \in WorkerType
  /\ spent \in [commands : Nat, failures : Nat] /\ unsaved \in BOOLEAN
  /\ tree \in [Sessions -> SUBSET Path] /\ leaf \in [Sessions -> Path]

(* A path is in a tree with all that leads to it. *)
Grown(s) == \A p \in tree[s] : \A i \in 0..Len(p) : SubSeq(p, 1, i) \in tree[s]
Within(p, s) == p = <<>> \/ p \in tree[s]
Holds(h, s) == \A k \in 1..Len(h) : h[k] \in tree[s]

(* Every tree is closed under what leads to a path, and holds its leaf. *)
TreesGrow == \A s \in Sessions : Grown(s) /\ Within(leaf[s], s)

(* The conversation is one of a session that was written, and names its paths. *)
ConversationIsStored ==
  IF conv.session = None THEN conv.history = <<>>
  ELSE tree[conv.session] # {} /\ Holds(conv.history, conv.session)

(* A turn that has written is at home in a session that holds what it wrote. *)
TurnsWrite ==
  \A t \in Turns :
    /\ phase[t] \in {"new", "waiting"} => written[t] = 0
    /\ IF written[t] = 0 THEN item[t] = <<>>
       ELSE home[t] # None /\ item[t] # <<>> /\ item[t] \in tree[home[t]] /\ Last(item[t]).turn = t

(* What the turn reports is its own and was written. *)
Report(e, t) ==
  e.kind = "entry" => /\ e.session = home[t] /\ e.entry \in tree[home[t]]
                      /\ e.entry # <<>> /\ Last(e.entry).turn = t

(* Only an active turn has an inbox, and it was started in this conversation. *)
InboxIsOfTheTurn ==
  /\ active = None => inbox = <<>>
  /\ active # None =>
       /\ born[active] = era
       /\ conv.session \in {home[active], None}
       /\ \A k \in 1..Len(inbox) : Report(inbox[k], active)

(* A command or an answer names a session that was written, and its paths. *)
JobOK(c) ==
  /\ c.kind = "list" => c.path = <<>> /\ ~c.loaded
  /\ c.kind # "list" => /\ c.session # None /\ tree[c.session] # {}
                        /\ Within(c.path, c.session) /\ Holds(c.history, c.session)
  /\ c.kind = "rewind" /\ ~c.loaded => IsItem(c.path)

AnswerOK(e) ==
  e.result = "restored" =>
    e.session # None /\ tree[e.session] # {} /\ Holds(e.history, e.session)

CommandsAreOfTheStore ==
  /\ \A k \in 1..Len(worker.queue) : JobOK(worker.queue[k])
  /\ Len(worker.job) <= 1 /\ \A k \in 1..Len(worker.job) : JobOK(worker.job[k])
  /\ \A k \in 1..Len(worker.events) : AnswerOK(worker.events[k])

(* Every pending command was given by the user. *)
CountersAreBounded ==
  worker.commands <= spent.commands /\ worker.mutations <= spent.commands /\ spent.commands <= MaxCommands

Under == ToSet(env.tasks) \cup ToSet(env.results)

(* A generation is given once, and the awaited one is under way. *)
ObservationsAreNumbered ==
  /\ \A o \in Under : o.generation <= env.generation
  /\ \A o, p \in Under : o.generation = p.generation => o = p
  /\ env.active = None <=> preparing = None
  /\ preparing # None =>
       /\ env.active = env.generation /\ phase[preparing] = "waiting"
       /\ [generation |-> env.active, turn |-> preparing] \in Under

Waiting == IF preparing = None THEN 0 ELSE 1
Started(k) ==
  /\ \A t \in Turns : phase[t] = "new" <=> t > k
  /\ env.generation + Waiting <= k + k + spent.commands

(* Turns are started in order, with two generations each at most. *)
GenerationsAreBounded == \E k \in 0..MaxTurns : Started(k)

AnswersInv ==
  /\ Types /\ TreesGrow /\ ConversationIsStored /\ TurnsWrite /\ InboxIsOfTheTurn
  /\ CommandsAreOfTheStore /\ CountersAreBounded /\ ObservationsAreNumbered /\ GenerationsAreBounded

(* A session exists from the first entry of the turn that creates it. *)
SessionsAreStored ==
  /\ \A t \in Turns : home[t] # None => tree[home[t]] # {}
  /\ \A t \in Turns : written[t] = 0 => tree[t] = {}

(* The end of a turn is read after all its reports, and between two items. *)
EndIsLast ==
  /\ \A k \in 1..Len(inbox) : inbox[k].kind = "end" => phase[active] = "over" /\ Len(inbox) = 1
  /\ \A t \in Turns : phase[t] = "over" => written[t] \in {0, 2, 4}

At(q, j, e) == worker.queue = q /\ worker.job = j /\ worker.events = e
Idle == At(<<>>, <<>>, <<>>)
Queued(c) == At(<<c>>, <<>>, <<>>)
Doing(c) == At(<<>>, <<c>>, <<>>)
Answered(e) == At(<<>>, <<>>, <<e>>)

NoTurn == preparing = None /\ \A t \in Turns : phase[t] # "live"

(* A truncation that is on its way keeps the path to the leaf it names, and
   what was loaded or restored is the history on the path it was loaded for. *)
CommandWaits(c) ==
  /\ c.kind # "list" => active = None
  /\ c.loaded => c.history = HistoryOf(c.path)
  /\ c.kind = "setLeaf" /\ ~unsaved => c.session = conv.session /\ conv.history = HistoryOf(c.path)
AnswerWaits(e) ==
  e.result = "restored" => active = None /\ e.history = HistoryOf(leaf[e.session])

OneAtATime ==
  \/ Idle
  \/ /\ NoTurn
     /\ \/ \E c \in Jobs : Queued(c) /\ ~c.loaded /\ CommandWaits(c)
        \/ \E c \in Jobs : Doing(c) /\ CommandWaits(c)
        \/ \E e \in Results : Answered(e) /\ AnswerWaits(e)

TurnsWait ==
  /\ \A t \in Turns : phase[t] = "live" => active = t
  /\ active # None => preparing = None

(* What the conversation has yet to hear from its turn. *)
ComingOf(i) == IF i # <<>> /\ i[1].kind = "end" THEN <<>> ELSE [k \in 1..Len(i) |-> i[k].entry]
Coming == ComingOf(inbox)
Pend == IF active # None /\ written[active] \in {1, 3} THEN <<item[active]>> ELSE <<>>
Here == IF active = None THEN conv.session ELSE home[active]

(* Nothing is about to move the leaf or to replace the conversation. *)
Moving(w) ==
  \/ w.queue # <<>> /\ w.queue[1].kind = "setLeaf"
  \/ w.job # <<>> /\ w.job[1].kind = "setLeaf"
  \/ w.events # <<>> /\ w.events[1].result = "restored"
Steady == ~unsaved /\ Here # None /\ ~Moving(worker)

InStep == Steady => conv.history \o Coming \o Pend = HistoryOf(leaf[Here])

Waits == OneAtATime /\ TurnsWait /\ InStep
WaitsInv == user = "waits" => Waits


-----------------------------------------------------------------------------
(* The history on a path *)

ItemPaths == {p \in Path : IsItem(p)}

(* What is appended to a path is behind all that was there. *)
LEMMA PathMore ==
  ASSUME NEW p \in Path, NEW e \in Entries
  PROVE  /\ Append(p, e) \in Path /\ Append(p, e) # <<>> /\ Last(Append(p, e)) = e
         /\ Len(p) \in Nat /\ Len(Append(p, e)) = Len(p) + 1
         /\ \A i \in 0..Len(p) : SubSeq(Append(p, e), 1, i) = SubSeq(p, 1, i)
         /\ SubSeq(Append(p, e), 1, Len(p) + 1) = Append(p, e)
<1>1. Append(p, e) \in Path /\ Append(p, e) # <<>> /\ Len(p) \in Nat /\ Len(Append(p, e)) = Len(p) + 1
  BY DEF Path
<1>2. Last(Append(p, e)) = e
  BY DEF Path, Last
<1>3. \A i \in 0..Len(p) : SubSeq(Append(p, e), 1, i) = SubSeq(p, 1, i)
  BY DEF Path
<1>4. SubSeq(Append(p, e), 1, Len(p) + 1) = Append(p, e)
  BY DEF Path
<1> QED BY <1>1, <1>2, <1>3, <1>4

LEMMA AncestorsMore ==
  ASSUME NEW p \in Path, NEW e \in Entries
  PROVE  /\ Ancestors(p) \in Seq(Path)
         /\ Ancestors(Append(p, e)) = Append(Ancestors(p), Append(p, e))
<1> DEFINE q == Append(p, e)
<1>1. /\ q \in Path /\ Len(p) \in Nat /\ Len(q) = Len(p) + 1
      /\ \A i \in 0..Len(p) : SubSeq(q, 1, i) = SubSeq(p, 1, i)
      /\ SubSeq(q, 1, Len(p) + 1) = q
  BY PathMore
<1> HIDE DEF q
<1>2. \A i \in 1..Len(p) : SubSeq(p, 1, i) \in Path
  BY DEF Path
<1>3. Ancestors(p) \in Seq(Path) /\ Len(Ancestors(p)) = Len(p)
      /\ \A i \in 1..Len(p) : Ancestors(p)[i] = SubSeq(p, 1, i)
  BY <1>1, <1>2 DEF Ancestors
<1>4. \A i \in 1..Len(q) : SubSeq(q, 1, i) \in Path
  BY <1>1 DEF Path
<1>5. Ancestors(q) \in Seq(Path) /\ Len(Ancestors(q)) = Len(p) + 1
      /\ \A i \in 1..Len(p) + 1 : Ancestors(q)[i] = SubSeq(q, 1, i)
  BY <1>1, <1>4 DEF Ancestors
<1> DEFINE a == Ancestors(p)  b == Ancestors(q)  c == Append(a, q)
<1>6. c \in Seq(Path) /\ Len(c) = Len(p) + 1 /\ c[Len(p) + 1] = q
      /\ \A i \in 1..Len(p) : c[i] = SubSeq(p, 1, i)
  BY <1>1, <1>3
<1> HIDE DEF a, b, c
<1>7. b \in Seq(Path) /\ Len(b) = Len(c) /\ \A i \in 1..Len(b) : b[i] = c[i]
  BY <1>1, <1>5, <1>6 DEF b
<1>8. b = c
  BY <1>6, <1>7
<1> QED BY <1>3, <1>8 DEF a, b, c, q

LEMMA HistoryOfNothing == HistoryOf(<<>>) = <<>>
<1>1. Ancestors(<<>>) = <<>>
  BY DEF Ancestors
<1> QED BY <1>1, SelectOfNothing DEF HistoryOf

LEMMA HistoryType ==
  ASSUME NEW p \in Path
  PROVE  HistoryOf(p) \in Seq(Path)
<1>1. Ancestors(p) \in Seq(Path)
  BY DEF Ancestors, Path
<1> QED BY <1>1, SelectType DEF HistoryOf

(* An item is the last of the history on the path to it, and a line is not part of it. *)
LEMMA HistoryMore ==
  ASSUME NEW p \in Path, NEW e \in Entries
  PROVE  HistoryOf(Append(p, e)) = IF e.kind \in Items THEN Append(HistoryOf(p), Append(p, e))
                                   ELSE HistoryOf(p)
<1> DEFINE q == Append(p, e)  a == Ancestors(p)
<1>1. q \in Path /\ q # <<>> /\ Last(q) = e
  BY PathMore
<1>2. a \in Seq(Path) /\ Ancestors(q) = Append(a, q)
  BY AncestorsMore
<1> HIDE DEF q, a
<1>3. Select(Append(a, q), ItemPaths)
        = IF q \in ItemPaths THEN Append(Select(a, ItemPaths), q) ELSE Select(a, ItemPaths)
  BY <1>1, <1>2, SelectAppend
<1>4. q \in ItemPaths <=> e.kind \in Items
  BY <1>1 DEF ItemPaths, IsItem
<1>5. HistoryOf(q) = Select(Append(a, q), ItemPaths) /\ HistoryOf(p) = Select(a, ItemPaths)
  BY <1>2 DEF HistoryOf, ItemPaths, Path, a
<1> QED BY <1>3, <1>4, <1>5 DEF q

OnThePath(h, p) == \A k \in 1..Len(h) : IsItem(h[k]) /\ \E i \in 1..Len(p) : h[k] = SubSeq(p, 1, i)
CutsAt(h) == \A k \in 1..Len(h) : HistoryOf(h[k]) = SubSeq(h, 1, k)

LEMMA SequenceCut ==
  ASSUME NEW h \in Seq(Path), NEW q \in Path
  PROVE  /\ Append(h, q) \in Seq(Path) /\ Len(h) \in Nat /\ Len(Append(h, q)) = Len(h) + 1
         /\ Append(h, q)[Len(h) + 1] = q
         /\ \A k \in 1..Len(h) : Append(h, q)[k] = h[k]
         /\ \A k \in 1..Len(h) : SubSeq(Append(h, q), 1, k) = SubSeq(h, 1, k)
         /\ SubSeq(Append(h, q), 1, Len(h) + 1) = Append(h, q)
<1>1. /\ Append(h, q) \in Seq(Path) /\ Len(h) \in Nat /\ Len(Append(h, q)) = Len(h) + 1
      /\ Append(h, q)[Len(h) + 1] = q
      /\ \A k \in 1..Len(h) : Append(h, q)[k] = h[k]
  OBVIOUS
<1>2. \A k \in 1..Len(h) : SubSeq(Append(h, q), 1, k) = SubSeq(h, 1, k)
  OBVIOUS
<1>3. SubSeq(Append(h, q), 1, Len(h) + 1) = Append(h, q)
  OBVIOUS
<1> QED BY <1>1, <1>2, <1>3

(* The history on a path are the items on it, and cut after one of them it is
   the history on the path to that one. *)
LEMMA HistoryFacts ==
  ASSUME NEW p \in Path
  PROVE  /\ HistoryOf(p) \in Seq(Path)
         /\ OnThePath(HistoryOf(p), p)
         /\ CutsAt(HistoryOf(p))
<1> DEFINE D == {x \in Path : OnThePath(HistoryOf(x), x) /\ CutsAt(HistoryOf(x))}
<1>1. <<>> \in D
  <2>1. <<>> \in Path /\ Len(<<>>) = 0
    BY DEF Path
  <2> QED BY <2>1, HistoryOfNothing DEF OnThePath, CutsAt
<1>2. ASSUME NEW x \in Path, NEW e \in Entries, x \in D PROVE Append(x, e) \in D
  <2> DEFINE q == Append(x, e)  h == HistoryOf(x)  g == HistoryOf(q)  m == Append(h, q)
  <2>1. /\ q \in Path /\ q # <<>> /\ Last(q) = e
        /\ Len(x) \in Nat /\ Len(q) = Len(x) + 1
        /\ \A i \in 0..Len(x) : SubSeq(q, 1, i) = SubSeq(x, 1, i)
        /\ SubSeq(q, 1, Len(x) + 1) = q
    BY PathMore
  <2>2. h \in Seq(Path) /\ OnThePath(h, x) /\ CutsAt(h)
    BY <1>2, HistoryType
  <2>3. g = IF e.kind \in Items THEN m ELSE h
    BY HistoryMore
  <2> HIDE DEF q, h
  <2>4. /\ m \in Seq(Path) /\ Len(h) \in Nat /\ Len(m) = Len(h) + 1 /\ m[Len(h) + 1] = q
        /\ \A k \in 1..Len(h) : m[k] = h[k]
        /\ \A k \in 1..Len(h) : SubSeq(m, 1, k) = SubSeq(h, 1, k)
        /\ SubSeq(m, 1, Len(h) + 1) = m
    BY <2>1, <2>2, SequenceCut
  <2> HIDE DEF m
  <2>5. OnThePath(h, q)
    <3> SUFFICES ASSUME NEW k \in 1..Len(h)
                 PROVE  IsItem(h[k]) /\ \E i \in 1..Len(q) : h[k] = SubSeq(q, 1, i)
      BY DEF OnThePath
    <3>1. PICK i \in 1..Len(x) : h[k] = SubSeq(x, 1, i)
      BY <2>2 DEF OnThePath
    <3>2. i \in 1..Len(q) /\ SubSeq(q, 1, i) = SubSeq(x, 1, i)
      BY <2>1, <3>1
    <3> QED BY <2>2, <3>1, <3>2 DEF OnThePath
  <2>6. CASE e.kind \notin Items
    BY <2>1, <2>2, <2>3, <2>5, <2>6 DEF q
  <2>7. CASE e.kind \in Items
    <3>1. g = m
      BY <2>3, <2>7
    <3> HIDE DEF g
    <3>2. IsItem(q)
      BY <2>1, <2>7 DEF IsItem
    <3>3. ASSUME NEW k \in 1..Len(m)
          PROVE  IsItem(m[k]) /\ \E i \in 1..Len(q) : m[k] = SubSeq(q, 1, i)
      <4>1. CASE k \in 1..Len(h)
        BY <2>4, <2>5, <4>1 DEF OnThePath
      <4>2. CASE k = Len(h) + 1
        <5>1. m[k] = SubSeq(q, 1, Len(q)) /\ Len(q) \in 1..Len(q)
          BY <2>1, <2>4, <4>2
        <5> QED BY <2>4, <3>2, <4>2, <5>1
      <4> QED BY <2>4, <4>1, <4>2
    <3>4. ASSUME NEW k \in 1..Len(m) PROVE HistoryOf(m[k]) = SubSeq(m, 1, k)
      <4>1. CASE k \in 1..Len(h)
        BY <2>2, <2>4, <4>1 DEF CutsAt
      <4>2. CASE k = Len(h) + 1
        <5>1. HistoryOf(q) = m
          BY <3>1 DEF g
        <5> QED BY <2>4, <4>2, <5>1
      <4> QED BY <2>4, <4>1, <4>2
    <3>5. OnThePath(m, q) /\ CutsAt(m)
      BY <3>3, <3>4 DEF OnThePath, CutsAt
    <3>6. HistoryOf(q) = m
      BY <3>1 DEF g
    <3> QED BY <2>1, <3>5, <3>6 DEF q
  <2> QED BY <2>6, <2>7
<1> HIDE DEF D
<1>3. Seq(Entries) \subseteq D
  BY <1>1, <1>2, SequencesInduction DEF Path
<1>4. p \in D
  BY <1>3 DEF Path
<1> QED BY <1>4, HistoryType DEF D

(* What a truncation keeps is the history on the path to the last of it. *)
LEMMA HistoryKept ==
  ASSUME NEW p \in Path, NEW k \in 0..Len(HistoryOf(p))
  PROVE  HistoryOf(LastEntry(SubSeq(HistoryOf(p), 1, k))) = SubSeq(HistoryOf(p), 1, k)
<1> DEFINE h == HistoryOf(p)
<1>1. h \in Seq(Path) /\ CutsAt(h)
  BY HistoryFacts
<1>2. k \in 0..Len(h)
  OBVIOUS
<1> HIDE DEF h
<1>3. CASE k = 0
  <2>1. SubSeq(h, 1, k) = <<>>
    BY <1>1, <1>3
  <2> QED BY <2>1, HistoryOfNothing DEF LastEntry, h
<1>4. CASE k # 0
  <2>1. SubSeq(h, 1, k) # <<>> /\ Last(SubSeq(h, 1, k)) = h[k] /\ k \in 1..Len(h)
    BY <1>1, <1>2, <1>4 DEF Last
  <2>2. HistoryOf(h[k]) = SubSeq(h, 1, k)
    BY <1>1, <2>1 DEF CutsAt
  <2> QED BY <2>1, <2>2 DEF LastEntry, h
<1> QED BY <1>3, <1>4

-----------------------------------------------------------------------------
(* The session store worker *)

(* What became of the worker's queue, its command and its answers. *)
Became(q, j, e) ==
  /\ worker' \in WorkerType
  /\ worker'.queue = q /\ worker'.job = j /\ worker'.events = e
Kept ==
  /\ worker'.commands <= worker.commands /\ worker'.mutations <= worker.mutations
  /\ UNCHANGED spent

Sent(c) ==
  /\ \/ ~worker.alive /\ Became(worker.queue, worker.job, worker.events)
     \/ /\ worker.alive
        /\ Became(Append(worker.queue, c), worker.job, worker.events)
  /\ worker'.commands <= worker.commands + 1 /\ worker'.mutations <= worker.mutations + 1
  /\ SpendCommand

LEMMA JobFacts ==
  ASSUME worker \in WorkerType, worker.job # <<>>
  PROVE  Job \in Jobs /\ Len(worker.job) \in Nat /\ 1 \in 1..Len(worker.job)
<1>1. worker.job \in Seq(Jobs)
  BY DEF WorkerType
<1> QED BY <1>1 DEF Job

LEMMA CommandType ==
  ASSUME NEW kind \in Mutations \cup {"list"}, NEW s \in Sessions \cup {None}, NEW p \in Path
  PROVE  Command(kind, s, p) \in Jobs
<1>1. <<>> \in Seq(Path)
  OBVIOUS
<1> QED BY <1>1 DEF Command, Jobs

LEMMA SendFacts ==
  ASSUME worker \in WorkerType, NEW c \in Jobs, SendCommand(c)
  PROVE  Sent(c)
<1>1. /\ worker.queue \in Seq(Jobs) /\ worker.commands \in Nat /\ worker.mutations \in Nat
      /\ Append(worker.queue, c) \in Seq(Jobs)
  BY DEF WorkerType
<1>2. SpendCommand
  BY DEF SendCommand
<1>3. CASE ~worker.alive
  <2>1. worker' = worker
    BY <1>3 DEF SendCommand
  <2>2. worker'.commands <= worker.commands + 1 /\ worker'.mutations <= worker.mutations + 1
    BY <1>1, <2>1
  <2>3. Became(worker.queue, worker.job, worker.events)
    BY <2>1 DEF Became
  <2> QED BY <1>2, <1>3, <2>2, <2>3 DEF Sent
<1>4. CASE worker.alive
  <2> DEFINE n == worker.commands + 1
             m == IF c.kind \in Mutations THEN worker.mutations + 1 ELSE worker.mutations
             q == Append(worker.queue, c)
  <2>1. n \in Nat /\ m \in Nat /\ m <= worker.mutations + 1 /\ q \in Seq(Jobs)
    BY <1>1
  <2>2. worker' = [worker EXCEPT !.queue = q, !.commands = n, !.mutations = m]
    BY <1>4 DEF SendCommand
  <2> HIDE DEF q, n, m
  <2>3. worker' \in WorkerType /\ worker'.queue = q /\ worker'.job = worker.job
        /\ worker'.events = worker.events /\ worker'.commands = n /\ worker'.mutations = m
    BY <2>1, <2>2 DEF WorkerType
  <2>4. worker'.commands <= worker.commands + 1
    BY <1>1, <2>3 DEF n
  <2> QED BY <1>2, <1>4, <2>1, <2>3, <2>4 DEF Sent, Became, q
<1> QED BY <1>3, <1>4

LEMMA FinishFacts ==
  ASSUME worker \in WorkerType, worker.job # <<>>,
         NEW result \in {"rows", "noop", "restored", "failed"}, NEW history \in Seq(Path),
         Finish(result, history)
  PROVE  /\ Event(result, history) \in Results
         /\ Became(worker.queue, <<>>, Append(worker.events, Event(result, history)))
         /\ worker'.commands = worker.commands /\ worker'.mutations = worker.mutations
         /\ worker'.alive = worker.alive
<1>1. Job \in Jobs
  BY JobFacts
<1>2. Event(result, history) \in Results
  BY <1>1 DEF Event, Results, Jobs
<1> DEFINE v == Event(result, history)  e == Append(worker.events, v)  j == <<>>
<1>3. e \in Seq(Results) /\ j \in Seq(Jobs)
  BY <1>2 DEF WorkerType
<1>4. worker' = [worker EXCEPT !.job = j, !.events = e]
  BY DEF Finish
<1> HIDE DEF e, j
<1>5. /\ worker' \in WorkerType /\ worker'.queue = worker.queue /\ worker'.job = j
      /\ worker'.events = e /\ worker'.alive = worker.alive
      /\ worker'.commands = worker.commands /\ worker'.mutations = worker.mutations
  BY <1>3, <1>4 DEF WorkerType
<1> QED BY <1>2, <1>5 DEF Became, e, j

LEMMA TakeFacts ==
  ASSUME worker \in WorkerType, TakeCommand
  PROVE  /\ worker.job = <<>> /\ worker.queue # <<>>
         /\ Became(Tail(worker.queue), <<Head(worker.queue)>>, worker.events)
         /\ worker'.commands = worker.commands /\ worker'.mutations = worker.mutations
         /\ worker'.alive = worker.alive
<1> DEFINE q == Tail(worker.queue)  j == <<Head(worker.queue)>>
<1>1. worker.job = <<>> /\ worker.queue # <<>> /\ worker.queue \in Seq(Jobs)
  BY DEF TakeCommand, WorkerType
<1>2. q \in Seq(Jobs) /\ j \in Seq(Jobs)
  BY <1>1
<1>3. worker' = [worker EXCEPT !.job = j, !.queue = q]
  BY DEF TakeCommand
<1> HIDE DEF q, j
<1>4. /\ worker' \in WorkerType /\ worker'.queue = q /\ worker'.job = j
      /\ worker'.events = worker.events /\ worker'.alive = worker.alive
      /\ worker'.commands = worker.commands /\ worker'.mutations = worker.mutations
  BY <1>2, <1>3 DEF WorkerType
<1> QED BY <1>1, <1>4 DEF Became, q, j

(* A command whose target is loaded. *)
Ready(path) == [Job EXCEPT !.loaded = TRUE, !.path = path, !.history = HistoryOf(path)]

LEMMA LoadedFacts ==
  ASSUME worker \in WorkerType, worker.job # <<>>, NEW path \in Path,
         Loaded(path)
  PROVE  /\ Ready(path) \in Jobs
         /\ Became(worker.queue, <<Ready(path)>>, worker.events)
         /\ worker'.commands = worker.commands /\ worker'.mutations = worker.mutations
         /\ worker'.alive = worker.alive
<1> DEFINE r == Ready(path)  j == <<r>>
<1>1. Job \in Jobs /\ HistoryOf(path) \in Seq(Path)
  BY JobFacts, HistoryType
<1>2. r \in Jobs
  BY <1>1 DEF Ready, Jobs
<1>3. worker' = [worker EXCEPT !.job = j]
  BY DEF Loaded, Ready
<1> HIDE DEF r
<1>4. j \in Seq(Jobs)
  BY <1>2
<1> HIDE DEF j
<1>5. /\ worker' \in WorkerType /\ worker'.queue = worker.queue /\ worker'.job = j
      /\ worker'.events = worker.events /\ worker'.alive = worker.alive
      /\ worker'.commands = worker.commands /\ worker'.mutations = worker.mutations
  BY <1>3, <1>4 DEF WorkerType
<1> QED BY <1>2, <1>5 DEF Became, r, j

LEMMA DieFacts ==
  ASSUME worker \in WorkerType, WorkerDies
  PROVE  /\ worker.job # <<>> /\ Became(<<>>, <<>>, worker.events)
         /\ worker'.commands = worker.commands /\ worker'.mutations = worker.mutations
<1> DEFINE none == <<>>
<1>1. none \in Seq(Jobs) /\ worker.job # <<>>
  BY DEF WorkerDies
<1>2. worker' = [worker EXCEPT !.alive = FALSE, !.queue = none, !.job = none]
  BY DEF WorkerDies
<1> HIDE DEF none
<1>3. /\ worker' \in WorkerType /\ worker'.queue = none /\ worker'.job = none
      /\ worker'.events = worker.events
      /\ worker'.commands = worker.commands /\ worker'.mutations = worker.mutations
  BY <1>1, <1>2 DEF WorkerType
<1> QED BY <1>1, <1>3 DEF Became, none

LEMMA CountedFacts ==
  ASSUME worker \in WorkerType, worker.events # <<>>, Counted(Head(worker.events))
  PROVE  /\ Became(worker.queue, worker.job, Tail(worker.events))
         /\ worker'.commands <= worker.commands /\ worker'.mutations <= worker.mutations
<1> DEFINE e == Tail(worker.events)  n == Less(worker.commands)
           m == IF IsMutationResult(Head(worker.events)) THEN Less(worker.mutations)
                ELSE worker.mutations
<1>1. worker.commands \in Nat /\ worker.mutations \in Nat /\ worker.events \in Seq(Results)
  BY DEF WorkerType
<1>2. e \in Seq(Results) /\ n \in Nat /\ m \in Nat /\ n <= worker.commands /\ m <= worker.mutations
  BY <1>1 DEF Less
<1>3. worker' = [worker EXCEPT !.events = e, !.commands = n, !.mutations = m]
  BY DEF Counted
<1> HIDE DEF e, n, m
<1>4. /\ worker' \in WorkerType /\ worker'.queue = worker.queue /\ worker'.job = worker.job
      /\ worker'.events = e /\ worker'.commands = n /\ worker'.mutations = m
  BY <1>2, <1>3 DEF WorkerType
<1> QED BY <1>2, <1>4 DEF Became, e

LEMMA StoppedFacts ==
  ASSUME worker \in WorkerType, DrainStopped
  PROVE  /\ Became(worker.queue, worker.job, worker.events)
         /\ worker'.commands <= worker.commands /\ worker'.mutations <= worker.mutations
<1>1. worker.commands \in Nat /\ worker.mutations \in Nat
  BY DEF WorkerType
<1>2. worker' = [worker EXCEPT !.commands = 0, !.mutations = 0]
  BY DEF DrainStopped
<1>3. /\ worker' \in WorkerType /\ worker'.queue = worker.queue /\ worker'.job = worker.job
      /\ worker'.events = worker.events /\ worker'.commands = 0 /\ worker'.mutations = 0
  BY <1>2 DEF WorkerType
<1> QED BY <1>1, <1>3 DEF Became

-----------------------------------------------------------------------------
(* The kinds of steps *)

(* The user gives a command for the session store worker. *)
UserSends(c) ==
  /\ MayCommand /\ SendCommand(c)
  /\ c \in Jobs /\ JobOK(c) /\ ~c.loaded /\ c.kind # "setLeaf"
  /\ c.kind # "list" => active = None
  /\ CommandUnchanged /\ UNCHANGED <<convVars, unsaved>>

(* The worker ends a command without having moved a leaf. *)
Answers(result, history) ==
  /\ worker.job # <<>> /\ Finish(result, history)
  /\ history \in Seq(Path) /\ result \in {"rows", "noop", "restored", "failed"}
  /\ result = "restored" => Job.kind = "resume" /\ history = HistoryOf(leaf[Job.session])
  /\ unsaved' = (unsaved \/ Job.kind = "setLeaf")
  /\ spent' \in [commands : Nat, failures : Nat] /\ spent'.commands = spent.commands
  /\ WorkerUnchanged /\ UNCHANGED storeVars

Sends == \E c \in Jobs : UserSends(c)
Cuts == \E i \in 1..(Len(conv.history) + 1) : TruncateConversation(i)
Submits == \E t \in Turns : SubmitTurn(t)
Prepares == \E t \in Turns : PrepareTurn(t)
AnswersOne == \E result \in {"rows", "noop", "restored", "failed"}, history \in Seq(Path) :
                Answers(result, history)
Writes == \E t \in Turns : WriteEntry(t)
Ends == \E t \in Turns : TurnEnds(t)

StepKind ==
  \/ Sends \/ Cuts \/ Submits \/ Prepares \/ InterruptPreparing \/ Reset
  \/ DrainRestored \/ DrainAnswer \/ DrainStopped \/ DrainObservation \/ DrainTurn
  \/ TakeCommand \/ AnswersOne \/ LoadTarget \/ MoveLeaf \/ WorkerDies \/ ObservationEnds
  \/ Writes \/ Ends \/ UNCHANGED vars

LEMMA UserCommands ==
  ASSUME Types, ConversationIsStored
  PROVE  /\ ListSessions => Sends
         /\ SwitchBranch => Sends
         /\ SelectEntryRewind => Sends
         /\ (\E s \in Sessions : ResumeSession(s)) => Sends
<1>0. <<>> \in Path /\ conv.session \in Sessions \cup {None} /\ None \notin Sessions
      /\ tree \in [Sessions -> SUBSET Path] /\ worker.mutations \in Nat
  BY BoundsAssumption DEF Types, Path, WorkerType, None, Sessions
<1>1. ASSUME ListSessions PROVE Sends
  <2> DEFINE c == Command("list", None, <<>>)
  <2>1. c \in Jobs
    BY <1>0, CommandType
  <2>2. c.kind = "list" /\ c.path = <<>> /\ ~c.loaded
    BY DEF Command
  <2> HIDE DEF c
  <2>3. JobOK(c)
    BY <2>2 DEF JobOK
  <2>4. UserSends(c)
    BY <1>1, <2>1, <2>2, <2>3 DEF UserSends, ListSessions, c
  <2> QED BY <2>1, <2>4 DEF Sends
<1>2. ASSUME SwitchBranch PROVE Sends
  <2>1. conv.session \in Sessions
    BY <1>0, <1>2 DEF SwitchBranch
  <2>2. PICK p \in tree[conv.session] \ {<<>>} : SendCommand(Command("switch", conv.session, p))
    BY <1>2 DEF SwitchBranch
  <2> DEFINE c == Command("switch", conv.session, p)
  <2>3. p \in Path
    BY <1>0, <2>1, <2>2
  <2>4. c \in Jobs
    BY <1>0, <2>3, CommandType DEF Mutations
  <2>5. c.kind = "switch" /\ c.path = p /\ ~c.loaded /\ c.session = conv.session /\ c.history = <<>>
    BY DEF Command
  <2>6. MayCommand /\ SendCommand(c) /\ CommandUnchanged /\ UNCHANGED <<convVars, unsaved>>
        /\ active = None
    BY <1>2, <2>2 DEF SwitchBranch, MutationAllowed
  <2> HIDE DEF c
  <2>7. JobOK(c) /\ tree[c.session] # {}
    BY <1>0, <2>1, <2>2, <2>5 DEF JobOK, Within, Holds
  <2>8. UserSends(c)
    BY <2>4, <2>5, <2>6, <2>7 DEF UserSends
  <2> QED BY <2>4, <2>8 DEF Sends
<1>3. ASSUME SelectEntryRewind PROVE Sends
  <2>1. conv.session \in Sessions
    BY <1>0, <1>3 DEF SelectEntryRewind
  <2>2. PICK p \in {q \in tree[conv.session] : IsItem(q)} :
          SendCommand(Command("rewind", conv.session, p))
    BY <1>3 DEF SelectEntryRewind
  <2> DEFINE c == Command("rewind", conv.session, p)
  <2>3. p \in Path /\ p \in tree[conv.session] /\ IsItem(p)
    BY <1>0, <2>1, <2>2
  <2>4. c \in Jobs
    BY <1>0, <2>3, CommandType DEF Mutations
  <2>5. c.kind = "rewind" /\ c.path = p /\ ~c.loaded /\ c.session = conv.session /\ c.history = <<>>
    BY DEF Command
  <2>6. MayCommand /\ SendCommand(c) /\ CommandUnchanged /\ UNCHANGED <<convVars, unsaved>>
        /\ active = None
    BY <1>3, <2>2 DEF SelectEntryRewind, MutationAllowed
  <2> HIDE DEF c
  <2>7. JobOK(c) /\ tree[c.session] # {}
    BY <1>0, <2>1, <2>3, <2>5 DEF JobOK, Within, Holds
  <2>8. UserSends(c)
    BY <2>4, <2>5, <2>6, <2>7 DEF UserSends
  <2> QED BY <2>4, <2>8 DEF Sends
<1>4. ASSUME NEW s \in Sessions, ResumeSession(s) PROVE Sends
  <2> DEFINE c == Command("resume", s, <<>>)
  <2>4. c \in Jobs
    BY <1>0, CommandType DEF Mutations
  <2>5. c.kind = "resume" /\ c.path = <<>> /\ ~c.loaded /\ c.session = s /\ c.history = <<>>
    BY DEF Command
  <2>6. MayCommand /\ SendCommand(c) /\ CommandUnchanged /\ UNCHANGED <<convVars, unsaved>>
        /\ active = None /\ tree[s] # {}
    BY <1>4 DEF ResumeSession, MutationAllowed
  <2> HIDE DEF c
  <2>7. JobOK(c) /\ tree[c.session] # {}
    BY <1>0, <2>5, <2>6 DEF JobOK, Within, Holds
  <2>8. UserSends(c)
    BY <2>4, <2>5, <2>6, <2>7 DEF UserSends
  <2> QED BY <2>4, <2>8 DEF Sends
<1> QED BY <1>1, <1>2, <1>3, <1>4

LEMMA WorkerAnswers ==
  ASSUME Types, CommandsAreOfTheStore
  PROVE  /\ AnswerList => AnswersOne
         /\ AnswerResume => AnswersOne
         /\ RewindsNothing => AnswersOne
         /\ RowNotFound => AnswersOne
         /\ CommandFails => AnswersOne
<1>0. <<>> \in Seq(Path) /\ unsaved \in BOOLEAN /\ spent \in [commands : Nat, failures : Nat]
      /\ worker \in WorkerType /\ leaf \in [Sessions -> Path]
  BY DEF Types
<1>1. ASSUME AnswerList PROVE AnswersOne
  <2>1. PICK result \in {"rows", "noop"} : Finish(result, <<>>)
    BY <1>1 DEF AnswerList
  <2>2. Answers(result, <<>>)
    BY <1>0, <1>1, <2>1 DEF AnswerList, Answers
  <2> QED BY <1>0, <2>1, <2>2 DEF AnswersOne
<1>2. ASSUME AnswerResume PROVE AnswersOne
  <2> DEFINE h == HistoryOf(leaf[Job.session])
  <2>1. worker.job # <<>> /\ Job.kind = "resume" /\ Finish("restored", h)
        /\ WorkerUnchanged /\ UNCHANGED <<storeVars, spent, unsaved>>
    BY <1>2 DEF AnswerResume
  <2>2. Job.session \in Sessions
    <3>1. Job \in Jobs
      BY <1>0, <2>1, JobFacts
    <3>2. JobOK(Job)
      BY <1>0, <2>1, JobFacts DEF CommandsAreOfTheStore, Job
    <3> QED BY <2>1, <3>1, <3>2 DEF JobOK, Jobs
  <2>3. h \in Seq(Path)
    BY <1>0, <2>2, HistoryType
  <2>4. unsaved' = (unsaved \/ Job.kind = "setLeaf")
    BY <1>0, <2>1
  <2>5. spent' \in [commands : Nat, failures : Nat] /\ spent'.commands = spent.commands
    BY <1>0, <2>1
  <2>6. Answers("restored", h)
    BY <2>1, <2>3, <2>4, <2>5 DEF Answers
  <2> QED BY <2>3, <2>6 DEF AnswersOne
<1>3. ASSUME RewindsNothing PROVE AnswersOne
  <2>2. Answers("noop", <<>>)
    BY <1>0, <1>3 DEF RewindsNothing, Answers
  <2> QED BY <1>0, <2>2 DEF AnswersOne
<1>4. ASSUME RowNotFound PROVE AnswersOne
  <2>2. Answers("failed", <<>>)
    BY <1>0, <1>4 DEF RowNotFound, Answers
  <2> QED BY <1>0, <2>2 DEF AnswersOne
<1>5. ASSUME CommandFails PROVE AnswersOne
  <2>1. spent' \in [commands : Nat, failures : Nat] /\ spent'.commands = spent.commands
    BY <1>0, <1>5 DEF CommandFails
  <2>2. Answers("failed", <<>>)
    BY <1>0, <1>5, <2>1 DEF CommandFails, Answers
  <2> QED BY <1>0, <2>2 DEF AnswersOne
<1> QED BY <1>1, <1>2, <1>3, <1>4, <1>5

LEMMA StepKinds ==
  ASSUME Types, ConversationIsStored, CommandsAreOfTheStore, [Next]_vars
  PROVE  StepKind /\ user' = user
<1>1. CASE UNCHANGED vars
  BY <1>1 DEF StepKind, vars
<1>2. CASE Next
  <2>1. user' = user
    BY <1>2 DEF Next
  <2>2. CASE User
    BY <2>1, <2>2, UserCommands DEF User, StepKind, Cuts, Submits, Prepares
  <2>3. CASE Drain
    BY <2>1, <2>3 DEF Drain, DrainStore, StepKind
  <2>4. CASE StoreWorker
    BY <2>1, <2>4, WorkerAnswers DEF StoreWorker, StepKind
  <2>5. CASE WorkerDies \/ ObservationEnds \/ \E t \in Turns : WriteEntry(t) \/ TurnEnds(t)
    BY <2>1, <2>5 DEF StepKind, Writes, Ends
  <2> QED BY <1>2, <2>2, <2>3, <2>4, <2>5 DEF Next
<1> QED BY <1>1, <1>2
-----------------------------------------------------------------------------
(* Which steps touch which variables *)

ConvTouched == Cuts \/ Reset \/ DrainRestored \/ DrainTurn
EraTouched == Reset \/ DrainRestored
ActiveTouched == Submits \/ DrainObservation \/ Reset \/ DrainRestored \/ DrainTurn
InboxTouched == ActiveTouched \/ Writes \/ Ends
PreparingTouched == Prepares \/ InterruptPreparing \/ Reset \/ DrainObservation
EnvTouched == PreparingTouched \/ ObservationEnds
PhaseTouched == PreparingTouched \/ Submits \/ Ends
BornTouched == Submits \/ DrainObservation
HomeTouched == BornTouched \/ Writes
WorkerTouched ==
  \/ Sends \/ Cuts \/ DrainRestored \/ DrainAnswer \/ DrainStopped
  \/ TakeCommand \/ AnswersOne \/ LoadTarget \/ MoveLeaf \/ WorkerDies
SpentTouched == Sends \/ Cuts \/ Reset \/ AnswersOne
UnsavedTouched == Cuts \/ Reset \/ DrainRestored \/ AnswersOne \/ WorkerDies

Frame ==
  /\ ConvTouched \/ UNCHANGED conv
  /\ EraTouched \/ UNCHANGED era
  /\ ActiveTouched \/ UNCHANGED active
  /\ InboxTouched \/ UNCHANGED inbox
  /\ PreparingTouched \/ UNCHANGED preparing
  /\ EnvTouched \/ UNCHANGED env
  /\ PhaseTouched \/ UNCHANGED phase
  /\ BornTouched \/ UNCHANGED born
  /\ HomeTouched \/ UNCHANGED home
  /\ Writes \/ UNCHANGED <<written, item, tree>>
  /\ MoveLeaf \/ Writes \/ UNCHANGED leaf
  /\ WorkerTouched \/ UNCHANGED worker
  /\ SpentTouched \/ UNCHANGED spent
  /\ UnsavedTouched \/ UNCHANGED unsaved

LEMMA Frames ==
  ASSUME StepKind
  PROVE  Frame
<1> USE DEF Frame, ConvTouched, EraTouched, ActiveTouched, InboxTouched, PreparingTouched, EnvTouched,
            PhaseTouched, BornTouched, HomeTouched, WorkerTouched, SpentTouched, UnsavedTouched,
            convVars, turnVars, storeVars
<1>1. CASE Sends
  BY <1>1 DEF Sends, UserSends, CommandUnchanged
<1>2. CASE Cuts
  BY <1>2 DEF Cuts, TruncateConversation, CommandUnchanged
<1>3. CASE Submits
  BY <1>3 DEF Submits, SubmitTurn, StartTurn
<1>4. CASE Prepares
  BY <1>4 DEF Prepares, PrepareTurn
<1>5. CASE InterruptPreparing
  BY <1>5 DEF InterruptPreparing
<1>6. CASE Reset
  BY <1>6 DEF Reset
<1>7. CASE DrainRestored
  BY <1>7 DEF DrainRestored
<1>8. CASE DrainAnswer
  BY <1>8 DEF DrainAnswer, WorkerUnchanged
<1>9. CASE DrainStopped
  BY <1>9 DEF DrainStopped, WorkerUnchanged
<1>10. CASE DrainObservation
  BY <1>10 DEF DrainObservation, StartTurn
<1>11. CASE DrainTurn
  BY <1>11 DEF DrainTurn
<1>12. CASE TakeCommand
  BY <1>12 DEF TakeCommand, WorkerUnchanged
<1>13. CASE AnswersOne
  BY <1>13 DEF AnswersOne, Answers, WorkerUnchanged
<1>14. CASE LoadTarget
  BY <1>14 DEF LoadTarget, WorkerUnchanged
<1>15. CASE MoveLeaf
  BY <1>15 DEF MoveLeaf, WorkerUnchanged
<1>16. CASE WorkerDies
  BY <1>16 DEF WorkerDies, WorkerUnchanged
<1>17. CASE ObservationEnds
  BY <1>17 DEF ObservationEnds
<1>18. CASE Writes
  BY <1>18 DEF Writes, WriteEntry
<1>19. CASE Ends
  BY <1>19 DEF Ends, TurnEnds
<1>20. CASE UNCHANGED vars
  BY <1>20 DEF vars
<1> QED BY <1>1, <1>2, <1>3, <1>4, <1>5, <1>6, <1>7, <1>8, <1>9, <1>10,
           <1>11, <1>12, <1>13, <1>14, <1>15, <1>16, <1>17, <1>18, <1>19, <1>20 DEF StepKind

-----------------------------------------------------------------------------
(* What a turn, a truncation and an observation do *)

LEMMA EntryFacts ==
  ASSUME NEW t \in Turns, NEW n \in 1..4
  PROVE  /\ Entry(t, n) \in Entries /\ Entry(t, n).turn = t
         /\ Entry(t, n).kind \in Items <=> n \in {1, 3}
         /\ Len(Steps) = 4 /\ t \in Sessions /\ t # None
<1>1. MaxTurns \in Nat
  BY BoundsAssumption
<1>2. Steps[1] = "user" /\ Steps[2] = "userLine" /\ Steps[3] = "answer" /\ Steps[4] = "answerLine"
      /\ Len(Steps) = 4
  BY DEF Steps
<1>3. n = 1 \/ n = 2 \/ n = 3 \/ n = 4
  OBVIOUS
<1>4. Entry(t, n) \in Entries /\ Entry(t, n).turn = t
  BY <1>1 DEF Entry, Entries, Turns, Sessions
<1>5. Entry(t, n).kind = Steps[n]
  BY DEF Entry
<1>6. Steps[n] \in Items <=> n \in {1, 3}
  BY <1>2, <1>3 DEF Items
<1> QED BY <1>1, <1>2, <1>4, <1>5, <1>6 DEF Turns, Sessions, None

(* Turn t wrote the entry of a path in session s. *)
Wrote(t, s, path) ==
  /\ phase[t] = "live" /\ written[t] \in 0..3 /\ s = IF home[t] = None THEN t ELSE home[t]
  /\ s \in Sessions /\ s # None
  /\ path = Append(leaf[s], Entry(t, written[t] + 1))
  /\ path \in Path /\ path # <<>> /\ Last(path) = Entry(t, written[t] + 1) /\ Last(path).turn = t
  /\ IsItem(path) <=> written[t] \in {0, 2}
  /\ leaf' = [leaf EXCEPT ![s] = path]
  /\ tree' = [tree EXCEPT ![s] = @ \cup {<<>>, path}]
  /\ home' = [home EXCEPT ![t] = s]
  /\ written' = [written EXCEPT ![t] = @ + 1]
  /\ \/ IsItem(path) /\ item' = [item EXCEPT ![t] = path] /\ UNCHANGED inbox
     \/ /\ ~IsItem(path) /\ UNCHANGED item
        /\ Told(t, <<[kind |-> "entry", session |-> s, entry |-> item[t]]>>)
  /\ UNCHANGED <<conv, era, active, preparing, env, phase, worker, spent, born, unsaved>>

LEMMA WriteFacts ==
  ASSUME Types, Writes
  PROVE  \E t \in Turns, s \in Sessions, path \in Path : Wrote(t, s, path)
<1>1. PICK t \in Turns : WriteEntry(t)
  BY DEF Writes
<1>2. written \in [Turns -> 0..4] /\ home \in [Turns -> Sessions \cup {None}] /\ leaf \in [Sessions -> Path]
  BY DEF Types
<1> DEFINE s == IF home[t] = None THEN t ELSE home[t]
           e == Entry(t, written[t] + 1)
           path == Append(leaf[s], e)
<1>0. Len(Steps) = 4
  BY DEF Steps
<1>3. phase[t] = "live" /\ written[t] \in 0..3
  BY <1>0, <1>1, <1>2 DEF WriteEntry
<1>4. /\ written[t] + 1 \in 1..4 /\ t \in Sessions /\ t # None
  BY <1>3, EntryFacts
<1>5. e \in Entries /\ e.turn = t /\ (e.kind \in Items <=> written[t] + 1 \in {1, 3})
  BY <1>4, EntryFacts
<1>6. s \in Sessions /\ s # None
  BY <1>2, <1>4
<1>7. leaf[s] \in Path
  BY <1>2, <1>6
<1> HIDE DEF e, s
<1>8. path \in Path /\ path # <<>> /\ Last(path) = e
  BY <1>5, <1>7, PathMore
<1>9. IsItem(path) <=> written[t] \in {0, 2}
  BY <1>3, <1>5, <1>8 DEF IsItem
<1>10. /\ leaf' = [leaf EXCEPT ![s] = path]
       /\ tree' = [tree EXCEPT ![s] = @ \cup {<<>>, path}]
       /\ home' = [home EXCEPT ![t] = s]
       /\ written' = [written EXCEPT ![t] = @ + 1]
       /\ \/ IsItem(path) /\ item' = [item EXCEPT ![t] = path] /\ UNCHANGED inbox
          \/ /\ ~IsItem(path) /\ UNCHANGED item
             /\ Told(t, <<[kind |-> "entry", session |-> s, entry |-> item[t]]>>)
       /\ UNCHANGED <<conv, era, active, preparing, env, phase, worker, spent, born, unsaved>>
  BY <1>1 DEF WriteEntry, e, s, convVars
<1>11. Wrote(t, s, path)
  <2>1. s = IF home[t] = None THEN t ELSE home[t]
    BY DEF s
  <2>2. path = Append(leaf[s], Entry(t, written[t] + 1)) /\ e = Entry(t, written[t] + 1)
    BY DEF e
  <2> HIDE DEF path
  <2> QED BY <1>3, <1>5, <1>6, <1>8, <1>9, <1>10, <2>1, <2>2 DEF Wrote
<1> QED BY <1>6, <1>8, <1>11

(* Turn t is started, at once or with its observation. *)
Begun(t) ==
  /\ active' = t /\ inbox' = <<>> /\ preparing' = None
  /\ phase' = [phase EXCEPT ![t] = "live"]
  /\ home'  = [home EXCEPT ![t] = conv.session]
  /\ born'  = [born EXCEPT ![t] = era]
  /\ UNCHANGED <<conv, era, written, item, tree, leaf, worker, spent, unsaved>>
AtOnce(t) ==
  /\ phase[t] = "new" /\ active = None /\ preparing = None /\ MayCommand /\ UNCHANGED env
  /\ \A u \in 1..(t - 1) : phase[u] # "new"
Awaited(t) ==
  /\ preparing = t /\ phase[t] = "waiting" /\ env.results # <<>> /\ Accepts(Observed)
  /\ env' = [env EXCEPT !.results = Tail(@), !.active = None]
Starts == \E t \in Turns : Begun(t) /\ (AtOnce(t) \/ Awaited(t))

(* An observation nobody waits for is read. *)
Skips ==
  /\ env.results # <<>> /\ ~Accepts(Observed) /\ env' = [env EXCEPT !.results = Tail(@)]
  /\ UNCHANGED <<conv, era, active, inbox, preparing, written, item, phase, home, born, tree, leaf,
                 worker, spent, unsaved>>

LEMMA StartFacts ==
  ASSUME Types, ObservationsAreNumbered
  PROVE  /\ Submits => Starts
         /\ DrainObservation => Starts \/ Skips
<1>1. ASSUME NEW t \in Turns, SubmitTurn(t) PROVE Starts
  BY <1>1 DEF SubmitTurn, SubmitAllowed, StartTurn, Starts, Begun, AtOnce, convVars, storeVars
<1>2. ASSUME DrainObservation, ~Accepts(Observed) PROVE Skips
  BY <1>2 DEF DrainObservation, Skips, convVars, storeVars, turnVars
<1>3. ASSUME DrainObservation, Accepts(Observed) PROVE Starts
  <2>1. env.active # None
    <3>1. env.generation \in Nat
      BY DEF Types, EnvType
    <3> QED BY <1>3, <3>1 DEF Accepts, None
  <2>2. preparing # None /\ phase[preparing] = "waiting" /\ preparing \in Turns
    BY <2>1 DEF ObservationsAreNumbered, Types
  <2>3. Begun(preparing)
    BY <1>3, <2>2 DEF DrainObservation, StartTurn, Begun, convVars, storeVars
  <2>4. Awaited(preparing)
    BY <1>3, <2>2 DEF DrainObservation, Awaited
  <2> QED BY <2>2, <2>3, <2>4 DEF Starts
<1> QED BY <1>1, <1>2, <1>3 DEF Submits

(* The conversation is cut and the leaf it is to have is sent. *)
CutTo(kept, c) ==
  /\ \E n \in 0..Len(conv.history) : kept = SubSeq(conv.history, 1, n)
  /\ kept \in Seq(Path) /\ conv.session \in Sessions /\ MayCommand /\ MutationAllowed
  /\ c = Command("setLeaf", conv.session, LastEntry(kept)) /\ c \in Jobs /\ SendCommand(c)
  /\ conv' = [conv EXCEPT !.history = kept]
  /\ unsaved' = (unsaved \/ ~worker.alive)
  /\ UNCHANGED <<era, active, inbox, preparing, env, written, item, phase, home, born, tree, leaf>>

LEMMA CutFacts ==
  ASSUME Types, Cuts
  PROVE  \E kept \in Seq(Path), c \in Jobs : CutTo(kept, c)
<1>1. PICK i \in 1..(Len(conv.history) + 1) : TruncateConversation(i)
  BY DEF Cuts
<1>2. conv.history \in Seq(Path) /\ conv.session \in Sessions
  BY <1>1 DEF Types, TruncateConversation
<1> DEFINE kept == SubSeq(conv.history, 1, i - 1)  c == Command("setLeaf", conv.session, LastEntry(kept))
<1>3. i - 1 \in 0..Len(conv.history)
  BY <1>2
<1>4. kept \in Seq(Path)
  BY <1>2, <1>3
<1> HIDE DEF kept
<1>5. LastEntry(kept) \in Path
  <2>1. CASE kept = <<>>
    BY <2>1 DEF LastEntry, Path
  <2>2. CASE kept # <<>>
    BY <1>4, <2>2 DEF LastEntry, Last
  <2> QED BY <2>1, <2>2
<1>6. c \in Jobs
  BY <1>2, <1>5, CommandType DEF Mutations
<1>7. /\ MayCommand /\ MutationAllowed /\ SendCommand(c) /\ conv' = [conv EXCEPT !.history = kept]
      /\ unsaved' = (unsaved \/ ~worker.alive)
      /\ UNCHANGED <<era, active, inbox, preparing, env, written, item, phase, home, born, tree, leaf>>
  BY <1>1 DEF TruncateConversation, CommandUnchanged, turnVars, storeVars, kept
<1>8. \E n \in 0..Len(conv.history) : kept = SubSeq(conv.history, 1, n)
  BY <1>3 DEF kept
<1>9. CutTo(kept, c)
  BY <1>2, <1>4, <1>6, <1>7, <1>8 DEF CutTo
<1> QED BY <1>4, <1>6, <1>9

-----------------------------------------------------------------------------
(* Types *)

LEMMA AnswerFacts ==
  ASSUME Types, CommandsAreOfTheStore, DrainRestored
  PROVE  \E e \in Results :
           /\ worker.events # <<>> /\ e = worker.events[1] /\ e.result = "restored" /\ AnswerOK(e)
           /\ e.session \in Sessions /\ e.history \in Seq(Path)
           /\ conv' = [session |-> e.session, history |-> e.history]
           /\ Became(worker.queue, worker.job, Tail(worker.events))
           /\ active' = None /\ inbox' = <<>> /\ era' = era + 1 /\ unsaved' = FALSE
           /\ worker'.commands <= worker.commands /\ worker'.mutations <= worker.mutations
<1> DEFINE e == worker.events[1]
<1>1. worker.events # <<>> /\ worker \in WorkerType /\ worker.events \in Seq(Results)
  BY DEF Types, WorkerType, DrainRestored
<1>2. e \in Results /\ Head(worker.events) = e /\ 1 \in 1..Len(worker.events)
  BY <1>1
<1>3. AnswerOK(e)
  BY <1>2 DEF CommandsAreOfTheStore
<1> HIDE DEF e
<1>4. e.result = "restored" /\ conv' = [session |-> e.session, history |-> e.history]
      /\ active' = None /\ inbox' = <<>> /\ era' = era + 1 /\ unsaved' = FALSE
      /\ Counted(Head(worker.events))
  BY <1>2 DEF DrainRestored, ForgetWorker
<1>5. /\ Became(worker.queue, worker.job, Tail(worker.events))
      /\ worker'.commands <= worker.commands /\ worker'.mutations <= worker.mutations
  BY <1>1, <1>4, CountedFacts
<1>6. e.session \in Sessions /\ e.history \in Seq(Path)
  BY <1>2, <1>3, <1>4 DEF AnswerOK, Results
<1> QED BY <1>1, <1>2, <1>3, <1>4, <1>5, <1>6 DEF e

(* What the conversation hears of its turn. *)
Heard(e) ==
  /\ e \in TurnEvents /\ e = inbox[1] /\ active # None /\ inbox # <<>>
  /\ \/ e.kind = "end" /\ active' = None /\ inbox' = <<>> /\ UNCHANGED conv
     \/ /\ e.kind = "entry" /\ e.session \in Sessions /\ e.entry \in Path
        /\ conv' = [session |-> e.session, history |-> Append(conv.history, e.entry)]
        /\ inbox' = Tail(inbox) /\ UNCHANGED active
  /\ UNCHANGED <<era, preparing, env, written, item, phase, home, born, tree, leaf, worker, spent, unsaved>>

LEMMA HearFacts ==
  ASSUME Types, DrainTurn
  PROVE  \E e \in TurnEvents : Heard(e)
<1> DEFINE e == inbox[1]
<1>1. inbox \in Seq(TurnEvents) /\ inbox # <<>> /\ active # None
  BY DEF Types, DrainTurn
<1>2. e \in TurnEvents /\ Head(inbox) = e
  BY <1>1
<1> HIDE DEF e
<1>3. e.kind = "end" \/ (e.kind = "entry" /\ e.session \in Sessions /\ e.entry \in Path)
  BY <1>2 DEF TurnEvents
<1>4. \/ e.kind = "end" /\ active' = None /\ inbox' = <<>> /\ UNCHANGED conv
      \/ /\ e.kind # "end"
         /\ conv' = [session |-> e.session, history |-> Append(conv.history, e.entry)]
         /\ inbox' = Tail(inbox) /\ UNCHANGED active
  BY <1>2 DEF DrainTurn
<1>5. UNCHANGED <<era, preparing, env, written, item, phase, home, born, tree, leaf, worker, spent, unsaved>>
  BY DEF DrainTurn, turnVars, storeVars
<1>6. Heard(e)
  BY <1>1, <1>2, <1>3, <1>4, <1>5 DEF Heard, e
<1> QED BY <1>2, <1>6

ConvType == [session : Sessions \cup {None}, history : Seq(Path)]

LEMMA ConvTypeStep ==
  ASSUME Types, CommandsAreOfTheStore, ObservationsAreNumbered, Frame
  PROVE  conv' \in ConvType /\ era' \in Nat
<1>0. conv \in ConvType /\ era \in Nat
  BY DEF Types, ConvType
<1>1. CASE Cuts
  <2>1. PICK kept \in Seq(Path), c \in Jobs : CutTo(kept, c)
    BY <1>1, CutFacts
  <2>2. conv' = [conv EXCEPT !.history = kept] /\ era' = era
    BY <2>1 DEF CutTo
  <2> QED BY <1>0, <2>2 DEF ConvType
<1>2. CASE Reset
  <2>1. conv' = Fresh /\ era' = era + 1
    BY <1>2 DEF Reset
  <2> QED BY <1>0, <2>1 DEF ConvType, Fresh
<1>3. CASE DrainRestored
  <2>1. PICK e \in Results : /\ e.session \in Sessions /\ e.history \in Seq(Path) /\ era' = era + 1
                             /\ conv' = [session |-> e.session, history |-> e.history]
    BY <1>3, AnswerFacts
  <2> QED BY <1>0, <2>1 DEF ConvType
<1>4. CASE DrainTurn
  <2>1. PICK e \in TurnEvents : Heard(e)
    BY <1>4, HearFacts
  <2>2. era' = era /\ (conv' = conv
          \/ (e.session \in Sessions /\ e.entry \in Path
              /\ conv' = [session |-> e.session, history |-> Append(conv.history, e.entry)]))
    BY <2>1 DEF Heard
  <2>3. e.entry \in Path => Append(conv.history, e.entry) \in Seq(Path)
    BY <1>0 DEF ConvType
  <2> QED BY <1>0, <2>2, <2>3 DEF ConvType
<1> QED BY <1>0, <1>1, <1>2, <1>3, <1>4 DEF Frame, ConvTouched, EraTouched

LEMMA TurnTypeStep ==
  ASSUME Types, ObservationsAreNumbered, Frame
  PROVE  /\ written' \in [Turns -> 0..4] /\ item' \in [Turns -> Path]
         /\ phase' \in [Turns -> {"new", "waiting", "live", "over"}]
         /\ home' \in [Turns -> Sessions \cup {None}] /\ born' \in [Turns -> Int]
         /\ tree' \in [Sessions -> SUBSET Path] /\ leaf' \in [Sessions -> Path]
<1>0. /\ written \in [Turns -> 0..4] /\ item \in [Turns -> Path]
      /\ phase \in [Turns -> {"new", "waiting", "live", "over"}]
      /\ home \in [Turns -> Sessions \cup {None}] /\ born \in [Turns -> Int]
      /\ tree \in [Sessions -> SUBSET Path] /\ leaf \in [Sessions -> Path]
      /\ conv.session \in Sessions \cup {None} /\ era \in Nat /\ <<>> \in Path
  BY DEF Types, Path
<1>1. CASE Writes
  <2>1. PICK t \in Turns, s \in Sessions, path \in Path : Wrote(t, s, path)
    BY <1>1, WriteFacts
  <2>2. written' \in [Turns -> 0..4]
    BY <1>0, <2>1 DEF Wrote
  <2>3. item' \in [Turns -> Path] /\ UNCHANGED <<phase, born>>
    <3>1. (item' = item \/ item' = [item EXCEPT ![t] = path]) /\ UNCHANGED <<phase, born>>
      BY <2>1 DEF Wrote
    <3> QED BY <1>0, <3>1
  <2>4. home' \in [Turns -> Sessions \cup {None}]
    BY <1>0, <2>1 DEF Wrote
  <2>5. tree' \in [Sessions -> SUBSET Path]
    <3>1. tree' = [tree EXCEPT ![s] = tree[s] \cup {<<>>, path}]
      BY <2>1 DEF Wrote
    <3>2. tree[s] \cup {<<>>, path} \in SUBSET Path
      BY <1>0
    <3> QED BY <1>0, <3>1, <3>2
  <2>6. leaf' \in [Sessions -> Path]
    BY <1>0, <2>1 DEF Wrote
  <2> QED BY <1>0, <2>2, <2>3, <2>4, <2>5, <2>6
<1>2. CASE Starts
  <2>1. PICK t \in Turns : Begun(t)
    BY <1>2 DEF Starts
  <2> QED BY <1>0, <2>1 DEF Begun
<1>3. CASE Prepares
  BY <1>0, <1>3 DEF Prepares, PrepareTurn, storeVars
<1>4. CASE InterruptPreparing \/ Reset
  BY <1>0, <1>4 DEF InterruptPreparing, Reset, Forgotten, storeVars
<1>5. CASE Ends
  BY <1>0, <1>5 DEF Ends, TurnEnds, storeVars
<1>6. CASE MoveLeaf
  <2>1. /\ worker.job # <<>> /\ leaf' = [leaf EXCEPT ![Job.session] = Job.path]
        /\ UNCHANGED <<written, item, phase, home, born, tree>>
    BY <1>6 DEF MoveLeaf, WorkerUnchanged, turnVars
  <2>2. Job \in Jobs
    BY <2>1, JobFacts DEF Types
  <2>3. Job.path \in Path
    BY <2>2 DEF Jobs
  <2> QED BY <1>0, <2>1, <2>3
<1>7. CASE Skips
  BY <1>0, <1>7 DEF Skips
<1> QED BY <1>0, <1>1, <1>2, <1>3, <1>4, <1>5, <1>6, <1>7, StartFacts
        DEF Frame, PhaseTouched, BornTouched, HomeTouched, PreparingTouched

(* Where a command may move the leaf: within the session it names. *)
Aims(path) ==
  /\ worker.job # <<>> /\ Job \in Jobs /\ JobOK(Job) /\ Job.session \in Sessions
  /\ path \in Path /\ Within(path, Job.session)
  /\ Job.kind \in {"switch", "rewind"} /\ ~Job.loaded /\ Loaded(path)

LEMMA TargetFacts ==
  ASSUME Types, TreesGrow, CommandsAreOfTheStore, LoadTarget
  PROVE  \E path \in Path : Aims(path)
<1>0. tree \in [Sessions -> SUBSET Path] /\ worker \in WorkerType
  BY DEF Types
<1>1. PICK path \in Targets : Loaded(path)
  BY DEF LoadTarget
<1>2. worker.job # <<>> /\ Job.kind \in {"switch", "rewind"} /\ ~Job.loaded
  BY DEF LoadTarget
<1>3. Job \in Jobs /\ JobOK(Job)
  BY <1>0, <1>2, JobFacts DEF CommandsAreOfTheStore, Job
<1> DEFINE s == Job.session  p == Job.path
<1>4. s \in Sessions /\ p \in Path /\ Within(p, s)
  BY <1>2, <1>3 DEF JobOK, Jobs
<1>5. tree[s] \subseteq Path /\ Grown(s)
  BY <1>0, <1>4 DEF TreesGrow
<1> HIDE DEF s, p
<1>6. CASE Job.kind = "switch"
  BY <1>1, <1>2, <1>3, <1>4, <1>6 DEF Targets, Aims, s, p
<1>7. CASE Job.kind = "rewind"
  <2>1. IsItem(p)
    BY <1>2, <1>3, <1>7 DEF JobOK, p
  <2>2. path \in RewindTargets(s, p)
    BY <1>1, <1>7 DEF Targets, s, p
  <2>3. p # <<>> /\ p \in tree[s]
    BY <1>4, <2>1 DEF IsItem, Within
  <2>4. CASE Last(p).kind = "user"
    <3>1. path = Front(p)
      BY <2>2, <2>4 DEF RewindTargets
    <3>2. Front(p) = SubSeq(p, 1, Len(p) - 1)
      BY DEF Front
    <3>3. Len(p) \in Nat /\ Len(p) - 1 \in 0..Len(p)
      BY <1>4, <2>3 DEF Path
    <3>4. path \in tree[s]
      BY <1>5, <2>3, <3>1, <3>2, <3>3 DEF Grown
    <3> QED BY <1>1, <1>2, <1>3, <1>4, <1>5, <3>4 DEF Aims, Within, s
  <2>5. CASE Last(p).kind # "user"
    <3>1. path \in tree[s]
      BY <2>2, <2>5 DEF RewindTargets, AfterItem
    <3> QED BY <1>1, <1>2, <1>3, <1>4, <1>5, <3>1 DEF Aims, Within, s
  <2> QED BY <2>4, <2>5
<1> QED BY <1>2, <1>6, <1>7

LEMMA WorkerTypeStep ==
  ASSUME Types, TreesGrow, CommandsAreOfTheStore, Frame
  PROVE  /\ worker' \in WorkerType /\ spent' \in [commands : Nat, failures : Nat]
         /\ unsaved' \in BOOLEAN
<1>0. worker \in WorkerType /\ spent \in [commands : Nat, failures : Nat] /\ unsaved \in BOOLEAN
  BY DEF Types
<1>s. ASSUME SpendCommand PROVE spent' \in [commands : Nat, failures : Nat]
  BY <1>0, <1>s DEF SpendCommand
<1>1. CASE Sends
  <2>1. PICK c \in Jobs : UserSends(c)
    BY <1>1 DEF Sends
  <2>2. SendCommand(c) /\ unsaved' = unsaved
    BY <2>1 DEF UserSends
  <2>3. Sent(c)
    BY <1>0, <2>2, SendFacts
  <2> QED BY <1>0, <1>s, <2>2, <2>3 DEF Sent, Became
<1>2. CASE Cuts
  <2>1. PICK kept \in Seq(Path), c \in Jobs : CutTo(kept, c)
    BY <1>2, CutFacts
  <2>2. SendCommand(c) /\ unsaved' = (unsaved \/ ~worker.alive)
    BY <2>1 DEF CutTo
  <2>3. Sent(c)
    BY <1>0, <2>2, SendFacts
  <2> QED BY <1>0, <1>s, <2>2, <2>3 DEF Sent, Became
<1>3. CASE DrainRestored
  <2>1. unsaved' = FALSE /\ UNCHANGED spent
    BY <1>3 DEF DrainRestored
  <2>2. worker' \in WorkerType
    BY <1>3, AnswerFacts DEF Became
  <2> QED BY <1>0, <2>1, <2>2
<1>4. CASE DrainAnswer
  <2>1. worker.events # <<>> /\ Counted(Head(worker.events)) /\ UNCHANGED <<spent, unsaved>>
    BY <1>4 DEF DrainAnswer
  <2> QED BY <1>0, <2>1, CountedFacts DEF Became
<1>5. CASE DrainStopped
  BY <1>0, <1>5, StoppedFacts DEF Became, DrainStopped
<1>6. CASE TakeCommand
  BY <1>0, <1>6, TakeFacts DEF Became, TakeCommand
<1>7. CASE AnswersOne
  <2>1. PICK result \in {"rows", "noop", "restored", "failed"}, history \in Seq(Path) :
          Answers(result, history)
    BY <1>7 DEF AnswersOne
  <2>2. /\ worker.job # <<>> /\ Finish(result, history)
        /\ unsaved' = (unsaved \/ Job.kind = "setLeaf")
        /\ spent' \in [commands : Nat, failures : Nat]
    BY <2>1 DEF Answers
  <2>3. worker' \in WorkerType
    BY <1>0, <2>2, FinishFacts DEF Became
  <2> QED BY <1>0, <2>2, <2>3
<1>8. CASE LoadTarget
  <2>1. PICK path \in Path : worker.job # <<>> /\ Loaded(path)
    BY <1>8, TargetFacts DEF Aims
  <2> QED BY <1>0, <1>8, <2>1, LoadedFacts DEF Became, LoadTarget
<1>9. CASE MoveLeaf
  <2>1. worker.job # <<>> /\ UNCHANGED <<spent, unsaved>>
    BY <1>9 DEF MoveLeaf
  <2>2. Job \in Jobs
    BY <1>0, <2>1, JobFacts
  <2>3. <<>> \in Seq(Path) /\ Job.history \in Seq(Path)
    BY <2>2 DEF Jobs
  <2>4. Finish("noop", <<>>) \/ Finish("restored", Job.history)
    BY <1>9 DEF MoveLeaf
  <2>5. worker' \in WorkerType
    BY <1>0, <2>1, <2>3, <2>4, FinishFacts DEF Became
  <2> QED BY <1>0, <2>1, <2>5
<1>10. CASE WorkerDies
  BY <1>0, <1>10, DieFacts DEF Became, WorkerDies
<1>11. CASE Reset
  <2>1. SpendCommand /\ unsaved' = FALSE /\ worker' = worker
    BY <1>11 DEF Reset
  <2> QED BY <1>0, <1>s, <2>1
<1> QED BY <1>0, <1>1, <1>2, <1>3, <1>4, <1>5, <1>6, <1>7, <1>8, <1>9, <1>10, <1>11
        DEF Frame, WorkerTouched, SpentTouched, UnsavedTouched

(* The dynamic environment worker. *)
EnvIs(generation, awaited, tasks, results) ==
  /\ env' \in EnvType /\ env'.generation = generation /\ env'.active = awaited
  /\ env'.tasks = tasks /\ env'.results = results

LEMMA EnvMade ==
  ASSUME NEW g \in Nat, NEW a \in Nat \cup {None}, NEW ts \in Seq(Asked), NEW rs \in Seq(Asked),
         NEW e \in EnvType,
         \/ env' = [e EXCEPT !.generation = g, !.active = a, !.tasks = ts] /\ rs = e.results
         \/ env' = [e EXCEPT !.generation = g, !.active = a, !.results = rs] /\ ts = e.tasks
         \/ env' = [e EXCEPT !.results = rs, !.active = a] /\ ts = e.tasks /\ g = e.generation
         \/ env' = [e EXCEPT !.results = rs] /\ ts = e.tasks /\ g = e.generation /\ a = e.active
         \/ env' = [e EXCEPT !.results = rs, !.tasks = ts] /\ g = e.generation /\ a = e.active
  PROVE  EnvIs(g, a, ts, rs)
BY DEF EnvIs, EnvType

PrepareEnv(t) ==
  EnvIs(env.generation + 1, env.generation + 1,
        Append(env.tasks, [generation |-> env.generation + 1, turn |-> t]), env.results)
CancelEnv == EnvIs(env.generation + 1, None, env.tasks, <<>>)
StartEnv == EnvIs(env.generation, None, env.tasks, Tail(env.results)) /\ env.results # <<>>
SkipEnv == EnvIs(env.generation, env.active, env.tasks, Tail(env.results)) /\ env.results # <<>>
EndEnv ==
  /\ EnvIs(env.generation, env.active, Tail(env.tasks), Append(env.results, Head(env.tasks)))
  /\ env.tasks # <<>>

LEMMA EnvFacts ==
  ASSUME Types
  PROVE  /\ \A t \in Turns : PrepareTurn(t) => PrepareEnv(t)
         /\ InterruptPreparing => CancelEnv
         /\ Reset => CancelEnv
         /\ \A t \in Turns : Awaited(t) => StartEnv
         /\ Skips => SkipEnv
         /\ ObservationEnds => EndEnv
<1>0. /\ env \in EnvType /\ env.generation \in Nat /\ env.active \in Nat \cup {None}
      /\ env.tasks \in Seq(Asked) /\ env.results \in Seq(Asked)
  BY DEF Types, EnvType
<1>1. ASSUME NEW t \in Turns, PrepareTurn(t) PROVE PrepareEnv(t)
  <2> DEFINE g == env.generation + 1  ts == Append(env.tasks, [generation |-> g, turn |-> t])
  <2>1. g \in Nat /\ g \in Nat \cup {None}
    BY <1>0
  <2>2. [generation |-> g, turn |-> t] \in Asked
    BY <2>1 DEF Asked
  <2>3. ts \in Seq(Asked)
    BY <1>0, <2>2
  <2>4. env' = [env EXCEPT !.generation = g, !.active = g, !.tasks = ts]
    BY <1>1 DEF PrepareTurn
  <2> HIDE DEF g, ts
  <2>5. EnvIs(g, g, ts, env.results)
    BY <1>0, <2>1, <2>3, <2>4, EnvMade
  <2> QED BY <2>5 DEF PrepareEnv, g, ts
<1>2. ASSUME CancelPending PROVE CancelEnv
  <2> DEFINE g == env.generation + 1  rs == <<>>
  <2>1. g \in Nat /\ rs \in Seq(Asked) /\ None \in Nat \cup {None}
    BY <1>0
  <2>2. env' = [env EXCEPT !.generation = g, !.active = None, !.results = rs]
    BY <1>2 DEF CancelPending
  <2> HIDE DEF g, rs
  <2>3. EnvIs(g, None, env.tasks, rs)
    BY <1>0, <2>1, <2>2, EnvMade
  <2> QED BY <2>3 DEF CancelEnv, g, rs
<1>3. ASSUME NEW t \in Turns, Awaited(t) PROVE StartEnv
  <2> DEFINE rs == Tail(env.results)
  <2>1. rs \in Seq(Asked) /\ None \in Nat \cup {None} /\ env.results # <<>>
    BY <1>0, <1>3 DEF Awaited
  <2>2. env' = [env EXCEPT !.results = rs, !.active = None]
    BY <1>3 DEF Awaited
  <2> HIDE DEF rs
  <2>3. EnvIs(env.generation, None, env.tasks, rs)
    BY <1>0, <2>1, <2>2, EnvMade
  <2> QED BY <2>1, <2>3 DEF StartEnv, rs
<1>4. ASSUME Skips PROVE SkipEnv
  <2> DEFINE rs == Tail(env.results)
  <2>1. rs \in Seq(Asked) /\ env.results # <<>>
    BY <1>0, <1>4 DEF Skips
  <2>2. env' = [env EXCEPT !.results = rs]
    BY <1>4 DEF Skips
  <2> HIDE DEF rs
  <2>3. EnvIs(env.generation, env.active, env.tasks, rs)
    BY <1>0, <2>1, <2>2, EnvMade
  <2> QED BY <2>1, <2>3 DEF SkipEnv, rs
<1>5. ASSUME ObservationEnds PROVE EndEnv
  <2> DEFINE rs == Append(env.results, Head(env.tasks))  ts == Tail(env.tasks)
  <2>1. rs \in Seq(Asked) /\ ts \in Seq(Asked) /\ env.tasks # <<>>
    BY <1>0, <1>5 DEF ObservationEnds
  <2>2. env' = [env EXCEPT !.results = rs, !.tasks = ts]
    BY <1>5 DEF ObservationEnds
  <2> HIDE DEF rs, ts
  <2>3. EnvIs(env.generation, env.active, ts, rs)
    BY <1>0, <2>1, <2>2, EnvMade
  <2> QED BY <2>1, <2>3 DEF EndEnv, rs, ts
<1> QED BY <1>1, <1>2, <1>3, <1>4, <1>5 DEF InterruptPreparing, Reset

LEMMA TurnEventTypes ==
  ASSUME NEW s \in Sessions, NEW p \in Path
  PROVE  /\ [kind |-> "entry", session |-> s, entry |-> p] \in TurnEvents
         /\ [kind |-> "end"] \in TurnEvents
BY DEF TurnEvents

LEMMA InboxTypeStep ==
  ASSUME Types, CommandsAreOfTheStore, ObservationsAreNumbered, Frame
  PROVE  /\ active' \in Turns \cup {None} /\ preparing' \in Turns \cup {None}
         /\ inbox' \in Seq(TurnEvents) /\ env' \in EnvType
<1>0. /\ active \in Turns \cup {None} /\ preparing \in Turns \cup {None}
      /\ inbox \in Seq(TurnEvents) /\ env \in EnvType /\ <<>> \in Seq(TurnEvents)
      /\ item \in [Turns -> Path]
  BY DEF Types
<1>1. CASE Starts
  <2>1. PICK t \in Turns : Begun(t) /\ (AtOnce(t) \/ Awaited(t))
    BY <1>1 DEF Starts
  <2>2. env' \in EnvType
    BY <1>0, <2>1, EnvFacts DEF AtOnce, StartEnv, EnvIs
  <2> QED BY <1>0, <2>1, <2>2 DEF Begun
<1>2. CASE Skips
  <2>1. env' \in EnvType
    BY <1>2, EnvFacts DEF SkipEnv, EnvIs
  <2> QED BY <1>0, <1>2, <2>1 DEF Skips
<1>3. CASE Reset
  <2>1. env' \in EnvType
    BY <1>3, EnvFacts DEF CancelEnv, EnvIs
  <2> QED BY <1>0, <1>3, <2>1 DEF Reset, ForgetWorker
<1>4. CASE InterruptPreparing
  <2>1. env' \in EnvType
    BY <1>4, EnvFacts DEF CancelEnv, EnvIs
  <2> QED BY <1>0, <1>4, <2>1 DEF InterruptPreparing
<1>5. CASE Prepares
  <2>1. PICK t \in Turns : PrepareTurn(t)
    BY <1>5 DEF Prepares
  <2>2. env' \in EnvType
    BY <2>1, EnvFacts DEF PrepareEnv, EnvIs
  <2> QED BY <1>0, <2>1, <2>2 DEF PrepareTurn
<1>6. CASE ObservationEnds
  <2>1. env' \in EnvType
    BY <1>6, EnvFacts DEF EndEnv, EnvIs
  <2> QED BY <1>0, <1>6, <2>1 DEF ObservationEnds
<1>7. CASE DrainRestored
  BY <1>0, <1>7 DEF DrainRestored, ForgetWorker
<1>8. CASE DrainTurn
  <2>1. PICK e \in TurnEvents : Heard(e)
    BY <1>8, HearFacts
  <2>2. inbox # <<>> => Tail(inbox) \in Seq(TurnEvents)
    BY <1>0
  <2> QED BY <1>0, <2>1, <2>2 DEF Heard
<1>9. CASE Writes
  <2>1. PICK t \in Turns, s \in Sessions, path \in Path : Wrote(t, s, path)
    BY <1>9, WriteFacts
  <2> DEFINE e == [kind |-> "entry", session |-> s, entry |-> item[t]]
  <2>2. e \in TurnEvents
    BY <1>0, <2>1, TurnEventTypes
  <2>3. inbox' = inbox \/ Told(t, <<e>>)
    BY <2>1 DEF Wrote
  <2> HIDE DEF e
  <2>4. <<e>> \in Seq(TurnEvents)
    BY <2>2
  <2>5. inbox' \in Seq(TurnEvents)
    BY <1>0, <2>3, <2>4 DEF Told
  <2> QED BY <1>0, <2>1, <2>5 DEF Wrote
<1>10. CASE Ends
  <2>1. PICK t \in Turns : TurnEnds(t)
    BY <1>10 DEF Ends
  <2> DEFINE e == [kind |-> "end"]
  <2>2. e \in TurnEvents
    BY DEF TurnEvents
  <2>3. Told(t, <<e>>) /\ UNCHANGED <<active, preparing, env>>
    BY <2>1 DEF TurnEnds
  <2> HIDE DEF e
  <2>4. <<e>> \in Seq(TurnEvents)
    BY <2>2
  <2>5. inbox' \in Seq(TurnEvents)
    BY <1>0, <2>3, <2>4 DEF Told
  <2> QED BY <1>0, <2>3, <2>5
<1> QED BY <1>0, <1>1, <1>2, <1>3, <1>4, <1>5, <1>6, <1>7, <1>8, <1>9, <1>10, StartFacts
        DEF Frame, ActiveTouched, InboxTouched, PreparingTouched, EnvTouched

LEMMA TypesStep ==
  ASSUME Types, TreesGrow, CommandsAreOfTheStore, ObservationsAreNumbered, Frame
  PROVE  Types'
BY ConvTypeStep, TurnTypeStep, WorkerTypeStep, InboxTypeStep DEF Types, ConvType

-----------------------------------------------------------------------------
(* The store: trees only grow, and what was in them still is. *)

LEMMA TreesOnlyGrow ==
  ASSUME Types, Frame
  PROVE  \A s \in Sessions : tree[s] \subseteq tree'[s]
<1>0. tree \in [Sessions -> SUBSET Path]
  BY DEF Types
<1>1. CASE Writes
  <2>1. PICK t \in Turns, s \in Sessions, path \in Path : Wrote(t, s, path)
    BY <1>1, WriteFacts
  <2>2. tree' = [tree EXCEPT ![s] = tree[s] \cup {<<>>, path}]
    BY <2>1 DEF Wrote
  <2> QED BY <1>0, <2>2
<1> QED BY <1>1 DEF Frame

LEMMA StillHeld ==
  ASSUME Types, Frame, NEW s \in Sessions
  PROVE  /\ \A p : Within(p, s) => Within(p, s)'
         /\ \A h : Holds(h, s) => Holds(h, s)'
         /\ tree[s] # {} => tree'[s] # {}
<1>1. tree[s] \subseteq tree'[s]
  BY TreesOnlyGrow
<1> QED BY <1>1 DEF Within, Holds

LEMMA StillOK ==
  ASSUME Types, Frame
  PROVE  /\ \A c \in Jobs : JobOK(c) => JobOK(c)'
         /\ \A e \in Results : AnswerOK(e) => AnswerOK(e)'
<1>1. ASSUME NEW c \in Jobs, JobOK(c) PROVE JobOK(c)'
  <2>1. c.session # None => c.session \in Sessions
    BY DEF Jobs
  <2> QED BY <1>1, <2>1, StillHeld DEF JobOK
<1>2. ASSUME NEW e \in Results, AnswerOK(e) PROVE AnswerOK(e)'
  <2>1. e.session # None => e.session \in Sessions
    BY DEF Results
  <2> QED BY <1>2, <2>1, StillHeld DEF AnswerOK
<1> QED BY <1>1, <1>2

(* The leaf goes where the command says, or to the entry a turn wrote. *)
Moved ==
  /\ worker.job # <<>> /\ Job \in Jobs /\ JobOK(Job)
  /\ Job.kind # "list" /\ Job.session \in Sessions /\ tree[Job.session] # {}
  /\ Job.path \in Path /\ Job.history \in Seq(Path)
  /\ Within(Job.path, Job.session) /\ Holds(Job.history, Job.session)
  /\ leaf' = [leaf EXCEPT ![Job.session] = Job.path]
  /\ \/ Job.kind = "setLeaf" /\ Finish("noop", <<>>)
     \/ Job.kind # "setLeaf" /\ Job.loaded /\ Finish("restored", Job.history)

LEMMA MoveFacts ==
  ASSUME Types, CommandsAreOfTheStore, MoveLeaf
  PROVE  Moved
<1>1. /\ worker.job # <<>> /\ (Job.kind = "setLeaf" \/ Job.loaded)
      /\ leaf' = [leaf EXCEPT ![Job.session] = Job.path]
      /\ IF Job.kind = "setLeaf" THEN Finish("noop", <<>>) ELSE Finish("restored", Job.history)
  BY DEF MoveLeaf
<1>2. Job \in Jobs /\ JobOK(Job)
  BY <1>1, JobFacts DEF CommandsAreOfTheStore, Job, Types
<1>3. Job.kind # "list"
  BY <1>1, <1>2 DEF JobOK
<1>4. Job.session \in Sessions /\ Job.path \in Path /\ Job.history \in Seq(Path)
      /\ tree[Job.session] # {}
      /\ Within(Job.path, Job.session) /\ Holds(Job.history, Job.session)
  BY <1>2, <1>3 DEF JobOK, Jobs
<1> QED BY <1>1, <1>2, <1>3, <1>4 DEF Moved

LEMMA TreesGrowStep ==
  ASSUME Types, TreesGrow, CommandsAreOfTheStore, Frame
  PROVE  TreesGrow'
<1>0. tree \in [Sessions -> SUBSET Path] /\ leaf \in [Sessions -> Path]
  BY DEF Types
<1>1. CASE Writes
  <2>1. PICK t \in Turns, s \in Sessions, path \in Path : Wrote(t, s, path)
    BY <1>1, WriteFacts
  <2> DEFINE e == Entry(t, written[t] + 1)  old == leaf[s]
  <2>2. written[t] \in 0..3 /\ path = Append(old, e)
    BY <2>1 DEF Wrote
  <2>3. written[t] + 1 \in 1..4
    BY <2>2
  <2>4. old \in Path /\ e \in Entries
    BY <1>0, <2>3, EntryFacts
  <2>5. /\ leaf' = [leaf EXCEPT ![s] = path]
        /\ tree' = [tree EXCEPT ![s] = tree[s] \cup {<<>>, path}]
    BY <2>1 DEF Wrote
  <2>6. Grown(s) /\ Within(old, s)
    BY DEF TreesGrow
  <2> HIDE DEF e, old
  <2>7. /\ Len(old) \in Nat /\ Len(path) = Len(old) + 1
        /\ \A i \in 0..Len(old) : SubSeq(path, 1, i) = SubSeq(old, 1, i)
        /\ SubSeq(path, 1, Len(old) + 1) = path
    BY <2>2, <2>4, PathMore
  <2>8. tree'[s] = tree[s] \cup {<<>>, path} /\ leaf'[s] = path
    BY <1>0, <2>5
  <2>9. ASSUME NEW p \in tree'[s], NEW i \in 0..Len(p) PROVE SubSeq(p, 1, i) \in tree'[s]
    <3>1. CASE p \in tree[s]
      BY <2>6, <2>8, <3>1 DEF Grown
    <3>2. CASE p = <<>>
      <4>1. SubSeq(p, 1, i) = <<>>
        BY <3>2
      <4> QED BY <2>8, <4>1
    <3>3. CASE p = path
      <4>1. CASE i = Len(old) + 1
        BY <2>7, <2>8, <3>3, <4>1
      <4>2. CASE i \in 0..Len(old)
        <5>1. SubSeq(p, 1, i) = SubSeq(old, 1, i)
          BY <2>7, <3>3, <4>2
        <5>2. CASE old = <<>>
          <6>1. SubSeq(old, 1, i) = <<>>
            BY <4>2, <5>2
          <6> QED BY <2>8, <5>1, <6>1
        <5>3. CASE old \in tree[s]
          BY <2>6, <2>8, <4>2, <5>1, <5>3 DEF Grown
        <5> QED BY <2>6, <5>2, <5>3 DEF Within
      <4> QED BY <2>7, <3>3, <4>1, <4>2
    <3> QED BY <2>8, <3>1, <3>2, <3>3
  <2>10. Grown(s)' /\ Within(leaf[s], s)'
    BY <2>8, <2>9 DEF Grown, Within
  <2>11. ASSUME NEW r \in Sessions, r # s PROVE Grown(r)' /\ Within(leaf[r], r)'
    <3>1. tree'[r] = tree[r] /\ leaf'[r] = leaf[r]
      BY <1>0, <2>5, <2>11
    <3> QED BY <3>1 DEF TreesGrow, Grown, Within
  <2> QED BY <2>10, <2>11 DEF TreesGrow
<1>2. CASE MoveLeaf /\ ~Writes
  <2>1. tree' = tree
    BY <1>2 DEF Frame
  <2>2. Moved
    BY <1>2, MoveFacts
  <2>3. Job.session \in Sessions /\ leaf' = [leaf EXCEPT ![Job.session] = Job.path]
        /\ Within(Job.path, Job.session)
    BY <2>2 DEF Moved
  <2>4. \A r \in Sessions : leaf'[r] = leaf[r] \/ (r = Job.session /\ leaf'[r] = Job.path)
    BY <1>0, <2>3
  <2> QED BY <2>1, <2>3, <2>4 DEF TreesGrow, Grown, Within
<1>3. CASE UNCHANGED <<tree, leaf>>
  BY <1>3 DEF TreesGrow, Grown, Within
<1> QED BY <1>1, <1>2, <1>3 DEF Frame

LEMMA HistoryHolds ==
  ASSUME Types, TreesGrow, NEW s \in Sessions, NEW p \in Path, Within(p, s)
  PROVE  Holds(HistoryOf(p), s)
<1> DEFINE h == HistoryOf(p)
<1>1. OnThePath(h, p)
  BY HistoryFacts
<1> HIDE DEF h
<1>2. Grown(s)
  BY DEF TreesGrow
<1>3. ASSUME NEW k \in 1..Len(h) PROVE h[k] \in tree[s]
  <2>1. PICK i \in 1..Len(p) : h[k] = SubSeq(p, 1, i)
    BY <1>1 DEF OnThePath
  <2>2. p # <<>> /\ i \in 0..Len(p)
    BY <2>1 DEF Path
  <2> QED BY <1>2, <2>1, <2>2 DEF Within, Grown
<1> QED BY <1>3 DEF Holds, h

LEMMA ConversationStep ==
  ASSUME Types, ConversationIsStored, InboxIsOfTheTurn, CommandsAreOfTheStore, Frame
  PROVE  ConversationIsStored'
<1>0. conv \in ConvType /\ conv.history \in Seq(Path) /\ conv.session \in Sessions \cup {None}
      /\ None \notin Sessions
  BY DEF Types, ConvType, None, Sessions
<1>1. CASE Cuts
  <2>1. PICK kept \in Seq(Path), c \in Jobs : CutTo(kept, c)
    BY <1>1, CutFacts
  <2>2. PICK n \in 0..Len(conv.history) : kept = SubSeq(conv.history, 1, n)
    BY <2>1 DEF CutTo
  <2>3. conv.session \in Sessions /\ conv' = [conv EXCEPT !.history = kept] /\ tree' = tree
    BY <2>1 DEF CutTo
  <2>4. Holds(conv.history, conv.session)
    BY <1>0, <2>3 DEF ConversationIsStored
  <2>5. \A k \in 1..Len(kept) : k \in 1..Len(conv.history) /\ kept[k] = conv.history[k]
    BY <1>0, <2>2
  <2>6. Holds(kept, conv.session)'
    BY <2>3, <2>4, <2>5, <1>0 DEF Holds, ConvType
  <2>7. conv'.session = conv.session /\ conv'.history = kept
    BY <1>0, <2>3 DEF ConvType
  <2> QED BY <1>0, <2>3, <2>6, <2>7 DEF ConversationIsStored, Holds
<1>2. CASE Reset
  BY <1>2 DEF Reset, Fresh, ConversationIsStored
<1>3. CASE DrainRestored
  <2>1. PICK e \in Results : /\ AnswerOK(e) /\ e.result = "restored" /\ e.session \in Sessions
                             /\ conv' = [session |-> e.session, history |-> e.history]
    BY <1>3, AnswerFacts
  <2>2. tree[e.session] # {} /\ Holds(e.history, e.session) /\ tree' = tree
    BY <1>3, <2>1 DEF AnswerOK, DrainRestored, storeVars
  <2>3. conv'.session = e.session /\ conv'.history = e.history
    BY <2>1
  <2> QED BY <1>0, <2>1, <2>2, <2>3 DEF ConversationIsStored, Holds
<1>4. CASE DrainTurn
  <2>1. PICK e \in TurnEvents : Heard(e)
    BY <1>4, HearFacts
  <2>2. CASE UNCHANGED conv
    BY <2>1, <2>2 DEF ConversationIsStored, Holds, Heard
  <2>3. CASE ~UNCHANGED conv
    <3>1. /\ e.kind = "entry" /\ e.session \in Sessions /\ e.entry \in Path
          /\ conv' = [session |-> e.session, history |-> Append(conv.history, e.entry)]
          /\ tree' = tree /\ e = inbox[1] /\ active # None /\ inbox # <<>>
      BY <2>1, <2>3 DEF Heard
    <3>2. 1 \in 1..Len(inbox)
      BY <3>1 DEF Types
    <3>3. Report(e, active) /\ conv.session \in {home[active], None}
      BY <3>1, <3>2 DEF InboxIsOfTheTurn
    <3>4. e.entry \in tree[e.session] /\ conv.session \in {e.session, None}
      BY <3>1, <3>3 DEF Report
    <3>5. Holds(conv.history, e.session)
      BY <3>4 DEF ConversationIsStored, Holds
    <3> DEFINE h == Append(conv.history, e.entry)
    <3>6. Len(h) = Len(conv.history) + 1 /\ h[Len(h)] = e.entry
          /\ \A k \in 1..Len(conv.history) : h[k] = conv.history[k]
      BY <1>0, <3>1
    <3>7. Len(conv.history) \in Nat
      BY <1>0
    <3>8. conv'.session = e.session /\ conv'.history = h
      BY <3>1
    <3> HIDE DEF h
    <3>9. Holds(h, e.session)
      BY <3>4, <3>5, <3>6, <3>7 DEF Holds
    <3> QED BY <1>0, <3>1, <3>8, <3>9 DEF ConversationIsStored, Holds
  <2> QED BY <2>2, <2>3
<1>5. CASE UNCHANGED conv
  <2>1. CASE conv.session = None
    BY <1>5, <2>1 DEF ConversationIsStored
  <2>2. CASE conv.session \in Sessions
    BY <1>0, <1>5, <2>2, StillHeld DEF ConversationIsStored
  <2> QED BY <1>0, <2>1, <2>2
<1> QED BY <1>1, <1>2, <1>3, <1>4, <1>5 DEF Frame, ConvTouched

-----------------------------------------------------------------------------
(* Turns *)

(* What a turn has written, in its session. *)
Author(t) ==
  IF written[t] = 0 THEN item[t] = <<>>
  ELSE home[t] # None /\ item[t] # <<>> /\ item[t] \in tree[home[t]] /\ Last(item[t]).turn = t

LEMMA StillAuthor ==
  ASSUME Types, Frame, NEW t \in Turns, Author(t), UNCHANGED <<written, item>>, home'[t] = home[t]
  PROVE  Author(t)'
<1>1. home[t] \in Sessions \cup {None}
  BY DEF Types
<1> QED BY <1>1, TreesOnlyGrow DEF Author

LEMMA TurnsWriteStep ==
  ASSUME Types, TurnsWrite, ObservationsAreNumbered, Frame
  PROVE  TurnsWrite'
<1>0. /\ written \in [Turns -> 0..4] /\ item \in [Turns -> Path]
      /\ phase \in [Turns -> {"new", "waiting", "live", "over"}]
      /\ home \in [Turns -> Sessions \cup {None}] /\ tree \in [Sessions -> SUBSET Path]
  BY DEF Types
<1>1. /\ \A t \in Turns : phase[t] \in {"new", "waiting"} => written[t] = 0
      /\ \A t \in Turns : Author(t)
  BY DEF TurnsWrite, Author
<1>2. SUFFICES /\ \A t \in Turns : phase'[t] \in {"new", "waiting"} => written'[t] = 0
               /\ \A t \in Turns : Author(t)'
  BY DEF TurnsWrite, Author
<1>3. CASE Writes
  <2>1. PICK t \in Turns, s \in Sessions, path \in Path : Wrote(t, s, path)
    BY <1>3, WriteFacts
  <2>2. /\ phase' = phase /\ phase[t] = "live" /\ s # None
        /\ written' = [written EXCEPT ![t] = @ + 1]
        /\ home' = [home EXCEPT ![t] = s]
        /\ item' = item \/ item' = [item EXCEPT ![t] = path]
    BY <2>1 DEF Wrote
  <2>3. ASSUME NEW u \in Turns, u # t PROVE Author(u)' /\ written'[u] = written[u]
    <3>1. written'[u] = written[u] /\ home'[u] = home[u] /\ item'[u] = item[u]
      BY <1>0, <2>2, <2>3
    <3>2. home[u] # None => tree[home[u]] \subseteq tree'[home[u]]
      BY <1>0, TreesOnlyGrow
    <3> QED BY <1>1, <3>1, <3>2 DEF Author
  <2>4. Author(t)'
    <3>1. written'[t] = written[t] + 1 /\ home'[t] = s /\ written[t] \in 0..4
      BY <1>0, <2>2
    <3>2. CASE IsItem(path)
      <4>1. item' = [item EXCEPT ![t] = path] /\ tree' = [tree EXCEPT ![s] = @ \cup {<<>>, path}]
            /\ path # <<>> /\ Last(path).turn = t
        BY <2>1, <3>2 DEF Wrote
      <4>2. item'[t] = path /\ path \in tree'[s]
        BY <1>0, <4>1
      <4> QED BY <2>2, <3>1, <4>1, <4>2 DEF Author
    <3>3. CASE ~IsItem(path)
      <4>1. item' = item /\ written[t] \notin {0, 2} /\ s = IF home[t] = None THEN t ELSE home[t]
        BY <2>1, <3>3 DEF Wrote
      <4>2. home[t] = s /\ item[t] # <<>> /\ item[t] \in tree[s] /\ Last(item[t]).turn = t
        BY <1>1, <4>1 DEF Author
      <4> QED BY <2>2, <3>1, <4>1, <4>2, TreesOnlyGrow DEF Author
    <3> QED BY <3>2, <3>3
  <2>5. \A u \in Turns : phase'[u] \in {"new", "waiting"} => written'[u] = 0
    BY <1>1, <2>2, <2>3
  <2> QED BY <2>3, <2>4, <2>5
<1>4. CASE Starts
  <2>1. PICK t \in Turns : Begun(t) /\ (AtOnce(t) \/ Awaited(t))
    BY <1>4 DEF Starts
  <2>2. /\ phase' = [phase EXCEPT ![t] = "live"] /\ home' = [home EXCEPT ![t] = conv.session]
        /\ UNCHANGED <<written, item>> /\ phase[t] \in {"new", "waiting"}
    BY <2>1 DEF Begun, AtOnce, Awaited
  <2>3. written[t] = 0
    BY <1>1, <2>2
  <2>4. Author(t)'
    BY <1>1, <2>2, <2>3 DEF Author
  <2>5. \A u \in Turns : u # t => Author(u)'
    BY <1>0, <1>1, <2>2, StillAuthor
  <2>6. \A u \in Turns : phase'[u] \in {"new", "waiting"} => written'[u] = 0
    BY <1>0, <1>1, <2>2
  <2> QED BY <2>4, <2>5, <2>6
<1>5. CASE UNCHANGED <<written, item, home>>
  <2>1. \A t \in Turns : Author(t)'
    BY <1>1, <1>5, StillAuthor
  <2>2. CASE Prepares
    BY <1>0, <1>1, <1>5, <2>1, <2>2 DEF Prepares, PrepareTurn, SubmitAllowed
  <2>3. CASE InterruptPreparing \/ Reset
    BY <1>0, <1>1, <1>5, <2>1, <2>3 DEF InterruptPreparing, Reset, Forgotten
  <2>4. CASE Ends
    BY <1>0, <1>1, <1>5, <2>1, <2>4 DEF Ends, TurnEnds
  <2>5. CASE UNCHANGED phase
    BY <1>1, <1>5, <2>1, <2>5
  <2>6. CASE DrainObservation \/ Submits
    <3>1. CASE Skips
      BY <1>1, <1>5, <2>1, <3>1 DEF Skips
    <3> QED BY <1>4, <2>6, <3>1, StartFacts
  <2> QED BY <2>2, <2>3, <2>4, <2>5, <2>6 DEF Frame, PhaseTouched, PreparingTouched
<1>6. CASE Submits \/ DrainObservation
  <2>1. CASE Skips
    BY <1>5, <2>1 DEF Skips
  <2> QED BY <1>4, <1>6, <2>1, StartFacts
<1> QED BY <1>3, <1>5, <1>6 DEF Frame, HomeTouched, BornTouched

ReportNext(e, t) ==
  e.kind = "entry" => /\ e.session = home'[t] /\ e.entry \in tree'[home'[t]]
                      /\ e.entry # <<>> /\ Last(e.entry).turn = t

(* What a turn reported stays true. *)
LEMMA StillReported ==
  ASSUME Types, Frame, NEW e \in TurnEvents, NEW t \in Turns, Report(e, t),
         home'[t] = home[t] \/ home[t] = None
  PROVE  ReportNext(e, t)
<1>1. e.kind = "entry" => e.session \in Sessions
  BY DEF TurnEvents
<1>2. None \notin Sessions
  BY DEF None, Sessions
<1> QED BY <1>1, <1>2, TreesOnlyGrow DEF Report, ReportNext

(* What the active turn adds to the inbox. *)
LEMMA MoreReported ==
  ASSUME NEW t \in Turns, inbox \in Seq(TurnEvents), NEW e \in TurnEvents,
         \A k \in 1..Len(inbox) : ReportNext(inbox[k], t), ReportNext(e, t),
         inbox' = inbox \o <<e>>
  PROVE  \A k \in 1..Len(inbox') : ReportNext(inbox'[k], t)
<1> DEFINE i == inbox \o <<e>>
<1>1. /\ Len(inbox) \in Nat /\ Len(i) = Len(inbox) + 1 /\ i[Len(inbox) + 1] = e
      /\ \A k \in 1..Len(inbox) : i[k] = inbox[k]
  OBVIOUS
<1> HIDE DEF i
<1>2. inbox' = i
  BY DEF i
<1> QED BY <1>1, <1>2 DEF Report, ReportNext

LEMMA InboxStep ==
  ASSUME Types, TurnsWrite, InboxIsOfTheTurn, CommandsAreOfTheStore, ObservationsAreNumbered, Frame
  PROVE  InboxIsOfTheTurn'
<1>0. /\ active \in Turns \cup {None} /\ inbox \in Seq(TurnEvents) /\ None \notin Turns
      /\ item \in [Turns -> Path] /\ written \in [Turns -> 0..4]
      /\ home \in [Turns -> Sessions \cup {None}] /\ born \in [Turns -> Int]
      /\ conv \in ConvType
  BY DEF Types, None, Turns, ConvType
<1>1. active # None => active \in Turns /\ \A k \in 1..Len(inbox) : inbox[k] \in TurnEvents
  BY <1>0
<1>2. CASE Starts
  <2>1. PICK t \in Turns : Begun(t)
    BY <1>2 DEF Starts
  <2>2. /\ active' = t /\ inbox' = <<>> /\ born'[t] = era' /\ home'[t] = conv.session /\ conv' = conv
    BY <1>0, <2>1 DEF Begun
  <2> QED BY <1>0, <2>2 DEF InboxIsOfTheTurn, Report, ReportNext
<1>3. CASE Reset \/ DrainRestored
  <2>1. active' = None /\ inbox' = <<>>
    BY <1>3 DEF Reset, DrainRestored, ForgetWorker
  <2> QED BY <2>1 DEF InboxIsOfTheTurn, Report, ReportNext
<1>4. CASE DrainTurn
  <2>1. PICK e \in TurnEvents : Heard(e)
    BY <1>4, HearFacts
  <2>2. CASE active' = None
    BY <2>1, <2>2 DEF Heard, InboxIsOfTheTurn
  <2>3. CASE active' # None
    <3>1. /\ e.kind = "entry" /\ e = inbox[1] /\ active # None /\ inbox # <<>>
          /\ conv'.session = e.session /\ inbox' = Tail(inbox)
          /\ UNCHANGED <<active, born, home, era, tree>>
      BY <2>1, <2>3 DEF Heard
    <3>2. 1 \in 1..Len(inbox)
      BY <1>0, <3>1
    <3>3. e.session = home[active]
      BY <3>1, <3>2 DEF InboxIsOfTheTurn, Report, ReportNext
    <3>4. \A k \in 1..Len(Tail(inbox)) : k + 1 \in 1..Len(inbox) /\ Tail(inbox)[k] = inbox[k + 1]
      BY <1>0, <3>1
    <3>5. \A k \in 1..Len(inbox') : ReportNext(inbox'[k], active)
      BY <3>1, <3>4 DEF InboxIsOfTheTurn, Report, ReportNext
    <3> QED BY <3>1, <3>3, <3>5 DEF InboxIsOfTheTurn, Report, ReportNext
  <2> QED BY <2>2, <2>3
<1>5. CASE Writes
  <2>1. PICK t \in Turns, s \in Sessions, path \in Path : Wrote(t, s, path)
    BY <1>5, WriteFacts
  <2>2. /\ s = (IF home[t] = None THEN t ELSE home[t])
        /\ home' = [home EXCEPT ![t] = s] /\ UNCHANGED <<active, born, conv, era>>
    BY <2>1 DEF Wrote
  <2>3. CASE active # t
    <3>1. inbox' = inbox
      BY <2>1, <2>3 DEF Wrote, Told
    <3>2. CASE active = None
      BY <2>2, <3>1, <3>2 DEF InboxIsOfTheTurn, Report, ReportNext
    <3>3. CASE active # None
      <4>1. home'[active] = home[active]
        BY <1>0, <1>1, <2>2, <2>3, <3>3
      <4>2. \A k \in 1..Len(inbox) : Report(inbox[k], active)
        BY <3>3 DEF InboxIsOfTheTurn, Report, ReportNext
      <4> HIDE DEF Report, ReportNext
      <4>3. \A k \in 1..Len(inbox) : ReportNext(inbox[k], active)
        BY <1>1, <3>3, <4>1, <4>2, <3>1, <2>2, StillReported
      <4> QED BY <2>2, <3>1, <3>3, <4>1, <4>3 DEF InboxIsOfTheTurn, Report, ReportNext
    <3> QED BY <3>2, <3>3
  <2>4. CASE active = t
    <3>1. active # None /\ born[t] = era /\ conv.session \in {home[t], None}
          /\ \A k \in 1..Len(inbox) : Report(inbox[k], t)
      BY <1>0, <2>4 DEF InboxIsOfTheTurn, Report, ReportNext
    <3>2. home'[t] = s /\ (home'[t] = home[t] \/ home[t] = None)
      BY <1>0, <2>2
    <3>3. \A k \in 1..Len(inbox) : ReportNext(inbox[k], t)
      BY <1>0, <3>1, <3>2, StillReported
    <3>4. CASE inbox' = inbox
      BY <2>2, <2>4, <3>1, <3>2, <3>3, <3>4 DEF InboxIsOfTheTurn, Report, ReportNext
    <3>5. CASE inbox' # inbox
      <4> DEFINE e == [kind |-> "entry", session |-> s, entry |-> item[t]]
      <4>1. inbox' = inbox \o <<e>> /\ written[t] \notin {0, 2}
        BY <2>1, <2>4, <3>5 DEF Wrote, Told
      <4>2. e \in TurnEvents
        BY <1>0, TurnEventTypes
      <4>3. home[t] # None /\ item[t] # <<>> /\ item[t] \in tree[home[t]] /\ Last(item[t]).turn = t
        BY <4>1 DEF TurnsWrite
      <4>4. home[t] = s /\ item[t] \in tree'[s]
        BY <2>2, <4>3, TreesOnlyGrow
      <4>5. ReportNext(e, t)
        BY <3>2, <4>3, <4>4 DEF Report, ReportNext
      <4> HIDE DEF e
      <4>6. \A k \in 1..Len(inbox') : ReportNext(inbox'[k], t)
        BY <1>0, <3>3, <4>1, <4>2, <4>5, MoreReported
      <4> QED BY <2>2, <2>4, <3>1, <3>2, <4>6 DEF InboxIsOfTheTurn, Report, ReportNext
    <3> QED BY <3>4, <3>5
  <2> QED BY <2>3, <2>4
<1>6. CASE Ends
  <2>1. PICK t \in Turns : TurnEnds(t)
    BY <1>6 DEF Ends
  <2> DEFINE e == [kind |-> "end"]
  <2>2. UNCHANGED <<active, born, home, conv, era, tree>> /\ Told(t, <<e>>)
    BY <2>1 DEF TurnEnds, convVars, storeVars
  <2>3. CASE active # t
    BY <2>2, <2>3 DEF Told, InboxIsOfTheTurn, Report
  <2>4. CASE active = t
    <3>1. active # None /\ born[t] = era /\ conv.session \in {home[t], None}
          /\ \A k \in 1..Len(inbox) : Report(inbox[k], t)
      BY <1>0, <2>4 DEF InboxIsOfTheTurn, Report, ReportNext
    <3>2. \A k \in 1..Len(inbox) : ReportNext(inbox[k], t)
      BY <2>2, <3>1 DEF Report, ReportNext
    <3>3. e \in TurnEvents /\ ReportNext(e, t)
      BY DEF TurnEvents, Report, ReportNext
    <3> HIDE DEF e
    <3>4. \A k \in 1..Len(inbox') : ReportNext(inbox'[k], t)
      BY <1>0, <2>2, <2>4, <3>2, <3>3, MoreReported DEF Told
    <3> QED BY <2>2, <2>4, <3>1, <3>4 DEF InboxIsOfTheTurn, Report, ReportNext
  <2> QED BY <2>3, <2>4
<1>7. CASE UNCHANGED <<active, inbox, born, home, conv>> /\ ~Reset /\ ~DrainRestored
  <2>1. CASE active = None
    BY <1>7, <2>1 DEF InboxIsOfTheTurn, Report, ReportNext
  <2>2. CASE active # None
    <3>1. era' = era
      BY <1>7, <1>3, <2>2 DEF Frame, EraTouched
    <3>2. \A k \in 1..Len(inbox) : Report(inbox[k], active)
      BY <2>2 DEF InboxIsOfTheTurn, Report, ReportNext
    <3>3. \A k \in 1..Len(inbox) : ReportNext(inbox[k], active)
      BY <1>1, <1>7, <2>2, <3>2, StillReported
    <3> QED BY <1>7, <2>2, <3>1, <3>3 DEF InboxIsOfTheTurn, Report, ReportNext
  <2> QED BY <2>1, <2>2
<1>8. CASE Cuts
  <2>1. PICK kept \in Seq(Path), c \in Jobs : CutTo(kept, c)
    BY <1>8, CutFacts
  <2> QED BY <2>1 DEF CutTo, MutationAllowed, InboxIsOfTheTurn
<1>9. CASE Skips
  <2>1. UNCHANGED <<active, inbox, born, home, conv>>
    BY <1>9 DEF Skips
  <2> QED BY <1>3, <1>7, <2>1
<1> QED BY <1>2, <1>3, <1>4, <1>5, <1>6, <1>7, <1>8, <1>9, StartFacts
        DEF Frame, ActiveTouched, InboxTouched, ConvTouched, BornTouched, HomeTouched

-----------------------------------------------------------------------------
(* Commands and answers *)

JobNext(c) ==
  /\ c.kind = "list" => c.path = <<>> /\ ~c.loaded
  /\ c.kind # "list" => /\ c.session # None /\ tree'[c.session] # {}
                        /\ c.path = <<>> \/ c.path \in tree'[c.session]
                        /\ \A k \in 1..Len(c.history) : c.history[k] \in tree'[c.session]
  /\ c.kind = "rewind" /\ ~c.loaded => IsItem(c.path)
AnswerNext(e) ==
  e.result = "restored" => /\ e.session # None /\ tree'[e.session] # {}
                           /\ \A k \in 1..Len(e.history) : e.history[k] \in tree'[e.session]
GoodJobs == {c \in Jobs : JobNext(c)}
GoodAnswers == {e \in Results : AnswerNext(e)}

LEMMA StillGood ==
  ASSUME Types, CommandsAreOfTheStore, Frame
  PROVE  /\ worker.queue \in Seq(GoodJobs) /\ worker.job \in Seq(GoodJobs)
         /\ worker.events \in Seq(GoodAnswers)
         /\ \A c \in Jobs : JobOK(c) => c \in GoodJobs
         /\ \A e \in Results : AnswerOK(e) => e \in GoodAnswers
<1>1. \A c \in Jobs : JobOK(c) => c \in GoodJobs
  <2> SUFFICES ASSUME NEW c \in Jobs, JobOK(c) PROVE JobNext(c)
    BY DEF GoodJobs
  <2>1. c.session # None => c.session \in Sessions
    BY DEF Jobs
  <2> QED BY <2>1, TreesOnlyGrow DEF JobOK, JobNext, Within, Holds
<1>2. \A e \in Results : AnswerOK(e) => e \in GoodAnswers
  <2> SUFFICES ASSUME NEW e \in Results, AnswerOK(e) PROVE AnswerNext(e)
    BY DEF GoodAnswers
  <2>1. e.session # None => e.session \in Sessions
    BY DEF Results
  <2> QED BY <2>1, TreesOnlyGrow DEF AnswerOK, AnswerNext, Holds
<1>3. worker.queue \in Seq(Jobs) /\ worker.job \in Seq(Jobs) /\ worker.events \in Seq(Results)
  BY DEF Types, WorkerType
<1>4. \A k \in 1..Len(worker.queue) : worker.queue[k] \in GoodJobs
  BY <1>1, <1>3 DEF CommandsAreOfTheStore
<1>5. \A k \in 1..Len(worker.job) : worker.job[k] \in GoodJobs
  BY <1>1, <1>3 DEF CommandsAreOfTheStore
<1>6. \A k \in 1..Len(worker.events) : worker.events[k] \in GoodAnswers
  BY <1>2, <1>3 DEF CommandsAreOfTheStore
<1> QED BY <1>1, <1>2, <1>3, <1>4, <1>5, <1>6, SequenceInto

(* What is cut off the conversation leaves a path of its session. *)
LEMMA CutIsOK ==
  ASSUME Types, ConversationIsStored, NEW kept \in Seq(Path), NEW c \in Jobs, CutTo(kept, c)
  PROVE  JobOK(c)
<1>1. PICK n \in 0..Len(conv.history) : kept = SubSeq(conv.history, 1, n)
  BY DEF CutTo
<1>2. conv.session \in Sessions /\ c = Command("setLeaf", conv.session, LastEntry(kept))
      /\ conv.history \in Seq(Path) /\ None \notin Sessions
  BY DEF CutTo, Types, None, Sessions
<1>3. tree[conv.session] # {} /\ Holds(conv.history, conv.session)
  BY <1>2 DEF ConversationIsStored
<1>4. Within(LastEntry(kept), conv.session)
  <2>1. CASE kept = <<>>
    BY <2>1 DEF LastEntry, Within
  <2>2. CASE kept # <<>>
    <3>1. LastEntry(kept) = kept[Len(kept)] /\ Len(kept) = n /\ n \in 1..Len(conv.history)
      BY <1>1, <1>2, <2>2 DEF LastEntry, Last
    <3>2. kept[n] = conv.history[n]
      BY <1>1, <1>2, <3>1
    <3> QED BY <1>3, <3>1, <3>2 DEF Holds, Within
  <2> QED BY <2>1, <2>2
<1>5. c.kind = "setLeaf" /\ c.session = conv.session /\ c.path = LastEntry(kept) /\ c.history = <<>>
  BY <1>2 DEF Command
<1> QED BY <1>2, <1>3, <1>4, <1>5 DEF JobOK, Holds

GoodWorker(q, j, e) ==
  /\ worker'.queue = q /\ worker'.job = j /\ worker'.events = e
  /\ q \in Seq(GoodJobs) /\ j \in Seq(GoodJobs) /\ e \in Seq(GoodAnswers) /\ Len(j) <= 1

LEMMA GoodEnough ==
  ASSUME NEW q, NEW j, NEW e, GoodWorker(q, j, e)
  PROVE  CommandsAreOfTheStore'
<1>1. \A k \in 1..Len(q) : JobNext(q[k])
  BY DEF GoodWorker, GoodJobs
<1>2. \A k \in 1..Len(j) : JobNext(j[k])
  BY DEF GoodWorker, GoodJobs
<1>3. \A k \in 1..Len(e) : AnswerNext(e[k])
  BY DEF GoodWorker, GoodAnswers
<1>4. worker'.queue = q /\ worker'.job = j /\ worker'.events = e /\ Len(j) <= 1
  BY DEF GoodWorker
<1> QED BY <1>1, <1>2, <1>3, <1>4
        DEF CommandsAreOfTheStore, JobOK, JobNext, AnswerOK, AnswerNext, Within, Holds

LEMMA GoodBecame ==
  ASSUME NEW q \in Seq(GoodJobs), NEW j \in Seq(GoodJobs), NEW e \in Seq(GoodAnswers), Len(j) <= 1,
         Became(q, j, e)
  PROVE  CommandsAreOfTheStore'
<1>1. GoodWorker(q, j, e)
  BY DEF GoodWorker, Became
<1> QED BY <1>1, GoodEnough

LEMMA GoodFinish ==
  ASSUME Types, CommandsAreOfTheStore, Frame, NEW e \in Results, AnswerOK(e),
         Became(worker.queue, <<>>, Append(worker.events, e))
  PROVE  CommandsAreOfTheStore'
<1> DEFINE j == <<>>  es == Append(worker.events, e)
<1>1. worker.queue \in Seq(GoodJobs) /\ worker.events \in Seq(GoodAnswers) /\ e \in GoodAnswers
  BY StillGood
<1>2. j \in Seq(GoodJobs) /\ Len(j) <= 1 /\ es \in Seq(GoodAnswers)
  BY <1>1
<1>3. Became(worker.queue, j, es)
  OBVIOUS
<1> HIDE DEF j, es
<1> QED BY <1>1, <1>2, <1>3, GoodBecame

LEMMA SentIsGood ==
  ASSUME Types, CommandsAreOfTheStore, Frame, NEW c \in Jobs, JobOK(c), SendCommand(c)
  PROVE  CommandsAreOfTheStore'
<1>1. /\ worker.queue \in Seq(GoodJobs) /\ worker.job \in Seq(GoodJobs)
      /\ worker.events \in Seq(GoodAnswers) /\ c \in GoodJobs
      /\ Len(worker.job) <= 1
  BY StillGood DEF CommandsAreOfTheStore
<1>2. Append(worker.queue, c) \in Seq(GoodJobs)
  BY <1>1
<1>3. Sent(c)
  BY SendFacts DEF Types
<1> QED BY <1>1, <1>2, <1>3, GoodEnough DEF Sent, Became, GoodWorker

LEMMA CommandsStep ==
  ASSUME Types, TreesGrow, ConversationIsStored, CommandsAreOfTheStore, Frame
  PROVE  CommandsAreOfTheStore'
<1>0. /\ worker.queue \in Seq(GoodJobs) /\ worker.job \in Seq(GoodJobs)
      /\ worker.events \in Seq(GoodAnswers)
      /\ Len(worker.job) <= 1 /\ worker \in WorkerType /\ <<>> \in Seq(GoodJobs) /\ Len(<<>>) = 0
      /\ leaf \in [Sessions -> Path]
  BY StillGood DEF CommandsAreOfTheStore, Types
<1>1. CASE Sends
  <2>1. PICK c \in Jobs : UserSends(c)
    BY <1>1 DEF Sends
  <2> QED BY <2>1, SentIsGood DEF UserSends
<1>2. CASE Cuts
  <2>1. PICK kept \in Seq(Path), c \in Jobs : CutTo(kept, c)
    BY <1>2, CutFacts
  <2>2. JobOK(c) /\ SendCommand(c)
    BY <2>1, CutIsOK DEF CutTo
  <2> QED BY <2>2, SentIsGood
<1>3. CASE DrainRestored \/ DrainAnswer
  <2>1. worker.events # <<>> /\ Counted(Head(worker.events))
    BY <1>3 DEF DrainRestored, DrainAnswer
  <2>2. Became(worker.queue, worker.job, Tail(worker.events))
    BY <1>0, <2>1, CountedFacts
  <2>3. Tail(worker.events) \in Seq(GoodAnswers)
    BY <1>0, <2>1
  <2> QED BY <1>0, <2>2, <2>3, GoodEnough DEF Became, GoodWorker
<1>4. CASE DrainStopped
  <2>1. Became(worker.queue, worker.job, worker.events)
    BY <1>0, <1>4, StoppedFacts
  <2> QED BY <1>0, <2>1, GoodEnough DEF Became, GoodWorker
<1>5. CASE TakeCommand
  <2> DEFINE c == Head(worker.queue)
  <2>1. worker.queue # <<>> /\ Became(Tail(worker.queue), <<c>>, worker.events)
    BY <1>0, <1>5, TakeFacts
  <2>2. Tail(worker.queue) \in Seq(GoodJobs) /\ c \in GoodJobs
    BY <1>0, <2>1
  <2> HIDE DEF c
  <2> DEFINE j == <<c>>  q == Tail(worker.queue)
  <2>3. j \in Seq(GoodJobs) /\ Len(j) <= 1 /\ q \in Seq(GoodJobs) /\ Became(q, j, worker.events)
    BY <2>1, <2>2
  <2> HIDE DEF j, q
  <2> QED BY <1>0, <2>3, GoodBecame
<1>6. CASE AnswersOne
  <2>1. PICK result \in {"rows", "noop", "restored", "failed"}, history \in Seq(Path) :
          Answers(result, history)
    BY <1>6 DEF AnswersOne
  <2>2. /\ worker.job # <<>> /\ Finish(result, history)
        /\ result = "restored" => Job.kind = "resume" /\ history = HistoryOf(leaf[Job.session])
    BY <2>1 DEF Answers
  <2> DEFINE e == Event(result, history)
  <2>3. e \in Results /\ Became(worker.queue, <<>>, Append(worker.events, e))
    BY <1>0, <2>2, FinishFacts
  <2>4. Job \in Jobs /\ JobOK(Job)
    BY <1>0, <2>2, JobFacts DEF CommandsAreOfTheStore, Job
  <2>5. AnswerOK(e)
    <3>1. e.result = result /\ e.session = Job.session /\ e.history = history
      BY DEF Event
    <3>2. CASE result = "restored"
      <4>1. Job.session \in Sessions
        BY <2>2, <2>4, <3>2 DEF JobOK, Jobs
      <4>2. Holds(HistoryOf(leaf[Job.session]), Job.session)
        BY <1>0, <4>1, HistoryHolds DEF TreesGrow
      <4> QED BY <2>2, <2>4, <3>1, <3>2, <4>2 DEF AnswerOK, JobOK
    <3> QED BY <3>1, <3>2 DEF AnswerOK
  <2> HIDE DEF e
  <2> QED BY <2>3, <2>5, GoodFinish
<1>7. CASE LoadTarget
  <2>1. PICK path \in Path : Aims(path)
    BY <1>7, TargetFacts
  <2>2. /\ worker.job # <<>> /\ Job \in Jobs /\ JobOK(Job) /\ Job.session \in Sessions
        /\ Within(path, Job.session) /\ Job.kind \in {"switch", "rewind"} /\ Loaded(path)
    BY <2>1 DEF Aims
  <2> DEFINE r == Ready(path)
  <2>3. r \in Jobs /\ Became(worker.queue, <<r>>, worker.events)
    BY <1>0, <2>2, LoadedFacts
  <2>4. Holds(HistoryOf(path), Job.session)
    BY <2>2, HistoryHolds
  <2>5. r.kind = Job.kind /\ r.session = Job.session /\ r.path = path /\ r.loaded
        /\ r.history = HistoryOf(path)
    BY <2>2 DEF Ready, Jobs
  <2> HIDE DEF r
  <2>6. JobOK(r)
    BY <2>2, <2>4, <2>5 DEF JobOK
  <2>7. r \in GoodJobs
    BY <2>3, <2>6, StillGood
  <2> DEFINE j == <<r>>
  <2>8. j \in Seq(GoodJobs) /\ Len(j) <= 1 /\ Became(worker.queue, j, worker.events)
    BY <2>3, <2>7
  <2> HIDE DEF j
  <2> QED BY <1>0, <2>8, GoodBecame
<1>8. CASE MoveLeaf
  <2>1. Moved
    BY <1>8, MoveFacts
  <2>2. worker.job # <<>> /\ Holds(Job.history, Job.session) /\ Job.session \in Sessions
        /\ tree[Job.session] # {}
        /\ Job.history \in Seq(Path)
    BY <2>1 DEF Moved
  <2>3. ASSUME NEW result \in {"noop", "restored"}, NEW history \in Seq(Path), Finish(result, history),
               result = "restored" => history = Job.history
        PROVE  CommandsAreOfTheStore'
    <3> DEFINE e == Event(result, history)
    <3>1. e \in Results /\ Became(worker.queue, <<>>, Append(worker.events, e))
      BY <1>0, <2>2, <2>3, FinishFacts
    <3>2. e.result = result /\ e.session = Job.session /\ e.history = history /\ None \notin Sessions
      BY DEF Event, None, Sessions
    <3> HIDE DEF e
    <3>3. AnswerOK(e)
      BY <2>2, <2>3, <3>2 DEF AnswerOK
    <3> QED BY <3>1, <3>3, GoodFinish
  <2>4. <<>> \in Seq(Path)
    OBVIOUS
  <2>5. CASE Finish("noop", <<>>)
    BY <2>3, <2>4, <2>5
  <2>6. CASE Finish("restored", Job.history)
    BY <2>2, <2>3, <2>6
  <2> QED BY <2>1, <2>5, <2>6 DEF Moved
<1>9. CASE WorkerDies
  <2> DEFINE none == <<>>
  <2>1. none \in Seq(GoodJobs) /\ Len(none) <= 1 /\ Became(none, none, worker.events)
    BY <1>0, <1>9, DieFacts
  <2> HIDE DEF none
  <2> QED BY <1>0, <2>1, GoodBecame
<1>10. CASE UNCHANGED worker
  BY <1>0, <1>10, GoodEnough DEF GoodWorker
<1> QED BY <1>1, <1>2, <1>3, <1>4, <1>5, <1>6, <1>7, <1>8, <1>9, <1>10 DEF Frame, WorkerTouched

LEMMA CountersStep ==
  ASSUME Types, CountersAreBounded, CommandsAreOfTheStore, TreesGrow, Frame
  PROVE  CountersAreBounded'
<1>0. /\ worker \in WorkerType /\ worker.commands \in Nat /\ worker.mutations \in Nat
      /\ worker' \in WorkerType /\ worker'.commands \in Nat /\ worker'.mutations \in Nat
      /\ spent.commands \in Nat /\ spent'.commands \in Nat /\ MaxCommands \in Nat
      /\ spent \in [commands : Nat, failures : Nat]
  BY WorkerTypeStep, BoundsAssumption DEF Types, WorkerType
<1>s. ASSUME SpendCommand
      PROVE  spent'.commands = spent.commands + 1 /\ spent'.commands <= MaxCommands
  BY <1>0, <1>s DEF SpendCommand
<1>1. ASSUME NEW c \in Jobs, SendCommand(c) PROVE CountersAreBounded'
  <2>1. Sent(c)
    BY <1>0, <1>1, SendFacts
  <2>2. /\ worker'.commands <= worker.commands + 1 /\ worker'.mutations <= worker.mutations + 1
        /\ SpendCommand
    BY <2>1 DEF Sent
  <2> QED BY <1>0, <1>s, <2>2 DEF CountersAreBounded
<1>2. CASE Sends
  BY <1>1, <1>2 DEF Sends, UserSends
<1>3. CASE Cuts
  BY <1>1, <1>3, CutFacts DEF CutTo
<1>4. CASE Reset
  <2>1. SpendCommand /\ worker' = worker
    BY <1>4 DEF Reset
  <2> QED BY <1>0, <1>s, <2>1 DEF CountersAreBounded
<1>5. ASSUME worker'.commands <= worker.commands, worker'.mutations <= worker.mutations,
             spent'.commands = spent.commands
      PROVE  CountersAreBounded'
  BY <1>0, <1>5 DEF CountersAreBounded
<1>6. CASE DrainRestored \/ DrainAnswer
  <2>1. worker.events # <<>> /\ Counted(Head(worker.events)) /\ spent' = spent
    BY <1>6 DEF DrainRestored, DrainAnswer
  <2> QED BY <1>0, <1>5, <2>1, CountedFacts
<1>7. CASE DrainStopped
  BY <1>0, <1>5, <1>7, StoppedFacts DEF DrainStopped
<1>8. CASE TakeCommand
  BY <1>0, <1>5, <1>8, TakeFacts DEF TakeCommand
<1>9. CASE AnswersOne
  <2>1. PICK result \in {"rows", "noop", "restored", "failed"}, history \in Seq(Path) :
          Answers(result, history)
    BY <1>9 DEF AnswersOne
  <2>2. worker.job # <<>> /\ Finish(result, history) /\ spent'.commands = spent.commands
    BY <2>1 DEF Answers
  <2>3. worker'.commands = worker.commands /\ worker'.mutations = worker.mutations
    BY <1>0, <2>2, FinishFacts
  <2> QED BY <1>0, <1>5, <2>2, <2>3
<1>10. CASE LoadTarget
  <2>1. PICK path \in Path : worker.job # <<>> /\ Loaded(path)
    BY <1>10, TargetFacts DEF Aims
  <2>2. worker'.commands = worker.commands /\ worker'.mutations = worker.mutations
    BY <1>0, <2>1, LoadedFacts
  <2> QED BY <1>0, <1>5, <1>10, <2>2 DEF LoadTarget
<1>11. CASE MoveLeaf
  <2>1. Moved
    BY <1>11, MoveFacts
  <2>2. worker.job # <<>> /\ Job.history \in Seq(Path) /\ <<>> \in Seq(Path)
        /\ (Finish("noop", <<>>) \/ Finish("restored", Job.history))
    BY <2>1 DEF Moved
  <2>3. worker'.commands = worker.commands /\ worker'.mutations = worker.mutations
    BY <1>0, <2>2, FinishFacts
  <2> QED BY <1>0, <1>5, <1>11, <2>3 DEF MoveLeaf
<1>12. CASE WorkerDies
  <2>1. worker'.commands = worker.commands /\ worker'.mutations = worker.mutations
    BY <1>0, <1>12, DieFacts
  <2> QED BY <1>0, <1>5, <1>12, <2>1 DEF WorkerDies
<1>13. CASE UNCHANGED <<worker, spent>>
  BY <1>0, <1>5, <1>13
<1> QED BY <1>2, <1>3, <1>4, <1>6, <1>7, <1>8, <1>9, <1>10, <1>11, <1>12, <1>13
        DEF Frame, WorkerTouched, SpentTouched

-----------------------------------------------------------------------------
(* Observations *)

LEMMA ElementsFacts ==
  ASSUME NEW T, NEW s \in Seq(T)
  PROVE  /\ \A e \in T : ToSet(Append(s, e)) = ToSet(s) \cup {e}
         /\ s # <<>> => Head(s) \in T /\ ToSet(s) = {Head(s)} \cup ToSet(Tail(s))
         /\ ToSet(s) \subseteq T
<1>1. ASSUME NEW e \in T PROVE ToSet(Append(s, e)) = ToSet(s) \cup {e}
  <2> DEFINE a == Append(s, e)
  <2>1. /\ DOMAIN a = 1..Len(s) + 1 /\ DOMAIN s = 1..Len(s) /\ Len(s) \in Nat
        /\ a[Len(s) + 1] = e /\ \A i \in 1..Len(s) : a[i] = s[i]
    OBVIOUS
  <2> HIDE DEF a
  <2>2. ToSet(a) \subseteq ToSet(s) \cup {e}
    BY <2>1 DEF ToSet
  <2>3. ToSet(s) \cup {e} \subseteq ToSet(a)
    BY <2>1 DEF ToSet
  <2> QED BY <2>2, <2>3 DEF a
<1>2. ASSUME s # <<>> PROVE ToSet(s) = {Head(s)} \cup ToSet(Tail(s))
  <2> DEFINE r == Tail(s)
  <2>1. /\ DOMAIN s = 1..Len(s) /\ Len(s) \in Nat /\ Len(s) > 0 /\ DOMAIN r = 1..(Len(s) - 1)
        /\ \A i \in 1..(Len(s) - 1) : r[i] = s[i + 1]
        /\ Head(s) = s[1]
    BY <1>2
  <2> HIDE DEF r
  <2>2. ToSet(s) \subseteq {Head(s)} \cup ToSet(r)
    <3> SUFFICES ASSUME NEW i \in 1..Len(s), i # 1 PROVE s[i] \in ToSet(r)
      BY <2>1 DEF ToSet
    <3>1. i - 1 \in 1..(Len(s) - 1) /\ r[i - 1] = s[i]
      BY <2>1
    <3> QED BY <2>1, <3>1 DEF ToSet
  <2>3. {Head(s)} \cup ToSet(r) \subseteq ToSet(s)
    <3>1. Head(s) \in ToSet(s)
      BY <2>1 DEF ToSet
    <3>2. ASSUME NEW i \in 1..(Len(s) - 1) PROVE r[i] \in ToSet(s)
      <4>1. i + 1 \in 1..Len(s)
        BY <2>1
      <4> QED BY <2>1, <4>1 DEF ToSet
    <3> QED BY <2>1, <3>1, <3>2 DEF ToSet
  <2> QED BY <2>2, <2>3 DEF r
<1>3. ToSet(s) \subseteq T
  BY DEF ToSet
<1>4. s # <<>> => Head(s) \in T
  OBVIOUS
<1> QED BY <1>1, <1>2, <1>3, <1>4

LEMMA NoElements == ToSet(<<>>) = {}
BY DEF ToSet

UnderNext == ToSet(env'.tasks) \cup ToSet(env'.results)

LEMMA UnderFacts ==
  ASSUME Types
  PROVE  /\ Under \subseteq Asked
         /\ \A t \in Turns : PrepareEnv(t) =>
              UnderNext = Under \cup {[generation |-> env.generation + 1, turn |-> t]}
         /\ CancelEnv => UnderNext \subseteq Under
         /\ StartEnv => UnderNext \subseteq Under
         /\ SkipEnv => Under = UnderNext \cup {Head(env.results)}
         /\ EndEnv => UnderNext = Under
<1>0. /\ env.tasks \in Seq(Asked) /\ env.results \in Seq(Asked) /\ env.generation \in Nat
  BY DEF Types, EnvType
<1> DEFINE ts == env.tasks  rs == env.results
<1>1. /\ ToSet(ts) \subseteq Asked /\ ToSet(rs) \subseteq Asked
      /\ \A e \in Asked : ToSet(Append(ts, e)) = ToSet(ts) \cup {e}
      /\ \A e \in Asked : ToSet(Append(rs, e)) = ToSet(rs) \cup {e}
      /\ ts # <<>> => Head(ts) \in Asked /\ ToSet(ts) = {Head(ts)} \cup ToSet(Tail(ts))
      /\ rs # <<>> => Head(rs) \in Asked /\ ToSet(rs) = {Head(rs)} \cup ToSet(Tail(rs))
  BY <1>0, ElementsFacts
<1> HIDE DEF ts, rs
<1>2. Under = ToSet(ts) \cup ToSet(rs)
  BY DEF Under, ts, rs
<1>3. ASSUME NEW t \in Turns, PrepareEnv(t)
      PROVE  UnderNext = Under \cup {[generation |-> env.generation + 1, turn |-> t]}
  <2> DEFINE e == [generation |-> env.generation + 1, turn |-> t]
  <2>1. e \in Asked
    BY <1>0 DEF Asked
  <2>2. env'.tasks = Append(ts, e) /\ env'.results = rs
    BY <1>3 DEF PrepareEnv, EnvIs, ts, rs
  <2> HIDE DEF e
  <2>3. UnderNext = (ToSet(ts) \cup {e}) \cup ToSet(rs)
    BY <1>1, <2>1, <2>2 DEF UnderNext
  <2> QED BY <1>2, <2>3 DEF e
<1>4. ASSUME CancelEnv PROVE UnderNext \subseteq Under
  <2>1. env'.tasks = ts /\ env'.results = <<>>
    BY <1>4 DEF CancelEnv, EnvIs, ts
  <2> QED BY <1>2, <2>1, NoElements DEF UnderNext
<1>5. ASSUME StartEnv PROVE UnderNext \subseteq Under
  <2>1. env'.tasks = ts /\ env'.results = Tail(rs) /\ rs # <<>>
    BY <1>5 DEF StartEnv, EnvIs, ts, rs
  <2> QED BY <1>1, <1>2, <2>1 DEF UnderNext
<1>6. ASSUME SkipEnv PROVE Under = UnderNext \cup {Head(rs)}
  <2>1. env'.tasks = ts /\ env'.results = Tail(rs) /\ rs # <<>>
    BY <1>6 DEF SkipEnv, EnvIs, ts, rs
  <2>2. UnderNext = ToSet(ts) \cup ToSet(Tail(rs))
    BY <2>1 DEF UnderNext
  <2> QED BY <1>1, <1>2, <2>1, <2>2
<1>7. ASSUME EndEnv PROVE UnderNext = Under
  <2>1. env'.tasks = Tail(ts) /\ env'.results = Append(rs, Head(ts)) /\ ts # <<>>
    BY <1>7 DEF EndEnv, EnvIs, ts, rs
  <2>2. UnderNext = ToSet(Tail(ts)) \cup (ToSet(rs) \cup {Head(ts)})
    BY <1>1, <2>1 DEF UnderNext
  <2> QED BY <1>1, <1>2, <2>1, <2>2
<1> QED BY <1>1, <1>2, <1>3, <1>4, <1>5, <1>6, <1>7 DEF rs

(* Fewer observations are under way, and none is awaited. *)
LEMMA NoneAwaited ==
  ASSUME Types, ObservationsAreNumbered, UnderNext \subseteq Under, preparing' = None, env'.active = None,
         env.generation <= env'.generation, env'.generation \in Nat
  PROVE  ObservationsAreNumbered'
<1>1. Under \subseteq Asked /\ env.generation \in Nat
  BY UnderFacts DEF Types, EnvType
<1>2. \A o \in UnderNext : o.generation <= env'.generation
  BY <1>1 DEF ObservationsAreNumbered, Asked
<1>3. \A o, p \in UnderNext : o.generation = p.generation => o = p
  BY DEF ObservationsAreNumbered
<1> QED BY <1>2, <1>3 DEF ObservationsAreNumbered, Under, UnderNext

LEMMA ObservationsStep ==
  ASSUME Types, ObservationsAreNumbered, Frame
  PROVE  ObservationsAreNumbered'
<1>0. /\ env.generation \in Nat /\ Under \subseteq Asked /\ None \notin Nat /\ None \notin Turns
      /\ phase \in [Turns -> {"new", "waiting", "live", "over"}] /\ preparing \in Turns \cup {None}
      /\ env.active \in Nat \cup {None}
  BY UnderFacts DEF Types, EnvType, None, Turns
<1>1. CASE Starts
  <2>1. PICK t \in Turns : Begun(t) /\ (AtOnce(t) \/ Awaited(t))
    BY <1>1 DEF Starts
  <2>2. preparing' = None
    BY <2>1 DEF Begun
  <2>3. CASE AtOnce(t)
    BY <1>0, <2>2, <2>3, NoneAwaited DEF AtOnce, ObservationsAreNumbered, Under, UnderNext
  <2>4. CASE Awaited(t)
    <3>1. StartEnv
      BY <2>4, EnvFacts
    <3>2. UnderNext \subseteq Under /\ env'.active = None /\ env'.generation = env.generation
      BY <3>1, UnderFacts DEF StartEnv, EnvIs
    <3> QED BY <1>0, <2>2, <3>2, NoneAwaited
  <2> QED BY <2>1, <2>3, <2>4
<1>2. CASE InterruptPreparing \/ Reset
  <2>1. CancelEnv /\ preparing' = None
    BY <1>2, EnvFacts DEF InterruptPreparing, Reset
  <2>2. UnderNext \subseteq Under /\ env'.active = None /\ env'.generation = env.generation + 1
    BY <2>1, UnderFacts DEF CancelEnv, EnvIs
  <2> QED BY <1>0, <2>1, <2>2, NoneAwaited
<1>3. CASE Prepares
  <2>1. PICK t \in Turns : PrepareTurn(t)
    BY <1>3 DEF Prepares
  <2> DEFINE e == [generation |-> env.generation + 1, turn |-> t]
  <2>2. PrepareEnv(t)
    BY <2>1, EnvFacts
  <2>3. UnderNext = Under \cup {e}
    BY <2>2, UnderFacts
  <2>4. env'.generation = env.generation + 1 /\ env'.active = env.generation + 1
    BY <2>2 DEF PrepareEnv, EnvIs
  <2>5. e.generation = env.generation + 1
    OBVIOUS
  <2>6. preparing' = t /\ phase'[t] = "waiting"
    BY <1>0, <2>1 DEF PrepareTurn
  <2>7. e = [generation |-> env'.active, turn |-> preparing']
    BY <2>4, <2>6
  <2> HIDE DEF e
  <2>8. \A o \in Under : o.generation \in Nat /\ o.generation <= env.generation
    BY <1>0 DEF ObservationsAreNumbered, Asked
  <2>9. \A o \in UnderNext : o.generation <= env'.generation
    BY <1>0, <2>3, <2>4, <2>5, <2>8
  <2>10. \A o, p \in UnderNext : o.generation = p.generation => o = p
    <3> SUFFICES ASSUME NEW o \in UnderNext, NEW p \in UnderNext, o.generation = p.generation
                 PROVE  o = p
      OBVIOUS
    <3>1. CASE o \in Under /\ p \in Under
      BY <3>1 DEF ObservationsAreNumbered
    <3> QED BY <1>0, <2>3, <2>5, <2>8, <3>1
  <2>11. env'.active # None /\ preparing' # None
    BY <1>0, <2>4, <2>6
  <2>12. [generation |-> env'.active, turn |-> preparing'] \in UnderNext
    BY <2>3, <2>7
  <2> QED BY <2>4, <2>6, <2>9, <2>10, <2>11, <2>12 DEF ObservationsAreNumbered, Under, UnderNext
<1>4. CASE Skips
  <2>1. SkipEnv
    BY <1>4, EnvFacts
  <2> DEFINE h == Head(env.results)
  <2>2. Under = UnderNext \cup {h} /\ env'.active = env.active /\ env'.generation = env.generation
    BY <2>1, UnderFacts DEF SkipEnv, EnvIs
  <2>3. UNCHANGED <<preparing, phase>> /\ ~Accepts(h)
    BY <1>4 DEF Skips, Observed
  <2> HIDE DEF h
  <2>4. \A o \in UnderNext : o.generation <= env'.generation
    BY <2>2 DEF ObservationsAreNumbered
  <2>5. \A o, p \in UnderNext : o.generation = p.generation => o = p
    BY <2>2 DEF ObservationsAreNumbered
  <2>6. ASSUME preparing # None PROVE [generation |-> env.active, turn |-> preparing] \in UnderNext
    <3> DEFINE o == [generation |-> env.active, turn |-> preparing]
    <3>1. o \in Under /\ env.active = env.generation /\ o.generation = env.active
      BY <2>6 DEF ObservationsAreNumbered
    <3> HIDE DEF o
    <3>2. o # h
      BY <2>3, <3>1 DEF Accepts
    <3> QED BY <2>2, <3>1, <3>2 DEF o
  <2>7. /\ env.active = None <=> preparing = None
        /\ preparing # None => env.active = env.generation /\ phase[preparing] = "waiting"
    BY DEF ObservationsAreNumbered
  <2> QED BY <2>2, <2>3, <2>4, <2>5, <2>6, <2>7 DEF ObservationsAreNumbered, Under, UnderNext
<1>5. CASE ObservationEnds
  <2>1. EndEnv
    BY <1>5, EnvFacts
  <2>2. UnderNext = Under /\ env'.active = env.active /\ env'.generation = env.generation
    BY <2>1, UnderFacts DEF EndEnv, EnvIs
  <2>3. UNCHANGED <<preparing, phase>>
    BY <1>5 DEF ObservationEnds, turnVars
  <2> QED BY <2>2, <2>3 DEF ObservationsAreNumbered, Under, UnderNext
<1>6. CASE Ends
  <2>1. PICK t \in Turns : TurnEnds(t)
    BY <1>6 DEF Ends
  <2>2. UNCHANGED <<preparing, env>> /\ phase[t] = "live" /\ phase' = [phase EXCEPT ![t] = "over"]
    BY <2>1 DEF TurnEnds
  <2>3. preparing # None => phase'[preparing] = phase[preparing]
    BY <1>0, <2>2 DEF ObservationsAreNumbered
  <2> QED BY <2>2, <2>3 DEF ObservationsAreNumbered, Under, UnderNext
<1>7. CASE UNCHANGED <<preparing, env, phase>>
  BY <1>7 DEF ObservationsAreNumbered, Under, UnderNext
<1> QED BY <1>1, <1>2, <1>3, <1>4, <1>5, <1>6, <1>7, StartFacts
        DEF Frame, PreparingTouched, EnvTouched, PhaseTouched

StartedNext(k) ==
  /\ \A t \in Turns : phase'[t] = "new" <=> t > k
  /\ env'.generation + (IF preparing' = None THEN 0 ELSE 1) <= k + k + spent'.commands

LEMMA GenerationsStep ==
  ASSUME Types, ObservationsAreNumbered, GenerationsAreBounded, CommandsAreOfTheStore, TreesGrow, Frame
  PROVE  GenerationsAreBounded'
<1>0. /\ env.generation \in Nat /\ spent \in [commands : Nat, failures : Nat]
      /\ spent.commands \in Nat /\ MaxTurns \in Nat /\ None \notin Turns
      /\ phase \in [Turns -> {"new", "waiting", "live", "over"}] /\ preparing \in Turns \cup {None}
  BY BoundsAssumption DEF Types, EnvType, None, Turns
<1>1. spent'.commands \in Nat /\ env'.generation \in Nat
  BY WorkerTypeStep, InboxTypeStep DEF EnvType
<1>2. spent.commands <= spent'.commands
  <2>1. SpendCommand => spent'.commands = spent.commands + 1
    BY <1>0 DEF SpendCommand
  <2>2. CASE Sends
    BY <1>0, <2>1, <2>2 DEF Sends, UserSends, SendCommand
  <2>3. CASE Cuts
    BY <1>0, <2>1, <2>3 DEF Cuts, TruncateConversation, SendCommand
  <2>4. CASE Reset
    BY <1>0, <2>1, <2>4 DEF Reset
  <2>5. CASE AnswersOne
    BY <1>0, <2>5 DEF AnswersOne, Answers
  <2> QED BY <1>0, <2>2, <2>3, <2>4, <2>5 DEF Frame, SpentTouched
<1>3. PICK k \in 0..MaxTurns : Started(k)
  BY DEF GenerationsAreBounded
<1>4. SUFFICES \E n \in 0..MaxTurns : StartedNext(n)
  BY DEF GenerationsAreBounded, Started, StartedNext, Waiting
<1>5. /\ \A t \in Turns : phase[t] = "new" <=> t > k
      /\ env.generation + Waiting <= k + k + spent.commands
  BY <1>3 DEF Started
<1>6. ASSUME NEW t \in Turns, phase[t] = "new", \A u \in 1..(t - 1) : phase[u] # "new"
      PROVE  t = k + 1 /\ k + 1 \in 0..MaxTurns
  <2>1. t > k /\ t \in 1..MaxTurns
    BY <1>5, <1>6 DEF Turns
  <2>2. ~(t > k + 1)
    <3> SUFFICES ASSUME t > k + 1 PROVE FALSE
      OBVIOUS
    <3>1. k + 1 \in 1..(t - 1) /\ k + 1 \in Turns /\ k + 1 > k
      BY <1>0, <2>1 DEF Turns
    <3> QED BY <1>5, <1>6, <3>1
  <2> QED BY <1>0, <2>1, <2>2
<1>7. CASE Starts
  <2>1. PICK t \in Turns : Begun(t) /\ (AtOnce(t) \/ Awaited(t))
    BY <1>7 DEF Starts
  <2>2. preparing' = None /\ phase' = [phase EXCEPT ![t] = "live"]
    BY <2>1 DEF Begun
  <2>3. CASE AtOnce(t)
    <3>1. t = k + 1 /\ k + 1 \in 0..MaxTurns /\ env' = env /\ preparing = None
      BY <1>6, <2>3 DEF AtOnce
    <3>2. \A u \in Turns : phase'[u] = "new" <=> u > k + 1
      BY <1>0, <1>5, <2>2, <3>1 DEF Turns
    <3>3. env'.generation + 0 <= k + 1 + k + 1 + spent'.commands
      BY <1>0, <1>1, <1>2, <1>5, <3>1 DEF Waiting
    <3> DEFINE n == k + 1
    <3>4. n \in 0..MaxTurns /\ StartedNext(n)
      BY <1>0, <2>2, <3>1, <3>2, <3>3 DEF StartedNext
    <3> QED BY <3>4
  <2>4. CASE Awaited(t)
    <3>1. preparing = t /\ phase[t] = "waiting" /\ env'.generation = env.generation
      BY <2>4, EnvFacts DEF Awaited, StartEnv, EnvIs
    <3>2. \A u \in Turns : phase'[u] = "new" <=> u > k
      BY <1>0, <1>5, <2>2, <3>1
    <3> QED BY <1>0, <1>1, <1>2, <1>5, <2>2, <3>1, <3>2 DEF StartedNext, Waiting
  <2> QED BY <2>1, <2>3, <2>4
<1>8. CASE Prepares
  <2>1. PICK t \in Turns : PrepareTurn(t)
    BY <1>8 DEF Prepares
  <2>2. t = k + 1 /\ k + 1 \in 0..MaxTurns /\ preparing = None /\ preparing' = t
        /\ phase' = [phase EXCEPT ![t] = "waiting"]
    BY <1>6, <2>1 DEF PrepareTurn, SubmitAllowed
  <2>3. env'.generation = env.generation + 1
    BY <2>1, EnvFacts DEF PrepareEnv, EnvIs
  <2>4. \A u \in Turns : phase'[u] = "new" <=> u > k + 1
    BY <1>0, <1>5, <2>2 DEF Turns
  <2>5. env'.generation + 1 <= k + 1 + k + 1 + spent'.commands
    BY <1>0, <1>1, <1>2, <1>5, <2>2, <2>3 DEF Waiting
  <2> QED BY <1>0, <2>2, <2>4, <2>5 DEF StartedNext
<1>9. CASE InterruptPreparing \/ Reset
  <2>1. preparing' = None /\ phase' = Forgotten /\ env'.generation = env.generation + 1
    BY <1>9, EnvFacts DEF InterruptPreparing, Reset, CancelEnv, EnvIs
  <2>2. preparing # None => phase[preparing] = "waiting"
    BY DEF ObservationsAreNumbered
  <2>3. \A u \in Turns : phase'[u] = "new" <=> u > k
    BY <1>0, <1>5, <2>1, <2>2 DEF Forgotten
  <2>4. preparing # None \/ spent'.commands = spent.commands + 1
    BY <1>0, <1>9 DEF InterruptPreparing, Reset, SpendCommand
  <2>5. env'.generation + 0 <= k + k + spent'.commands
    BY <1>0, <1>1, <1>2, <1>5, <2>1, <2>4 DEF Waiting
  <2> QED BY <2>1, <2>3, <2>5 DEF StartedNext
<1>10. CASE Ends
  <2>1. PICK t \in Turns : TurnEnds(t)
    BY <1>10 DEF Ends
  <2>2. UNCHANGED <<preparing, env>> /\ phase[t] = "live" /\ phase' = [phase EXCEPT ![t] = "over"]
    BY <2>1 DEF TurnEnds
  <2>3. \A u \in Turns : phase'[u] = "new" <=> u > k
    BY <1>0, <1>5, <2>2
  <2> QED BY <1>0, <1>1, <1>2, <1>5, <2>2, <2>3 DEF StartedNext, Waiting
<1>11. CASE env'.generation = env.generation /\ UNCHANGED <<preparing, phase>>
  BY <1>0, <1>1, <1>2, <1>5, <1>11 DEF StartedNext, Waiting
<1>12. CASE Skips
  BY <1>11, <1>12, EnvFacts DEF Skips, SkipEnv, EnvIs
<1>13. CASE ObservationEnds
  BY <1>11, <1>13, EnvFacts DEF ObservationEnds, EndEnv, EnvIs, turnVars
<1> QED BY <1>7, <1>8, <1>9, <1>10, <1>11, <1>12, <1>13, StartFacts
        DEF Frame, PreparingTouched, EnvTouched, PhaseTouched

-----------------------------------------------------------------------------
(* The invariant *)

LEMMA FirstOf ==
  ASSUME NEW p \in Path, NEW i \in 0..Len(p)
  PROVE  SubSeq(p, 1, i) \in Path /\ Len(SubSeq(p, 1, i)) = i
<1>1. SubSeq(p, 1, i) \in Path
  BY DEF Path
<1>2. Len(SubSeq(p, 1, i)) = i
  BY DEF Path
<1> QED BY <1>1, <1>2

LEMMA OldFacts ==
  /\ OldPath \in Path /\ Len(OldPath) = 4
  /\ \A i \in 0..4 : SubSeq(OldPath, 1, i) \in Path /\ Len(SubSeq(OldPath, 1, i)) = i
  /\ \A i \in 0..4 : \A j \in 0..i : SubSeq(SubSeq(OldPath, 1, i), 1, j) = SubSeq(OldPath, 1, j)
  /\ SubSeq(OldPath, 1, 4) = OldPath
<1>1. \A i \in 1..4 : Entry(0, i) \in Entries
  BY BoundsAssumption DEF Entry, Entries, Sessions
<1>2. OldPath \in Seq(Entries) /\ Len(OldPath) = 4
  BY <1>1 DEF OldPath
<1>3. \A i \in 0..4 : SubSeq(OldPath, 1, i) \in Path /\ Len(SubSeq(OldPath, 1, i)) = i
  BY <1>2, FirstOf DEF Path
<1>4. \A i \in 0..4 : \A j \in 0..i : SubSeq(SubSeq(OldPath, 1, i), 1, j) = SubSeq(OldPath, 1, j)
  BY <1>2
<1>5. SubSeq(OldPath, 1, 4) = OldPath
  BY <1>2
<1> QED BY <1>2, <1>3, <1>4, <1>5 DEF Path

LEMMA StartTypes == Init => Types
<1> SUFFICES ASSUME Init PROVE Types
  OBVIOUS
<1> USE BoundsAssumption
<1>0. MaxTurns \in Nat /\ None \in Int /\ 0 \in Sessions /\ Turns \subseteq Sessions
  BY DEF None, Sessions, Turns
<1>1. OldPath \in Path /\ \A i \in 0..4 : SubSeq(OldPath, 1, i) \in Path
  BY OldFacts
<1>2. <<>> \in Path /\ <<>> \in Seq(Path)
  BY DEF Path
<1>3. conv \in [session : Sessions \cup {None}, history : Seq(Path)] /\ era \in Nat
  BY <1>2 DEF Init, Fresh
<1>4. active \in Turns \cup {None} /\ preparing \in Turns \cup {None} /\ inbox \in Seq(TurnEvents)
  BY DEF Init
<1>5. /\ written \in [Turns -> 0..4] /\ phase \in [Turns -> {"new", "waiting", "live", "over"}]
      /\ item \in [Turns -> Path] /\ home \in [Turns -> Sessions \cup {None}]
      /\ born \in [Turns -> Int]
  BY <1>0, <1>2 DEF Init
<1>6. env \in EnvType
  BY DEF Init, EnvType
<1>7. worker \in WorkerType
  BY DEF Init, WorkerType
<1>8. spent \in [commands : Nat, failures : Nat] /\ unsaved \in BOOLEAN
  BY DEF Init
<1>9. tree \in [Sessions -> SUBSET Path]
  <2>1. {SubSeq(OldPath, 1, i) : i \in 0..4} \in SUBSET Path
    BY <1>1
  <2> QED BY <2>1 DEF Init
<1>10. leaf \in [Sessions -> Path]
  BY <1>1, <1>2 DEF Init
<1> QED BY <1>3, <1>4, <1>5, <1>6, <1>7, <1>8, <1>9, <1>10 DEF Types

LEMMA StartTrees == Init => TreesGrow
<1> SUFFICES ASSUME Init PROVE TreesGrow
  OBVIOUS
<1> DEFINE old == {SubSeq(OldPath, 1, i) : i \in 0..4}
<1>2. /\ \A i \in 0..4 : Len(SubSeq(OldPath, 1, i)) = i
      /\ \A i \in 0..4 : \A j \in 0..i : SubSeq(SubSeq(OldPath, 1, i), 1, j) = SubSeq(OldPath, 1, j)
  BY OldFacts
<1>3. SubSeq(OldPath, 1, 4) = OldPath
  BY OldFacts
<1>4. ASSUME NEW p \in old, NEW j \in 0..Len(p) PROVE SubSeq(p, 1, j) \in old
  <2>1. PICK i \in 0..4 : p = SubSeq(OldPath, 1, i)
    OBVIOUS
  <2>2. j \in 0..i /\ j \in 0..4
    BY <1>2, <2>1
  <2> QED BY <1>2, <2>1, <2>2
<1>5. OldPath \in old
  BY <1>3
<1> HIDE DEF old
<1>6. tree = [s \in Sessions |-> IF s = 0 THEN old ELSE {}]
      /\ leaf = [s \in Sessions |-> IF s = 0 THEN OldPath ELSE <<>>]
  BY DEF Init, old
<1>7. ASSUME NEW s \in Sessions PROVE Grown(s) /\ Within(leaf[s], s)
  <2>1. CASE s = 0
    BY <1>4, <1>5, <1>6, <2>1 DEF Grown, Within
  <2>2. CASE s # 0
    BY <1>6, <2>2 DEF Grown, Within
  <2> QED BY <2>1, <2>2
<1> QED BY <1>7 DEF TreesGrow

LEMMA StartAnswers == Init => AnswersInv
<1> SUFFICES ASSUME Init PROVE AnswersInv
  OBVIOUS
<1> USE BoundsAssumption
<1>1. Types /\ TreesGrow
  BY StartTypes, StartTrees
<1>2. ConversationIsStored
  BY DEF Init, Fresh, ConversationIsStored
<1>3. TurnsWrite
  BY DEF Init, TurnsWrite
<1>4. InboxIsOfTheTurn
  BY DEF Init, InboxIsOfTheTurn
<1>5. CommandsAreOfTheStore
  BY DEF Init, CommandsAreOfTheStore
<1>6. CountersAreBounded
  BY DEF Init, CountersAreBounded
<1>7. ObservationsAreNumbered
  <2>1. Under = {}
    BY NoElements DEF Init, Under
  <2> QED BY <2>1 DEF Init, ObservationsAreNumbered
<1>8. GenerationsAreBounded
  <2>1. 0 \in 0..MaxTurns
    OBVIOUS
  <2>2. Started(0)
    BY DEF Init, Started, Waiting, Turns
  <2> QED BY <2>1, <2>2 DEF GenerationsAreBounded
<1> QED BY <1>1, <1>2, <1>3, <1>4, <1>5, <1>6, <1>7, <1>8 DEF AnswersInv

LEMMA AnswersStep ==
  ASSUME AnswersInv, [Next]_vars
  PROVE  AnswersInv' /\ Frame /\ StepKind /\ user' = user
<1>1. /\ Types /\ TreesGrow /\ ConversationIsStored /\ TurnsWrite /\ InboxIsOfTheTurn
      /\ CommandsAreOfTheStore /\ CountersAreBounded /\ ObservationsAreNumbered /\ GenerationsAreBounded
  BY DEF AnswersInv
<1>2. Frame /\ StepKind /\ user' = user
  BY <1>1, StepKinds, Frames
<1>3. Types' /\ TreesGrow' /\ ConversationIsStored'
  BY <1>1, <1>2, TypesStep, TreesGrowStep, ConversationStep
<1>4. TurnsWrite' /\ InboxIsOfTheTurn' /\ CommandsAreOfTheStore'
  BY <1>1, <1>2, TurnsWriteStep, InboxStep, CommandsStep
<1>5. CountersAreBounded' /\ ObservationsAreNumbered' /\ GenerationsAreBounded'
  BY <1>1, <1>2, CountersStep, ObservationsStep, GenerationsStep
<1> QED BY <1>2, <1>3, <1>4, <1>5 DEF AnswersInv

(* The trees keep every path a turn or a command names, the inbox is the
   active turn's, and one observation is awaited at a time.              *)
THEOREM CoordinatorInvariant == Spec => []AnswersInv
<1>1. Init => AnswersInv
  BY StartAnswers
<1>2. AnswersInv /\ [Next]_vars => AnswersInv'
  BY AnswersStep
<1> QED BY <1>1, <1>2, PTL DEF Spec

LEMMA ElementsOfBoth ==
  ASSUME NEW T, NEW s \in Seq(T), NEW r \in Seq(T)
  PROVE  ToSet(s \o r) = ToSet(s) \cup ToSet(r)
<1> DEFINE b == s \o r
<1>1. /\ DOMAIN b = 1..(Len(s) + Len(r)) /\ DOMAIN s = 1..Len(s) /\ DOMAIN r = 1..Len(r)
      /\ Len(s) \in Nat /\ Len(r) \in Nat
      /\ \A i \in 1..Len(s) : b[i] = s[i]
      /\ \A i \in 1..Len(r) : b[Len(s) + i] = r[i]
  OBVIOUS
<1> HIDE DEF b
<1>2. \A i \in DOMAIN b : i \in 1..Len(s) \/ i - Len(s) \in 1..Len(r)
  BY <1>1
<1>3. ToSet(b) \subseteq ToSet(s) \cup ToSet(r)
  <2> SUFFICES ASSUME NEW i \in DOMAIN b PROVE b[i] \in ToSet(s) \cup ToSet(r)
    BY DEF ToSet
  <2>1. CASE i \in 1..Len(s)
    BY <1>1, <2>1 DEF ToSet
  <2>2. CASE i - Len(s) \in 1..Len(r)
    <3>1. b[Len(s) + (i - Len(s))] = r[i - Len(s)] /\ Len(s) + (i - Len(s)) = i
      BY <1>1, <2>2
    <3> QED BY <1>1, <2>2, <3>1 DEF ToSet
  <2> QED BY <1>2, <2>1, <2>2
<1>4. ToSet(s) \subseteq ToSet(b)
  BY <1>1 DEF ToSet
<1>5. ToSet(r) \subseteq ToSet(b)
  <2> SUFFICES ASSUME NEW i \in 1..Len(r) PROVE r[i] \in ToSet(b)
    BY <1>1 DEF ToSet
  <2>1. Len(s) + i \in DOMAIN b /\ b[Len(s) + i] = r[i]
    BY <1>1
  <2> QED BY <2>1 DEF ToSet
<1> QED BY <1>3, <1>4, <1>5 DEF b

LEMMA TypesAreOK == AnswersInv => TypeOK
<1> SUFFICES ASSUME AnswersInv PROVE TypeOK
  OBVIOUS
<1>0. /\ Types /\ TreesGrow /\ ConversationIsStored /\ TurnsWrite
      /\ CommandsAreOfTheStore /\ CountersAreBounded /\ ObservationsAreNumbered /\ GenerationsAreBounded
      /\ MaxTurns \in Nat /\ MaxCommands \in Nat /\ None \notin Nat /\ None \notin Sessions
  BY BoundsAssumption DEF AnswersInv, None, Sessions
<1>1. \A s \in Sessions : tree[s] \subseteq Paths
  BY DEF Paths
<1>p. <<>> \in Paths
  BY DEF Paths
<1>2. conv.session \in Sessions \cup {None} /\ ToSet(conv.history) \subseteq Paths
  <2>1. conv.session \in Sessions \cup {None} /\ conv.history \in Seq(Path)
    BY <1>0 DEF Types
  <2>2. CASE conv.session = None
    <3>1. conv.history = <<>>
      BY <1>0, <2>2 DEF ConversationIsStored
    <3> QED BY <2>1, <3>1, NoElements
  <2>3. CASE conv.session \in Sessions
    <3>1. Holds(conv.history, conv.session)
      BY <1>0, <2>3 DEF ConversationIsStored
    <3>2. DOMAIN conv.history = 1..Len(conv.history)
      BY <2>1
    <3> QED BY <1>1, <2>1, <2>3, <3>1, <3>2 DEF Holds, ToSet
  <2> QED BY <2>1, <2>2, <2>3
<1>3. /\ {active, preparing} \subseteq Turns \cup {None}
      /\ written \in [Turns -> 0..4] /\ phase \in [Turns -> {"new", "waiting", "live", "over"}]
      /\ home \in [Turns -> Sessions \cup {None}]
  BY <1>0 DEF Types
<1>4. item \in [Turns -> Paths]
  <2>1. item \in [Turns -> Path]
    BY <1>0 DEF Types
  <2>2. ASSUME NEW t \in Turns PROVE item[t] \in Paths
    <3>1. CASE written[t] = 0
      BY <1>0, <1>p, <3>1 DEF TurnsWrite
    <3>2. CASE written[t] # 0
      BY <1>0, <1>1, <1>3, <3>2 DEF TurnsWrite
    <3> QED BY <3>1, <3>2
  <2> QED BY <2>1, <2>2
<1>5. \A s \in Sessions : leaf[s] \in tree[s] \cup {<<>>}
  BY <1>0 DEF TreesGrow, Within
<1>6. env.generation \in Generations /\ env.active \in Generations \cup {None}
  <2>1. PICK k \in 0..MaxTurns : env.generation + Waiting <= k + k + spent.commands
    BY <1>0 DEF GenerationsAreBounded, Started
  <2>2. env.generation \in Nat /\ spent.commands \in Nat /\ spent.commands <= MaxCommands
        /\ Waiting \in 0..1
    BY <1>0 DEF Types, EnvType, CountersAreBounded, Waiting
  <2>3. env.generation \in Generations
    BY <1>0, <2>1, <2>2 DEF Generations
  <2>4. env.active = None \/ env.active = env.generation
    BY <1>0 DEF ObservationsAreNumbered
  <2> QED BY <2>3, <2>4
<1>7. ToSet(env.tasks \o env.results) \subseteq Observations
  <2>1. env.tasks \in Seq(Asked) /\ env.results \in Seq(Asked)
    BY <1>0 DEF Types, EnvType
  <2>2. ToSet(env.tasks \o env.results) = Under
    BY <2>1, ElementsOfBoth DEF Under
  <2>3. Under \subseteq Asked
    BY <1>0, UnderFacts
  <2>4. ASSUME NEW o \in Under PROVE o \in Observations
    <3>1. o \in Asked /\ o.generation <= env.generation
      BY <1>0, <2>3 DEF ObservationsAreNumbered
    <3>2. o.generation \in Generations
      BY <1>0, <1>6, <3>1 DEF Generations, Asked
    <3> QED BY <3>1, <3>2 DEF Asked, Observations
  <2> QED BY <2>2, <2>4
<1>8. \A c \in ToSet(worker.queue \o worker.job) :
        c.kind \in Mutations \cup {"list"} /\ c.path \in Paths /\ Len(worker.job) <= 1
  <2>1. worker.queue \in Seq(Jobs) /\ worker.job \in Seq(Jobs)
    BY <1>0 DEF Types, WorkerType
  <2>2. ToSet(worker.queue \o worker.job) = ToSet(worker.queue) \cup ToSet(worker.job)
    BY <2>1, ElementsOfBoth
  <2>3. DOMAIN worker.queue = 1..Len(worker.queue) /\ DOMAIN worker.job = 1..Len(worker.job)
    BY <2>1
  <2>4. \A c \in ToSet(worker.queue) \cup ToSet(worker.job) : c \in Jobs /\ JobOK(c)
    BY <1>0, <2>1, <2>3 DEF ToSet, CommandsAreOfTheStore
  <2>5. \A c \in Jobs : JobOK(c) => c.kind \in Mutations \cup {"list"} /\ c.path \in Paths
    BY <1>1, <1>p DEF Jobs, JobOK, Within
  <2> QED BY <1>0, <2>2, <2>4, <2>5 DEF CommandsAreOfTheStore
<1>9. {worker.commands, worker.mutations} \subseteq 0..MaxCommands
  <2>1. worker.commands \in Nat /\ worker.mutations \in Nat /\ spent.commands \in Nat
    BY <1>0 DEF Types, WorkerType
  <2> QED BY <1>0, <2>1 DEF CountersAreBounded
<1> QED BY <1>2, <1>3, <1>4, <1>5, <1>6, <1>7, <1>8, <1>9 DEF TypeOK

LEMMA AwaitedIsComing == AnswersInv => AwaitedObservationIsComing
<1> SUFFICES ASSUME AnswersInv PROVE AwaitedObservationIsComing
  OBVIOUS
<1>1. ObservationsAreNumbered /\ env.tasks \in Seq(Asked) /\ env.results \in Seq(Asked)
  BY DEF AnswersInv, Types, EnvType
<1>2. ToSet(env.tasks \o env.results) = Under
  BY <1>1, ElementsOfBoth DEF Under
<1> QED BY <1>1, <1>2 DEF ObservationsAreNumbered, AwaitedObservationIsComing

LEMMA StartsWithIt ==
  ASSUME AnswersInv, Frame
  PROVE  StartsWithItsObservation
<1>0. /\ Types /\ ObservationsAreNumbered
      /\ phase \in [Turns -> {"new", "waiting", "live", "over"}]
  BY DEF AnswersInv, Types
<1>1. SUFFICES ASSUME NEW t \in Turns, phase[t] = "waiting", phase'[t] = "live"
               PROVE  Observed.turn = t
  BY DEF StartsWithItsObservation
<1>2. CASE Starts
  <2>1. PICK u \in Turns : Begun(u) /\ (AtOnce(u) \/ Awaited(u))
    BY <1>2 DEF Starts
  <2>2. u = t
    BY <1>0, <1>1, <2>1 DEF Begun
  <2>3. Awaited(t)
    BY <1>1, <2>1, <2>2 DEF AtOnce
  <2> DEFINE o == [generation |-> env.active, turn |-> t]
  <2>4. o \in Under /\ o.generation = env.active /\ o.turn = t
    BY <1>0, <2>3 DEF Awaited, ObservationsAreNumbered, Turns, None
  <2>5. env.results \in Seq(Asked) /\ env.results # <<>>
    BY <1>0, <2>3 DEF Awaited, Types, EnvType
  <2>6. Observed \in Under
    BY <2>5, ElementsFacts DEF Observed, Under
  <2>7. Observed.generation = env.active
    BY <2>3 DEF Awaited, Accepts
  <2> HIDE DEF o
  <2>8. Observed = o
    BY <1>0, <2>4, <2>6, <2>7 DEF ObservationsAreNumbered
  <2> QED BY <2>4, <2>8
<1>3. CASE Prepares
  BY <1>0, <1>1, <1>3 DEF Prepares, PrepareTurn
<1>4. CASE InterruptPreparing \/ Reset
  BY <1>0, <1>1, <1>4 DEF InterruptPreparing, Reset, Forgotten
<1>5. CASE Ends
  BY <1>0, <1>1, <1>5 DEF Ends, TurnEnds
<1>6. CASE Skips
  BY <1>1, <1>6 DEF Skips
<1> QED BY <1>0, <1>1, <1>2, <1>3, <1>4, <1>5, <1>6, StartFacts DEF Frame, PhaseTouched, PreparingTouched

ReportStays ==
  era' = era /\ Len(conv'.history) > Len(conv.history) => born[Last(Last(conv'.history)).turn] = era

LEMMA ReportStaysHere ==
  ASSUME AnswersInv, Frame
  PROVE  ReportStays
<1>0. /\ Types /\ InboxIsOfTheTurn /\ conv \in ConvType /\ conv.history \in Seq(Path)
      /\ era \in Nat /\ CommandsAreOfTheStore
  BY DEF AnswersInv, Types, ConvType
<1>1. SUFFICES ASSUME era' = era, Len(conv'.history) > Len(conv.history)
               PROVE  born[Last(Last(conv'.history)).turn] = era
  BY DEF ReportStays
<1>2. CASE Cuts
  <2>1. PICK kept \in Seq(Path), c \in Jobs : CutTo(kept, c)
    BY <1>0, <1>2, CutFacts
  <2>2. PICK n \in 0..Len(conv.history) : kept = SubSeq(conv.history, 1, n)
    BY <2>1 DEF CutTo
  <2>3. conv'.history = kept /\ Len(kept) = n
    BY <1>0, <2>1, <2>2 DEF CutTo, ConvType
  <2> QED BY <1>0, <1>1, <2>2, <2>3
<1>3. CASE Reset
  BY <1>0, <1>1, <1>3 DEF Reset
<1>4. CASE DrainRestored
  BY <1>0, <1>1, <1>4 DEF DrainRestored
<1>5. CASE DrainTurn
  <2>1. PICK e \in TurnEvents : Heard(e)
    BY <1>0, <1>5, HearFacts
  <2>2. CASE UNCHANGED conv
    BY <1>0, <1>1, <2>2
  <2>3. CASE ~UNCHANGED conv
    <3>1. /\ e.kind = "entry" /\ e.entry \in Path /\ e = inbox[1] /\ inbox # <<>> /\ active # None
          /\ conv' = [session |-> e.session, history |-> Append(conv.history, e.entry)]
      BY <2>1, <2>3 DEF Heard
    <3>2. 1 \in 1..Len(inbox)
      BY <1>0, <3>1 DEF Types
    <3>3. Last(e.entry).turn = active /\ born[active] = era
      BY <1>0, <3>1, <3>2 DEF InboxIsOfTheTurn, Report
    <3>4. Last(Append(conv.history, e.entry)) = e.entry
      BY <1>0, <3>1 DEF Last
    <3>5. conv'.history = Append(conv.history, e.entry)
      BY <3>1
    <3> QED BY <3>3, <3>4, <3>5
  <2> QED BY <2>2, <2>3
<1>6. CASE UNCHANGED conv
  BY <1>0, <1>1, <1>6
<1> QED BY <1>2, <1>3, <1>4, <1>5, <1>6 DEF Frame, ConvTouched

(* AppRuntimeCoordinator takes what comes back from another thread for what
   asked for it: an observation starts the turn it was made for, a report of
   a turn enters the conversation the turn was started in, and the counters
   and names never leave their types on the way.                           *)
THEOREM AnswersFind == Spec => AnswersFindWhoAsked
<1>1. AnswersInv => TypeOK /\ AwaitedObservationIsComing
  BY TypesAreOK, AwaitedIsComing
<1>2. AnswersInv /\ [Next]_vars => [StartsWithItsObservation]_vars
  BY AnswersStep, StartsWithIt
<1>3. AnswersInv /\ [Next]_vars => [ReportStays]_vars
  BY AnswersStep, ReportStaysHere
<1>4. Spec => [][ReportStays]_vars
  BY <1>3, CoordinatorInvariant, PTL DEF Spec
<1>5. Spec => ReportsStayInTheirConversation
  BY <1>4 DEF ReportsStayInTheirConversation, ReportStays
<1> QED BY <1>1, <1>2, <1>5, CoordinatorInvariant, PTL
        DEF Spec, AnswersFindWhoAsked, ObservationReachesItsTurn

-----------------------------------------------------------------------------
(* A user who waits *)

LEMMA SessionsStep ==
  ASSUME Types, TurnsWrite, ConversationIsStored, SessionsAreStored, ObservationsAreNumbered, Frame
  PROVE  SessionsAreStored'
<1>0. /\ home \in [Turns -> Sessions \cup {None}] /\ tree \in [Sessions -> SUBSET Path]
      /\ written \in [Turns -> 0..4] /\ conv.session \in Sessions \cup {None}
      /\ Turns \subseteq Sessions /\ None \notin Sessions
  BY BoundsAssumption DEF Types, Turns, Sessions, None
<1>1. /\ \A t \in Turns : home[t] # None => tree[home[t]] # {}
      /\ \A t \in Turns : written[t] = 0 => tree[t] = {}
  BY DEF SessionsAreStored
<1>2. SUFFICES /\ \A t \in Turns : home'[t] # None => tree'[home'[t]] # {}
               /\ \A t \in Turns : written'[t] = 0 => tree'[t] = {}
  BY DEF SessionsAreStored
<1>3. CASE Writes
  <2>1. PICK t \in Turns, s \in Sessions, path \in Path : Wrote(t, s, path)
    BY <1>3, WriteFacts
  <2>2. /\ s = (IF home[t] = None THEN t ELSE home[t])
        /\ tree' = [tree EXCEPT ![s] = tree[s] \cup {<<>>, path}]
        /\ home' = [home EXCEPT ![t] = s] /\ written' = [written EXCEPT ![t] = @ + 1]
    BY <2>1 DEF Wrote
  <2>3. ASSUME NEW u \in Turns, home'[u] # None PROVE tree'[home'[u]] # {}
    <3>1. CASE u = t
      BY <1>0, <2>2, <3>1
    <3>2. CASE u # t
      BY <1>0, <1>1, <2>2, <2>3, <3>2
    <3> QED BY <3>1, <3>2
  <2>4. ASSUME NEW u \in Turns, written'[u] = 0 PROVE tree'[u] = {}
    <3>1. u # t /\ written[u] = 0
      BY <1>0, <2>2, <2>4
    <3>2. tree[u] = {}
      BY <1>1, <3>1
    <3>3. u # s
      BY <1>1, <2>2, <3>1, <3>2
    <3> QED BY <1>0, <2>2, <3>2, <3>3
  <2> QED BY <2>3, <2>4
<1>4. CASE Starts
  <2>1. PICK t \in Turns : Begun(t)
    BY <1>4 DEF Starts
  <2>2. home' = [home EXCEPT ![t] = conv.session] /\ UNCHANGED <<tree, written>>
    BY <2>1 DEF Begun
  <2>3. conv.session # None => tree[conv.session] # {}
    BY DEF ConversationIsStored
  <2> QED BY <1>0, <1>1, <2>2, <2>3
<1>5. CASE UNCHANGED <<home, tree, written>>
  BY <1>1, <1>5
<1>6. CASE Skips
  BY <1>5, <1>6 DEF Skips
<1> QED BY <1>3, <1>4, <1>5, <1>6, StartFacts DEF Frame, HomeTouched, BornTouched

LEMMA EndStep ==
  ASSUME Types, TurnsWrite, CommandsAreOfTheStore, ObservationsAreNumbered, InboxIsOfTheTurn,
         EndIsLast, Frame
  PROVE  EndIsLast'
<1>0. /\ written \in [Turns -> 0..4] /\ inbox \in Seq(TurnEvents) /\ active \in Turns \cup {None}
      /\ phase \in [Turns -> {"new", "waiting", "live", "over"}] /\ None \notin Turns
      /\ preparing \in Turns \cup {None}
  BY DEF Types, None, Turns
<1>1. /\ \A k \in 1..Len(inbox) : inbox[k].kind = "end" => phase[active] = "over" /\ Len(inbox) = 1
      /\ \A t \in Turns : phase[t] = "over" => written[t] \in {0, 2, 4}
  BY DEF EndIsLast
<1>2. SUFFICES
        /\ \A k \in 1..Len(inbox') :
             inbox'[k].kind = "end" => phase'[active'] = "over" /\ Len(inbox') = 1
        /\ \A t \in Turns : phase'[t] = "over" => written'[t] \in {0, 2, 4}
  BY DEF EndIsLast
<1>3. CASE Starts
  <2>1. PICK t \in Turns : Begun(t)
    BY <1>3 DEF Starts
  <2>2. inbox' = <<>> /\ phase' = [phase EXCEPT ![t] = "live"] /\ UNCHANGED written
    BY <2>1 DEF Begun
  <2> QED BY <1>0, <1>1, <2>2
<1>4. CASE DrainRestored
  <2>1. inbox' = <<>> /\ UNCHANGED <<phase, written>>
    BY <1>4 DEF DrainRestored, ForgetWorker
  <2> QED BY <1>1, <2>1
<1>5. CASE DrainTurn
  <2>1. PICK e \in TurnEvents : Heard(e)
    BY <1>5, HearFacts
  <2>2. UNCHANGED <<phase, written>>
    BY <2>1 DEF Heard
  <2>3. CASE inbox' = <<>>
    BY <1>1, <2>2, <2>3
  <2>4. CASE inbox' # <<>>
    <3>1. inbox' = Tail(inbox) /\ inbox # <<>> /\ active' = active
      BY <2>1, <2>4 DEF Heard
    <3>2. \A k \in 1..Len(inbox') : k + 1 \in 1..Len(inbox) /\ inbox'[k] = inbox[k + 1]
          /\ Len(inbox) # 1
      BY <1>0, <3>1
    <3> QED BY <1>1, <2>2, <3>1, <3>2
  <2> QED BY <2>3, <2>4
<1>6. CASE Writes
  <2>1. PICK t \in Turns, s \in Sessions, path \in Path : Wrote(t, s, path)
    BY <1>6, WriteFacts
  <2>2. /\ UNCHANGED <<phase, active>> /\ phase[t] = "live"
        /\ written' = [written EXCEPT ![t] = @ + 1]
    BY <2>1 DEF Wrote
  <2>3. \A u \in Turns : phase'[u] = "over" => written'[u] \in {0, 2, 4}
    BY <1>0, <1>1, <2>2
  <2>4. CASE inbox' = inbox
    BY <1>1, <2>2, <2>3, <2>4
  <2>5. CASE inbox' # inbox
    <3> DEFINE e == [kind |-> "entry", session |-> s, entry |-> item[t]]
    <3>1. inbox' = inbox \o <<e>> /\ active = t
      BY <2>1, <2>5 DEF Wrote, Told
    <3>2. e.kind = "entry"
      OBVIOUS
    <3> HIDE DEF e
    <3>3. \A k \in 1..Len(inbox') : inbox'[k] = e \/ (k \in 1..Len(inbox) /\ inbox'[k] = inbox[k])
      BY <1>0, <3>1
    <3>4. \A k \in 1..Len(inbox) : inbox[k].kind # "end"
      BY <1>1, <2>2, <3>1
    <3> QED BY <2>3, <3>2, <3>3, <3>4
  <2> QED BY <2>4, <2>5
<1>7. CASE Ends
  <2>1. PICK t \in Turns : TurnEnds(t)
    BY <1>7 DEF Ends
  <2>2. /\ phase[t] = "live" /\ written[t] \in {0, 2, 4} /\ (active = t => inbox = <<>>)
        /\ phase' = [phase EXCEPT ![t] = "over"] /\ Told(t, <<[kind |-> "end"]>>)
        /\ UNCHANGED <<active, written>>
    BY <2>1 DEF TurnEnds
  <2>3. \A u \in Turns : phase'[u] = "over" => written'[u] \in {0, 2, 4}
    BY <1>0, <1>1, <2>2
  <2>4. CASE active # t
    <3>1. inbox' = inbox /\ active' = active
      BY <2>2, <2>4 DEF Told
    <3>2. CASE active = None
      BY <2>3, <3>1, <3>2 DEF InboxIsOfTheTurn
    <3>3. CASE active \in Turns
      BY <1>0, <1>1, <2>2, <2>3, <2>4, <3>1, <3>3
    <3> QED BY <1>0, <3>2, <3>3
  <2>5. CASE active = t
    <3>1. inbox' = <<[kind |-> "end"]>>
      BY <2>2, <2>5 DEF Told
    <3>2. Len(inbox') = 1 /\ phase'[active'] = "over"
      BY <1>0, <2>2, <2>5, <3>1
    <3> QED BY <2>3, <3>2
  <2> QED BY <2>4, <2>5
<1>8. CASE Reset
  <2>1. inbox' = <<>> /\ phase' = Forgotten /\ UNCHANGED written
    BY <1>8 DEF Reset, ForgetWorker
  <2>2. preparing # None => written[preparing] = 0
    BY <1>0 DEF ObservationsAreNumbered, TurnsWrite
  <2> QED BY <1>0, <1>1, <2>1, <2>2 DEF Forgotten
<1>9. CASE InterruptPreparing
  <2>1. UNCHANGED <<active, inbox, written>> /\ phase' = Forgotten
    BY <1>9 DEF InterruptPreparing
  <2>2. preparing # None => written[preparing] = 0
    BY <1>0 DEF ObservationsAreNumbered, TurnsWrite
  <2>3. \A u \in Turns : phase[u] = "over" => phase'[u] = "over"
    BY <1>0, <2>1 DEF Forgotten
  <2>4. \A u \in Turns : phase'[u] = "over" => written'[u] \in {0, 2, 4}
    BY <1>0, <1>1, <2>1, <2>2 DEF Forgotten
  <2>5. active \notin Turns => inbox = <<>>
    BY <1>0 DEF InboxIsOfTheTurn
  <2> QED BY <1>0, <1>1, <2>1, <2>3, <2>4, <2>5
<1>10. CASE Prepares
  <2>1. PICK t \in Turns : PrepareTurn(t)
    BY <1>10 DEF Prepares
  <2>2. /\ UNCHANGED <<active, inbox, written>> /\ phase' = [phase EXCEPT ![t] = "waiting"]
        /\ active = None
    BY <2>1 DEF PrepareTurn, SubmitAllowed
  <2>3. inbox = <<>>
    BY <2>2 DEF InboxIsOfTheTurn
  <2> QED BY <1>0, <1>1, <2>2, <2>3
<1>11. CASE UNCHANGED <<active, inbox, written, phase>>
  BY <1>1, <1>11
<1>12. CASE Skips
  BY <1>11, <1>12 DEF Skips
<1> QED BY <1>3, <1>4, <1>5, <1>6, <1>7, <1>8, <1>9, <1>10, <1>11, <1>12, StartFacts
        DEF Frame, ActiveTouched, InboxTouched, PhaseTouched, PreparingTouched

LEMMA ComingFacts ==
  ASSUME NEW i \in Seq(TurnEvents), \A k \in 1..Len(i) : i[k].kind = "entry"
  PROVE  /\ ComingOf(i) \in Seq(Path) /\ Len(ComingOf(i)) = Len(i)
         /\ \A k \in 1..Len(i) : ComingOf(i)[k] = i[k].entry /\ i[k].entry \in Path
<1>1. \A k \in 1..Len(i) : i[k].entry \in Path
  BY DEF TurnEvents
<1>2. ComingOf(i) = [k \in 1..Len(i) |-> i[k].entry]
  <2>1. ~(i # <<>> /\ i[1].kind = "end")
    <3>1. i # <<>> => 1 \in 1..Len(i)
      OBVIOUS
    <3> QED BY <3>1
  <2> QED BY <2>1 DEF ComingOf
<1> QED BY <1>1, <1>2

(* The first event that is read is the next of the history. *)
LEMMA ComingRead ==
  ASSUME NEW i \in Seq(TurnEvents), i # <<>>, \A k \in 1..Len(i) : i[k].kind = "entry"
  PROVE  /\ i[1].entry \in Path /\ ComingOf(Tail(i)) \in Seq(Path)
         /\ ComingOf(i) = <<i[1].entry>> \o ComingOf(Tail(i))
<1> DEFINE r == Tail(i)  a == ComingOf(i)  b == ComingOf(r)  x == i[1].entry
<1>1. /\ r \in Seq(TurnEvents) /\ Len(i) \in Nat /\ Len(r) = Len(i) - 1 /\ 1 \in 1..Len(i)
      /\ \A k \in 1..Len(r) : r[k] = i[k + 1] /\ k + 1 \in 1..Len(i)
  OBVIOUS
<1> HIDE DEF r
<1>2. /\ a \in Seq(Path) /\ Len(a) = Len(i)
      /\ \A k \in 1..Len(i) : a[k] = i[k].entry /\ i[k].entry \in Path
  BY ComingFacts
<1>3. \A k \in 1..Len(r) : r[k].kind = "entry"
  BY <1>1
<1>4. /\ b \in Seq(Path) /\ Len(b) = Len(r)
      /\ \A k \in 1..Len(r) : b[k] = r[k].entry
  BY <1>1, <1>3, ComingFacts
<1>5. x \in Path /\ a[1] = x
  BY <1>1, <1>2
<1> HIDE DEF a, b, x
<1> DEFINE c == <<x>> \o b
<1>6. c \in Seq(Path) /\ Len(c) = Len(b) + 1 /\ c[1] = x /\ \A k \in 2..Len(c) : c[k] = b[k - 1]
  BY <1>4, <1>5
<1> HIDE DEF c
<1>7. \A k \in 2..Len(c) : k - 1 \in 1..Len(r) /\ b[k - 1] = a[k]
  <2> SUFFICES ASSUME NEW k \in 2..Len(c) PROVE k - 1 \in 1..Len(r) /\ b[k - 1] = a[k]
    OBVIOUS
  <2>1. k - 1 \in 1..Len(r) /\ k \in 1..Len(i)
    BY <1>1, <1>4, <1>6
  <2>2. r[k - 1] = i[k]
    BY <1>1, <2>1
  <2> QED BY <1>2, <1>4, <2>1, <2>2
<1>8. Len(a) = Len(c) /\ \A k \in 1..Len(a) : a[k] = c[k]
  BY <1>1, <1>2, <1>4, <1>5, <1>6, <1>7
<1>9. a = c
  BY <1>2, <1>6, <1>8
<1> QED BY <1>4, <1>5, <1>9 DEF a, b, c, r, x

LEMMA ComingMore ==
  ASSUME NEW i \in Seq(TurnEvents), \A k \in 1..Len(i) : i[k].kind = "entry",
         NEW e \in TurnEvents, e.kind = "entry"
  PROVE  ComingOf(i \o <<e>>) = Append(ComingOf(i), e.entry) /\ e.entry \in Path
<1> DEFINE m == i \o <<e>>  a == ComingOf(m)  b == ComingOf(i)  x == e.entry
<1>1. /\ m \in Seq(TurnEvents) /\ Len(i) \in Nat /\ Len(m) = Len(i) + 1 /\ m[Len(i) + 1] = e
      /\ \A k \in 1..Len(i) : m[k] = i[k]
  OBVIOUS
<1> HIDE DEF m
<1>2. \A k \in 1..Len(m) : m[k].kind = "entry"
  BY <1>1
<1>3. a \in Seq(Path) /\ Len(a) = Len(m) /\ \A k \in 1..Len(m) : a[k] = m[k].entry /\ m[k].entry \in Path
  BY <1>1, <1>2, ComingFacts
<1>4. b \in Seq(Path) /\ Len(b) = Len(i) /\ \A k \in 1..Len(i) : b[k] = i[k].entry
  BY ComingFacts
<1>5. x \in Path /\ a[Len(i) + 1] = x
  BY <1>1, <1>3
<1> HIDE DEF a, b, x
<1> DEFINE c == Append(b, x)
<1>6. c \in Seq(Path) /\ Len(c) = Len(b) + 1 /\ c[Len(b) + 1] = x /\ \A k \in 1..Len(b) : c[k] = b[k]
  BY <1>4, <1>5
<1> HIDE DEF c
<1>7. Len(a) = Len(c) /\ \A k \in 1..Len(a) : a[k] = c[k]
  <2>1. Len(a) = Len(i) + 1 /\ Len(b) = Len(i) /\ Len(c) = Len(i) + 1
    BY <1>1, <1>3, <1>4, <1>6
  <2>2. \A k \in 1..Len(i) : k \in 1..Len(m) /\ a[k] = m[k].entry /\ m[k] = i[k]
    BY <1>1, <1>3
  <2>3. \A k \in 1..Len(i) : a[k] = c[k]
    BY <1>4, <1>6, <2>1, <2>2
  <2>4. a[Len(i) + 1] = c[Len(i) + 1]
    BY <1>5, <1>6, <2>1
  <2> QED BY <1>1, <2>1, <2>3, <2>4
<1>8. a = c
  BY <1>3, <1>6, <1>7
<1> QED BY <1>5, <1>8 DEF a, b, c, m, x

LEMMA Regroup ==
  ASSUME NEW h \in Seq(Path), NEW c \in Seq(Path), NEW p \in Seq(Path), NEW x \in Path
  PROVE  /\ Append(h, x) \o c \o p = h \o (<<x>> \o c) \o p
         /\ h \o c \o <<x>> = Append(h \o c, x)
         /\ h \o Append(c, x) \o <<>> = Append(h \o c, x)
         /\ h \o c \o <<>> = h \o c
         /\ h \o <<>> \o <<>> = h
         /\ h \o c \in Seq(Path)
<1>1. Append(h, x) \o c \o p = h \o (<<x>> \o c) \o p
  <2>1. Append(h, x) \o c = h \o (<<x>> \o c)
    OBVIOUS
  <2> QED BY <2>1
<1>2. h \o c \o <<x>> = Append(h \o c, x)
  OBVIOUS
<1>3. h \o Append(c, x) \o <<>> = Append(h \o c, x)
  OBVIOUS
<1>4. h \o c \o <<>> = h \o c /\ h \o <<>> \o <<>> = h /\ h \o c \in Seq(Path)
  OBVIOUS
<1> QED BY <1>1, <1>2, <1>3, <1>4

LEMMA QuietFacts ==
  ASSUME Types, user = "waits", MayCommand
  PROVE  Idle /\ NoTurn
<1>1. Quiet /\ worker.queue \in Seq(Jobs) /\ worker.job \in Seq(Jobs)
  BY DEF MayCommand, Types, WorkerType
<1>2. worker.queue = <<>> /\ worker.job = <<>>
  BY <1>1 DEF Quiet
<1> QED BY <1>1, <1>2 DEF Quiet, Idle, At, NoTurn

LEMMA MovingFacts ==
  /\ Idle => ~Moving(worker)
  /\ \A c : Queued(c) \/ Doing(c) => (Moving(worker) <=> c.kind = "setLeaf")
  /\ \A e : Answered(e) => (Moving(worker) <=> e.result = "restored")
BY DEF Idle, Queued, Doing, Answered, At, Moving

LEMMA MovingNext ==
  ASSUME NEW q, NEW j, NEW e, Became(q, j, e)
  PROVE  /\ At(q, j, e)'
         /\ Moving(worker') <=> \/ q # <<>> /\ q[1].kind = "setLeaf"
                                \/ j # <<>> /\ j[1].kind = "setLeaf"
                                \/ e # <<>> /\ e[1].result = "restored"
BY DEF Became, At, Moving

(* Without a turn's event the history is what the next request carries. *)
LEMMA HistoryNow ==
  ASSUME Types, InboxIsOfTheTurn, InStep, Steady, active = None
  PROVE  conv.history = HistoryOf(leaf[conv.session]) /\ conv.session \in Sessions
<1>1. conv.history \in Seq(Path) /\ inbox = <<>> /\ conv.session \in Sessions
  BY DEF Types, InboxIsOfTheTurn, Steady, Here
<1>2. Coming = <<>> /\ Pend = <<>> /\ Here = conv.session
  BY <1>1 DEF Coming, ComingOf, Pend, Here
<1>3. conv.history \o <<>> \o <<>> = conv.history
  BY <1>1
<1> QED BY <1>1, <1>2, <1>3 DEF InStep

(* What the conversation is to be equal to is left alone. *)
SameLine == UNCHANGED <<conv, active, inbox, written, item, home, leaf>>

LEMMA InStepKept ==
  ASSUME InStep, SameLine, Steady' => Steady
  PROVE  InStep'
<1>1. Coming' = Coming /\ Pend' = Pend /\ Here' = Here
  BY DEF SameLine, Coming, ComingOf, Pend, Here
<1> QED BY <1>1 DEF InStep, SameLine

LEMMA SteadyKept ==
  ASSUME SameLine, unsaved => unsaved', Moving(worker) => Moving(worker') \/ unsaved'
  PROVE  Steady' => Steady
BY DEF SameLine, Steady, Here

(* The user sends a command: nothing else is under way. *)
LEMMA WaitSends ==
  ASSUME Types, Waits, user = "waits", Sends
  PROVE  Waits'
<1>1. PICK c \in Jobs : UserSends(c)
  BY DEF Sends
<1>2. /\ MayCommand /\ SendCommand(c) /\ ~c.loaded /\ c.kind # "setLeaf"
      /\ c.kind # "list" => active = None
      /\ SameLine /\ UNCHANGED <<phase, preparing, unsaved>>
  BY <1>1 DEF UserSends, CommandUnchanged, turnVars, storeVars, convVars, SameLine
<1>3. Idle /\ NoTurn /\ InStep /\ TurnsWait /\ ~Moving(worker)
  BY <1>2, QuietFacts, MovingFacts DEF Waits
<1>4. NoTurn' /\ TurnsWait'
  BY <1>2, <1>3 DEF NoTurn, TurnsWait, SameLine
<1>5. Sent(c)
  BY <1>2, SendFacts DEF Types
<1>6. InStep'
  BY <1>2, <1>3, InStepKept, SteadyKept
<1>7. CASE Became(worker.queue, worker.job, worker.events)
  <2>1. Idle'
    BY <1>3, <1>7 DEF Idle, At, Became
  <2> QED BY <1>4, <1>6, <2>1 DEF Waits, OneAtATime
<1>8. CASE Became(Append(worker.queue, c), worker.job, worker.events)
  <2>1. Append(<<>>, c) = <<c>>
    OBVIOUS
  <2>2. Queued(c)'
    BY <1>3, <1>8, <2>1 DEF Idle, Queued, At, Became
  <2>3. CommandWaits(c)'
    BY <1>2 DEF CommandWaits, SameLine
  <2> QED BY <1>2, <1>4, <1>6, <2>2, <2>3 DEF Waits, OneAtATime
<1> QED BY <1>5, <1>7, <1>8 DEF Sent

LEMMA WaitCuts ==
  ASSUME Types, InboxIsOfTheTurn, Waits, user = "waits", Cuts
  PROVE  Waits'
<1>1. PICK kept \in Seq(Path), c \in Jobs : CutTo(kept, c)
  BY CutFacts
<1>2. /\ MayCommand /\ SendCommand(c) /\ active = None /\ conv.session \in Sessions
      /\ c = Command("setLeaf", conv.session, LastEntry(kept))
      /\ conv' = [conv EXCEPT !.history = kept]
      /\ unsaved' = (unsaved \/ ~worker.alive)
      /\ UNCHANGED <<active, inbox, preparing, phase, leaf>>
  BY <1>1 DEF CutTo, MutationAllowed
<1>3. Idle /\ NoTurn /\ InStep /\ TurnsWait /\ ~Moving(worker)
  BY <1>2, QuietFacts, MovingFacts DEF Waits
<1>4. NoTurn' /\ TurnsWait'
  BY <1>2, <1>3 DEF NoTurn, TurnsWait
<1>5. Sent(c)
  BY <1>2, SendFacts DEF Types
<1>6. conv'.history = kept /\ conv'.session = conv.session
  BY <1>2 DEF Types
<1>7. c.kind = "setLeaf" /\ c.session = conv.session /\ c.path = LastEntry(kept) /\ ~c.loaded
  BY <1>2 DEF Command
<1>8. CASE ~worker.alive /\ Became(worker.queue, worker.job, worker.events)
  <2>1. Idle'
    BY <1>3, <1>8 DEF Idle, At, Became
  <2>2. InStep'
    BY <1>2, <1>8 DEF InStep, Steady
  <2> QED BY <1>4, <2>1, <2>2 DEF Waits, OneAtATime
<1>9. CASE worker.alive /\ Became(Append(worker.queue, c), worker.job, worker.events)
  <2>1. Append(<<>>, c) = <<c>>
    OBVIOUS
  <2>2. Queued(c)' /\ Moving(worker')
    BY <1>3, <1>7, <1>9, <2>1 DEF Idle, Queued, At, Became, Moving
  <2>3. ASSUME ~unsaved' PROVE conv'.history = HistoryOf(c.path)
    <3>1. Steady
      <4>1. unsaved \in BOOLEAN /\ None \notin Sessions
        BY DEF Types, None, Sessions
      <4>2. ~unsaved
        BY <1>2, <2>3, <4>1
      <4> QED BY <1>2, <1>3, <4>1, <4>2 DEF Steady, Here
    <3>2. conv.history = HistoryOf(leaf[conv.session])
      BY <1>2, <1>3, <3>1, HistoryNow
    <3> DEFINE p == leaf[conv.session]
    <3>3. p \in Path
      BY <1>2 DEF Types
    <3>4. PICK n \in 0..Len(conv.history) : kept = SubSeq(conv.history, 1, n)
      BY <1>1 DEF CutTo
    <3> HIDE DEF p
    <3>5. n \in 0..Len(HistoryOf(p)) /\ kept = SubSeq(HistoryOf(p), 1, n)
      BY <3>2, <3>4 DEF p
    <3>6. HistoryOf(LastEntry(SubSeq(HistoryOf(p), 1, n))) = SubSeq(HistoryOf(p), 1, n)
      BY <3>3, <3>5, HistoryKept
    <3> QED BY <1>6, <1>7, <3>5, <3>6
  <2>4. CommandWaits(c)'
    BY <1>2, <1>6, <1>7, <2>3 DEF CommandWaits
  <2>5. InStep'
    BY <2>2 DEF InStep, Steady
  <2> QED BY <1>4, <1>7, <2>2, <2>4, <2>5 DEF Waits, OneAtATime
<1> QED BY <1>5, <1>8, <1>9 DEF Sent

(* The worker takes the command that was sent. *)
LEMMA WaitTakes ==
  ASSUME Types, Waits, TakeCommand
  PROVE  Waits'
<1>0. SameLine /\ UNCHANGED <<phase, preparing, unsaved>> /\ InStep /\ TurnsWait
  BY DEF Waits, TakeCommand, WorkerUnchanged, SameLine, turnVars, storeVars, convVars
<1>1. /\ worker.queue # <<>>
      /\ Became(Tail(worker.queue), <<Head(worker.queue)>>, worker.events)
  BY TakeFacts DEF Types
<1>2. PICK c \in Jobs : NoTurn /\ Queued(c) /\ CommandWaits(c)
  BY <1>1 DEF Waits, OneAtATime, Idle, Doing, Answered, At
<1>3. Tail(<<c>>) = <<>> /\ Head(<<c>>) = c
  OBVIOUS
<1>4. Became(<<>>, <<c>>, <<>>)
  BY <1>1, <1>2, <1>3 DEF Queued, At
<1>5. Doing(c)' /\ (Moving(worker') <=> c.kind = "setLeaf")
  BY <1>4 DEF Became, Doing, At, Moving
<1>6. CommandWaits(c)' /\ NoTurn' /\ TurnsWait'
  BY <1>0, <1>2 DEF CommandWaits, SameLine, NoTurn, TurnsWait
<1>7. InStep'
  BY <1>0, <1>2, <1>5, MovingFacts, InStepKept, SteadyKept
<1> QED BY <1>5, <1>6, <1>7 DEF Waits, OneAtATime

(* The command in progress. *)
LEMMA AtWork ==
  ASSUME Types, Waits, worker.job # <<>>
  PROVE  /\ Job \in Jobs /\ NoTurn /\ Doing(Job) /\ CommandWaits(Job)
         /\ worker.queue = <<>> /\ worker.events = <<>>
         /\ Moving(worker) <=> Job.kind = "setLeaf"
<1>1. PICK c \in Jobs : NoTurn /\ Doing(c) /\ CommandWaits(c)
  BY DEF Waits, OneAtATime, Idle, Queued, Answered, At
<1>2. Job = c
  BY <1>1 DEF Doing, At, Job
<1> QED BY <1>1, <1>2, MovingFacts DEF Doing, At

LEMMA WaitAnswers ==
  ASSUME Types, Waits, AnswersOne
  PROVE  Waits'
<1>1. PICK result \in {"rows", "noop", "restored", "failed"}, history \in Seq(Path) :
        Answers(result, history)
  BY DEF AnswersOne
<1>2. /\ worker.job # <<>> /\ Finish(result, history)
      /\ result = "restored" => Job.kind = "resume" /\ history = HistoryOf(leaf[Job.session])
      /\ unsaved' = (unsaved \/ Job.kind = "setLeaf")
      /\ SameLine /\ UNCHANGED <<phase, preparing>> /\ InStep /\ TurnsWait
  BY <1>1 DEF Answers, Waits, WorkerUnchanged, SameLine, turnVars, storeVars, convVars
<1>3. /\ NoTurn /\ CommandWaits(Job) /\ worker.queue = <<>> /\ worker.events = <<>>
      /\ Moving(worker) <=> Job.kind = "setLeaf"
  BY <1>2, AtWork
<1>4. PICK e \in Results : /\ e = Event(result, history)
                           /\ Became(worker.queue, <<>>, Append(worker.events, e))
  BY <1>2, FinishFacts DEF Types
<1>5. e.result = result /\ e.session = Job.session /\ e.history = history
  BY <1>4 DEF Event
<1>6. Append(<<>>, e) = <<e>>
  OBVIOUS
<1>7. Answered(e)'
  BY <1>3, <1>4, <1>6 DEF Became, Answered, At
<1>8. AnswerWaits(e)' /\ NoTurn' /\ TurnsWait'
  BY <1>2, <1>3, <1>5 DEF AnswerWaits, CommandWaits, SameLine, NoTurn, TurnsWait
<1>9. InStep'
  BY <1>2, <1>3, InStepKept, SteadyKept
<1> QED BY <1>4, <1>7, <1>8, <1>9 DEF Waits, OneAtATime

LEMMA WaitLoads ==
  ASSUME Types, TreesGrow, CommandsAreOfTheStore, Waits, LoadTarget
  PROVE  Waits'
<1>1. PICK path \in Path : Aims(path)
  BY TargetFacts
<1>2. /\ worker.job # <<>> /\ Job \in Jobs /\ Job.kind \in {"switch", "rewind"} /\ Loaded(path)
      /\ SameLine /\ UNCHANGED <<phase, preparing, unsaved>> /\ InStep /\ TurnsWait
  BY <1>1 DEF Aims, LoadTarget, Waits, WorkerUnchanged, SameLine, turnVars, storeVars, convVars
<1>3. /\ NoTurn /\ CommandWaits(Job) /\ worker.queue = <<>> /\ worker.events = <<>>
      /\ Moving(worker) <=> Job.kind = "setLeaf"
  BY <1>2, AtWork
<1>4. PICK r \in Jobs : r = Ready(path) /\ Became(worker.queue, <<r>>, worker.events)
  BY <1>2, LoadedFacts DEF Types
<1>5. r.kind = Job.kind /\ r.loaded /\ r.path = path /\ r.history = HistoryOf(path)
  BY <1>2, <1>4 DEF Ready, Jobs
<1>6. Doing(r)'
  BY <1>3, <1>4 DEF Became, Doing, At
<1>7. CommandWaits(r)' /\ NoTurn' /\ TurnsWait'
  BY <1>2, <1>3, <1>5 DEF CommandWaits, SameLine, NoTurn, TurnsWait
<1>8. InStep'
  BY <1>2, <1>3, InStepKept, SteadyKept
<1> QED BY <1>4, <1>6, <1>7, <1>8 DEF Waits, OneAtATime

LEMMA WaitMoves ==
  ASSUME Types, InboxIsOfTheTurn, CommandsAreOfTheStore, Waits, MoveLeaf
  PROVE  Waits'
<1>1. Moved
  BY MoveFacts
<1>2. /\ worker.job # <<>> /\ Job \in Jobs /\ Job.kind # "list" /\ Job.session \in Sessions
      /\ Job.history \in Seq(Path)
      /\ leaf' = [leaf EXCEPT ![Job.session] = Job.path]
      /\ \/ Job.kind = "setLeaf" /\ Finish("noop", <<>>)
         \/ Job.kind # "setLeaf" /\ Job.loaded /\ Finish("restored", Job.history)
  BY <1>1 DEF Moved
<1>3. /\ UNCHANGED <<conv, active, inbox, written, item, home, phase, preparing, unsaved>>
      /\ InStep /\ TurnsWait
  BY DEF MoveLeaf, Waits, WorkerUnchanged, turnVars, convVars
<1>4. /\ NoTurn /\ CommandWaits(Job) /\ worker.queue = <<>> /\ worker.events = <<>>
  BY <1>2, AtWork
<1>5. active = None /\ inbox = <<>>
  BY <1>2, <1>4 DEF CommandWaits, InboxIsOfTheTurn
<1>6. leaf'[Job.session] = Job.path
  BY <1>2 DEF Types
<1>7. NoTurn' /\ TurnsWait'
  BY <1>3, <1>4 DEF NoTurn, TurnsWait
<1>8. CASE Job.kind = "setLeaf" /\ Finish("noop", <<>>)
  <2> DEFINE none == <<>>
  <2>1. none \in Seq(Path) /\ Finish("noop", none) /\ "noop" \in {"rows", "noop", "restored", "failed"}
    BY <1>8
  <2> HIDE DEF none
  <2>2. PICK e \in Results : /\ e = Event("noop", none)
                             /\ Became(worker.queue, <<>>, Append(worker.events, e))
    BY <1>2, <2>1, FinishFacts DEF Types
  <2>3. e.result = "noop"
    BY <2>2 DEF Event
  <2>4. Append(<<>>, e) = <<e>>
    OBVIOUS
  <2>5. Answered(e)' /\ AnswerWaits(e)'
    BY <1>4, <2>2, <2>3, <2>4 DEF Became, Answered, At, AnswerWaits
  <2>6. ASSUME Steady' PROVE conv'.history = HistoryOf(leaf'[conv'.session])
    BY <1>3, <1>4, <1>6, <1>8, <2>6 DEF Steady, CommandWaits
  <2>7. InStep'
    <3>1. Coming' = <<>> /\ Pend' = <<>> /\ Here' = conv'.session
      BY <1>3, <1>5 DEF Coming, ComingOf, Pend, Here
    <3>2. conv'.history \o <<>> \o <<>> = conv'.history
      BY <1>3, Regroup DEF Types
    <3> QED BY <2>6, <3>1, <3>2 DEF InStep
  <2> QED BY <1>7, <2>2, <2>5, <2>7 DEF Waits, OneAtATime
<1>9. CASE Job.kind # "setLeaf" /\ Job.loaded /\ Finish("restored", Job.history)
  <2> DEFINE h == Job.history
  <2>1. h \in Seq(Path) /\ Finish("restored", h) /\ "restored" \in {"rows", "noop", "restored", "failed"}
    BY <1>2, <1>9
  <2>2. h = HistoryOf(Job.path)
    BY <1>4, <1>9 DEF CommandWaits
  <2> HIDE DEF h
  <2>3. PICK e \in Results : /\ e = Event("restored", h)
                             /\ Became(worker.queue, <<>>, Append(worker.events, e))
    BY <1>2, <2>1, FinishFacts DEF Types
  <2>4. e.result = "restored" /\ e.session = Job.session /\ e.history = h
    BY <2>3 DEF Event
  <2>5. Append(<<>>, e) = <<e>>
    OBVIOUS
  <2>6. Answered(e)' /\ Moving(worker')
    BY <1>4, <2>3, <2>4, <2>5 DEF Became, Answered, At, Moving
  <2>7. AnswerWaits(e)'
    BY <1>3, <1>5, <1>6, <2>2, <2>4 DEF AnswerWaits
  <2>8. InStep'
    BY <2>6 DEF InStep, Steady
  <2> QED BY <1>7, <2>3, <2>6, <2>7, <2>8 DEF Waits, OneAtATime
<1> QED BY <1>2, <1>8, <1>9

LEMMA WaitDies ==
  ASSUME Types, Waits, WorkerDies
  PROVE  Waits'
<1>1. /\ worker.job # <<>> /\ Became(<<>>, <<>>, worker.events)
  BY DieFacts DEF Types
<1>2. /\ unsaved' = (unsaved \/ \E c \in ToSet(worker.queue \o worker.job) : c.kind = "setLeaf")
      /\ SameLine /\ UNCHANGED <<phase, preparing>> /\ InStep /\ TurnsWait
  BY DEF WorkerDies, Waits, WorkerUnchanged, SameLine, turnVars, storeVars, convVars
<1>3. /\ NoTurn /\ Doing(Job) /\ worker.queue = <<>> /\ worker.events = <<>>
      /\ Moving(worker) <=> Job.kind = "setLeaf"
  BY <1>1, AtWork
<1>4. Job \in ToSet(worker.queue \o worker.job)
  <2>1. worker.job = <<Job>> /\ worker.queue = <<>>
    BY <1>3 DEF Doing, At
  <2>2. <<>> \o <<Job>> = <<Job>>
    OBVIOUS
  <2>3. Job \in ToSet(<<Job>>)
    BY DEF ToSet
  <2> QED BY <2>1, <2>2, <2>3
<1>5. Idle'
  BY <1>1, <1>3 DEF Became, Idle, At
<1>6. TurnsWait'
  BY <1>2 DEF SameLine, TurnsWait
<1>7. InStep'
  BY <1>2, <1>3, <1>4, InStepKept, SteadyKept
<1> QED BY <1>5, <1>6, <1>7 DEF Waits, OneAtATime

(* The answer that is read. *)
LEMMA AnswerAt ==
  ASSUME Types, Waits, worker.events # <<>>
  PROVE  \E e \in Results :
           /\ NoTurn /\ Answered(e) /\ AnswerWaits(e) /\ worker.queue = <<>> /\ worker.job = <<>>
           /\ e = worker.events[1] /\ e = Head(worker.events) /\ Tail(worker.events) = <<>>
<1>1. PICK e \in Results : NoTurn /\ Answered(e) /\ AnswerWaits(e)
  BY DEF Waits, OneAtATime, Idle, Queued, Doing, At
<1>2. <<e>>[1] = e /\ Head(<<e>>) = e /\ Tail(<<e>>) = <<>>
  OBVIOUS
<1> QED BY <1>1, <1>2 DEF Answered, At

LEMMA WaitRestored ==
  ASSUME Types, CommandsAreOfTheStore, Waits, DrainRestored
  PROVE  Waits'
<1>1. PICK e \in Results :
        /\ worker.events # <<>> /\ e = worker.events[1] /\ e.result = "restored"
        /\ e.session \in Sessions /\ e.history \in Seq(Path)
        /\ conv' = [session |-> e.session, history |-> e.history]
        /\ Became(worker.queue, worker.job, Tail(worker.events))
        /\ active' = None /\ inbox' = <<>>
  BY AnswerFacts
<1>2. /\ NoTurn /\ AnswerWaits(e) /\ worker.queue = <<>> /\ worker.job = <<>>
      /\ Tail(worker.events) = <<>>
  BY <1>1, AnswerAt
<1>3. UNCHANGED <<preparing, phase, leaf>>
  BY DEF DrainRestored, storeVars
<1>4. Idle'
  BY <1>1, <1>2 DEF Became, Idle, At
<1>5. TurnsWait'
  BY <1>1, <1>2, <1>3 DEF NoTurn, TurnsWait
<1>6. conv'.history = HistoryOf(leaf'[conv'.session]) /\ conv'.history \in Seq(Path)
  BY <1>1, <1>2, <1>3 DEF AnswerWaits
<1>7. Coming' = <<>> /\ Pend' = <<>> /\ Here' = conv'.session
  BY <1>1 DEF Coming, ComingOf, Pend, Here
<1>8. conv'.history \o <<>> \o <<>> = conv'.history
  BY <1>6, Regroup
<1> QED BY <1>4, <1>5, <1>6, <1>7, <1>8 DEF Waits, OneAtATime, InStep

LEMMA WaitReads ==
  ASSUME Types, Waits, DrainAnswer
  PROVE  Waits'
<1>1. /\ worker.events # <<>> /\ Head(worker.events).result # "restored"
      /\ Counted(Head(worker.events))
      /\ SameLine /\ UNCHANGED <<phase, preparing, unsaved>> /\ InStep /\ TurnsWait
  BY DEF DrainAnswer, Waits, WorkerUnchanged, SameLine, turnVars, storeVars, convVars
<1>2. PICK e \in Results : /\ Answered(e) /\ e = Head(worker.events)
                           /\ worker.queue = <<>> /\ worker.job = <<>> /\ Tail(worker.events) = <<>>
  BY <1>1, AnswerAt
<1>3. Became(worker.queue, worker.job, Tail(worker.events))
  BY <1>1, CountedFacts DEF Types
<1>4. Idle' /\ TurnsWait'
  BY <1>1, <1>2, <1>3 DEF Became, Idle, At, SameLine, TurnsWait
<1>5. InStep'
  BY <1>1, <1>2, MovingFacts, InStepKept, SteadyKept
<1> QED BY <1>4, <1>5 DEF Waits, OneAtATime

(* The worker's queue, its command and its answers are left alone. *)
SameWork == worker'.queue = worker.queue /\ worker'.job = worker.job /\ worker'.events = worker.events

LEMMA WaitIsIdle ==
  ASSUME Idle, SameWork
  PROVE  Idle' /\ ~Moving(worker) /\ ~Moving(worker')
BY DEF Idle, At, SameWork, Moving

LEMMA WaitRests ==
  ASSUME Waits, SameWork, SameLine, UNCHANGED <<phase, preparing, unsaved>>
  PROVE  Waits'
<1>1. OneAtATime'
  <2>1. NoTurn => NoTurn'
    BY DEF NoTurn
  <2>2. \A c \in Jobs : (Queued(c) => Queued(c)') /\ (Doing(c) => Doing(c)')
                        /\ (CommandWaits(c) => CommandWaits(c)')
    BY DEF Queued, Doing, At, SameWork, CommandWaits, SameLine
  <2>3. \A e \in Results : (Answered(e) => Answered(e)') /\ (AnswerWaits(e) => AnswerWaits(e)')
    BY DEF Answered, At, SameWork, AnswerWaits, SameLine
  <2>4. Idle => Idle'
    BY DEF Idle, At, SameWork
  <2> QED BY <2>1, <2>2, <2>3, <2>4 DEF Waits, OneAtATime
<1>2. TurnsWait'
  BY DEF Waits, TurnsWait, SameLine
<1>3. InStep'
  BY InStepKept, SteadyKept DEF Waits, SameWork, Moving
<1> QED BY <1>1, <1>2, <1>3 DEF Waits

LEMMA WaitStops ==
  ASSUME Types, Waits, DrainStopped
  PROVE  Waits'
<1>1. SameWork
  BY StoppedFacts DEF Types, Became, SameWork
<1>2. SameLine /\ UNCHANGED <<phase, preparing, unsaved>>
  BY DEF DrainStopped, WorkerUnchanged, SameLine, turnVars, storeVars, convVars
<1> QED BY <1>1, <1>2, WaitRests

LEMMA WaitResets ==
  ASSUME Types, Waits, user = "waits", Reset
  PROVE  Waits'
<1>1. /\ MayCommand /\ active' = None /\ conv' = Fresh /\ preparing' = None
      /\ phase' = Forgotten /\ SameWork
  BY DEF Reset, ForgetWorker, SameWork
<1>2. Idle /\ NoTurn
  BY <1>1, QuietFacts
<1>3. Idle' /\ TurnsWait'
  BY <1>1, <1>2, WaitIsIdle DEF NoTurn, Forgotten, TurnsWait
<1>4. InStep'
  BY <1>1 DEF InStep, Steady, Here, Fresh
<1> QED BY <1>3, <1>4 DEF Waits, OneAtATime

(* No command is under way while a turn is awaited or lives. *)
LEMMA TurnIsAlone ==
  ASSUME Waits, ~NoTurn
  PROVE  Idle /\ ~Moving(worker)
BY MovingFacts DEF Waits, OneAtATime

LEMMA WaitStarts ==
  ASSUME Types, TurnsWrite, InboxIsOfTheTurn, Waits, user = "waits", Starts
  PROVE  Waits'
<1>1. PICK t \in Turns : Begun(t) /\ (AtOnce(t) \/ Awaited(t))
  BY DEF Starts
<1>2. /\ active' = t /\ inbox' = <<>> /\ preparing' = None
      /\ phase' = [phase EXCEPT ![t] = "live"] /\ home' = [home EXCEPT ![t] = conv.session]
      /\ UNCHANGED <<conv, written, item, leaf, unsaved, worker>>
  BY <1>1 DEF Begun
<1>0. /\ phase \in [Turns -> {"new", "waiting", "live", "over"}] /\ home \in [Turns -> Sessions \cup {None}]
      /\ None \notin Turns /\ InStep /\ TurnsWait
  BY DEF Types, None, Turns, Waits
<1>3. Idle /\ ~Moving(worker) /\ active = None
  <2>1. CASE AtOnce(t)
    BY <2>1, QuietFacts, MovingFacts DEF AtOnce
  <2>2. CASE Awaited(t)
    <3>1. preparing # None
      BY <1>0, <2>2 DEF Awaited
    <3> QED BY <1>0, <3>1, TurnIsAlone DEF NoTurn, TurnsWait
  <2> QED BY <1>1, <2>1, <2>2
<1>4. Idle' /\ ~Moving(worker')
  BY <1>2, <1>3 DEF Idle, At
<1>5. TurnsWait'
  BY <1>0, <1>2, <1>3 DEF TurnsWait
<1>6. written[t] = 0
  BY <1>1 DEF TurnsWrite, AtOnce, Awaited
<1>7. InStep'
  <2> SUFFICES ASSUME Steady' PROVE conv'.history \o Coming' \o Pend' = HistoryOf(leaf'[Here'])
    BY DEF InStep
  <2>1. Coming' = <<>> /\ Pend' = <<>> /\ Here' = conv.session
    BY <1>0, <1>2, <1>6 DEF Coming, ComingOf, Pend, Here
  <2>2. Steady
    BY <1>2, <1>3, <2>1 DEF Steady, Here
  <2>3. conv.history = HistoryOf(leaf[conv.session])
    BY <1>0, <1>3, <2>2, HistoryNow
  <2>4. conv.history \o <<>> \o <<>> = conv.history
    BY Regroup DEF Types
  <2> QED BY <1>2, <2>1, <2>3, <2>4
<1> QED BY <1>4, <1>5, <1>7 DEF Waits, OneAtATime

(* A turn is prepared, or given up before it started. *)
LEMMA WaitPrepares ==
  ASSUME Types, Waits, user = "waits", Prepares \/ InterruptPreparing
  PROVE  Waits'
<1>0. /\ phase \in [Turns -> {"new", "waiting", "live", "over"}] /\ InStep /\ TurnsWait
  BY DEF Types, Waits
<1>1. SameLine /\ UNCHANGED <<unsaved, worker>>
  BY DEF Prepares, PrepareTurn, InterruptPreparing, SameLine, convVars, storeVars
<1>2. Idle
  <2>1. CASE Prepares
    BY <2>1, QuietFacts DEF Prepares, PrepareTurn, SubmitAllowed
  <2>2. CASE InterruptPreparing
    BY <2>2, TurnIsAlone DEF InterruptPreparing, NoTurn
  <2> QED BY <2>1, <2>2
<1>3. Idle'
  BY <1>1, <1>2 DEF Idle, At
<1>4. TurnsWait'
  <2>1. CASE Prepares
    BY <1>0, <2>1 DEF Prepares, PrepareTurn, SubmitAllowed, TurnsWait
  <2>2. CASE InterruptPreparing
    BY <1>0, <2>2 DEF InterruptPreparing, Forgotten, TurnsWait
  <2> QED BY <2>1, <2>2
<1>5. InStep'
  BY <1>0, <1>1, InStepKept, SteadyKept
<1> QED BY <1>3, <1>4, <1>5 DEF Waits, OneAtATime

(* The turn's report is read. *)
LEMMA WaitHears ==
  ASSUME Types, ConversationIsStored, InboxIsOfTheTurn, CommandsAreOfTheStore, EndIsLast, Waits, DrainTurn
  PROVE  Waits'
<1>1. PICK e \in TurnEvents : Heard(e)
  BY HearFacts
<1>2. /\ e = inbox[1] /\ active # None /\ inbox # <<>>
      /\ \/ e.kind = "end" /\ active' = None /\ inbox' = <<>> /\ UNCHANGED conv
         \/ /\ e.kind = "entry" /\ e.session \in Sessions /\ e.entry \in Path
            /\ conv' = [session |-> e.session, history |-> Append(conv.history, e.entry)]
            /\ inbox' = Tail(inbox) /\ UNCHANGED active
      /\ UNCHANGED <<preparing, written, item, phase, home, leaf, worker, unsaved>>
  BY <1>1 DEF Heard
<1>0. /\ inbox \in Seq(TurnEvents) /\ conv.history \in Seq(Path) /\ active \in Turns
      /\ 1 \in 1..Len(inbox) /\ item \in [Turns -> Path]
  BY <1>2 DEF Types
<1>3. OneAtATime'
  <2>1. NoTurn => NoTurn'
    BY <1>2 DEF NoTurn
  <2>2. \A c \in Jobs : (Queued(c) => Queued(c)') /\ (Doing(c) => Doing(c)')
                        /\ (CommandWaits(c) => CommandWaits(c)')
    BY <1>2 DEF Queued, Doing, At, CommandWaits
  <2>3. \A a \in Results : (Answered(a) => Answered(a)') /\ (AnswerWaits(a) => AnswerWaits(a)')
    BY <1>2 DEF Answered, At, AnswerWaits
  <2>4. Idle => Idle'
    BY <1>2 DEF Idle, At
  <2> QED BY <2>1, <2>2, <2>3, <2>4 DEF Waits, OneAtATime
<1>4. TurnsWait'
  <2>1. CASE e.kind = "end"
    <3>1. phase[active] = "over"
      BY <1>0, <1>2, <2>1 DEF EndIsLast
    <3> QED BY <1>2, <2>1, <3>1 DEF Waits, TurnsWait
  <2>2. CASE e.kind # "end"
    BY <1>2, <2>2 DEF Waits, TurnsWait
  <2> QED BY <2>1, <2>2
<1>5. InStep /\ conv.session \in {home[active], None} /\ Here = home[active]
  BY <1>2 DEF Waits, InboxIsOfTheTurn, Here
<1>6. SUFFICES ASSUME Steady' PROVE conv'.history \o Coming' \o Pend' = HistoryOf(leaf'[Here'])
  BY <1>3, <1>4 DEF Waits, InStep
<1>7. ~unsaved /\ ~Moving(worker) /\ Here' # None
  BY <1>2, <1>6 DEF Steady
<1>8. CASE e.kind = "end"
  <2>1. active' = None /\ inbox' = <<>> /\ conv' = conv
    BY <1>2, <1>8
  <2>2. phase[active] = "over" /\ written[active] \notin {1, 3}
    BY <1>0, <1>2, <1>8 DEF EndIsLast
  <2>3. Coming = <<>> /\ Pend = <<>> /\ Coming' = <<>> /\ Pend' = <<>>
    BY <1>2, <1>8, <2>1, <2>2 DEF Coming, ComingOf, Pend
  <2>4. Here' = conv.session /\ Here = conv.session
    BY <1>5, <1>7, <2>1 DEF Here
  <2>5. Steady
    BY <1>7, <2>4 DEF Steady
  <2> QED BY <1>2, <1>5, <2>1, <2>3, <2>4, <2>5 DEF InStep
<1>9. CASE e.kind # "end"
  <2>1. /\ e.kind = "entry" /\ e.entry \in Path
        /\ conv'.history = Append(conv.history, e.entry) /\ inbox' = Tail(inbox) /\ active' = active
    BY <1>2, <1>9
  <2>2. \A k \in 1..Len(inbox) : inbox[k].kind = "entry"
    <3> SUFFICES ASSUME NEW k \in 1..Len(inbox), inbox[k].kind # "entry" PROVE FALSE
      OBVIOUS
    <3>1. inbox[k].kind = "end"
      BY <1>0 DEF TurnEvents
    <3>2. Len(inbox) = 1
      BY <3>1 DEF EndIsLast
    <3>3. k = 1
      BY <3>2
    <3> QED BY <1>2, <1>9, <3>1, <3>3
  <2> DEFINE h == conv.history  x == e.entry  c == ComingOf(Tail(inbox))
  <2>3. c \in Seq(Path) /\ Coming = <<x>> \o c /\ Coming' = c
    BY <1>0, <1>2, <2>1, <2>2, ComingRead DEF Coming
  <2>4. Pend' = Pend /\ Pend \in Seq(Path)
    <3>1. <<item[active]>> \in Seq(Path)
      BY <1>0
    <3> QED BY <1>2, <2>1, <3>1 DEF Pend
  <2>5. Here' = Here
    BY <1>2, <2>1 DEF Here
  <2>6. h \o Coming \o Pend = HistoryOf(leaf[Here])
    BY <1>5, <1>7, <2>5 DEF InStep, Steady
  <2>7. h \in Seq(Path) /\ x \in Path
    BY <1>0, <2>1
  <2> HIDE DEF h, x, c
  <2>8. Append(h, x) \o c \o Pend = h \o (<<x>> \o c) \o Pend
    BY <2>3, <2>4, <2>7, Regroup
  <2> QED BY <1>2, <2>1, <2>3, <2>4, <2>5, <2>6, <2>8 DEF h, x
<1> QED BY <1>8, <1>9


(* The turn is the active one, it reports entries only, and with them and the
   item it has not reported yet the conversation is what the session holds.  *)
LEMMA BeforeWrite ==
  ASSUME Types, TreesGrow, ConversationIsStored, TurnsWrite, InboxIsOfTheTurn, SessionsAreStored, EndIsLast,
         Waits, ~unsaved, NEW t \in Turns, phase[t] = "live", written[t] \in 0..3,
         NEW s \in Sessions, s = IF home[t] = None THEN t ELSE home[t]
  PROVE  /\ active = t /\ ~Moving(worker) /\ Idle
         /\ \A k \in 1..Len(inbox) : inbox[k].kind = "entry"
         /\ conv.history \o Coming \o Pend = HistoryOf(leaf[s])
<1>0. /\ inbox \in Seq(TurnEvents) /\ home \in [Turns -> Sessions \cup {None}]
      /\ None \notin Sessions /\ None \notin Turns /\ conv.history \in Seq(Path)
  BY BoundsAssumption DEF Types, None, Sessions, Turns
<1>1. ~NoTurn
  BY DEF NoTurn
<1>2. active = t /\ InStep /\ Idle /\ ~Moving(worker)
  BY <1>1, TurnIsAlone DEF Waits, TurnsWait
<1>3. ASSUME NEW k \in 1..Len(inbox) PROVE inbox[k].kind = "entry"
  <2>1. inbox[k].kind # "end"
    BY <1>2 DEF EndIsLast
  <2>2. inbox[k] \in TurnEvents
    BY <1>0
  <2> QED BY <2>1, <2>2 DEF TurnEvents
<1>4. CASE home[t] # None
  <2>1. Here = s /\ s # None
    BY <1>0, <1>2, <1>4 DEF Here
  <2>2. Steady
    BY <1>2, <2>1 DEF Steady
  <2> QED BY <1>2, <1>3, <2>1, <2>2 DEF InStep
<1>5. CASE home[t] = None
  <2>1. written[t] = 0
    BY <1>5 DEF TurnsWrite
  <2>2. s = t /\ tree[s] = {}
    BY <1>5, <2>1 DEF SessionsAreStored
  <2>3. leaf[s] = <<>>
    BY <2>2 DEF TreesGrow, Within
  <2>4. conv.session = None
    BY <1>0, <1>2, <1>5 DEF InboxIsOfTheTurn
  <2>5. conv.history = <<>>
    BY <2>4 DEF ConversationIsStored
  <2>6. inbox = <<>>
    <3> SUFFICES ASSUME inbox # <<>> PROVE FALSE
      OBVIOUS
    <3>1. 1 \in 1..Len(inbox)
      BY <1>0
    <3>2. inbox[1].kind = "entry" /\ inbox[1] \in TurnEvents
      BY <1>0, <1>3, <3>1
    <3>3. inbox[1].session \in Sessions
      BY <3>2 DEF TurnEvents
    <3>4. inbox[1].session = home[t]
      BY <1>0, <1>2, <3>1, <3>2 DEF InboxIsOfTheTurn, Report
    <3> QED BY <1>0, <1>5, <3>3, <3>4
  <2>7. Coming = <<>> /\ Pend = <<>>
    BY <1>2, <2>1, <2>6 DEF Coming, ComingOf, Pend
  <2>8. <<>> \o <<>> \o <<>> = <<>>
    OBVIOUS
  <2> QED BY <1>2, <1>3, <2>3, <2>5, <2>7, <2>8, HistoryOfNothing
<1> QED BY <1>4, <1>5

(* The turn writes an entry. *)
LEMMA WaitWrites ==
  ASSUME Types, TreesGrow, ConversationIsStored, TurnsWrite, InboxIsOfTheTurn, SessionsAreStored, EndIsLast,
         Waits, Writes
  PROVE  Waits'
<1>1. PICK t \in Turns, s \in Sessions, path \in Path : Wrote(t, s, path)
  BY WriteFacts
<1>2. /\ phase[t] = "live" /\ written[t] \in 0..3 /\ s = (IF home[t] = None THEN t ELSE home[t])
      /\ path = Append(leaf[s], Entry(t, written[t] + 1)) /\ Last(path) = Entry(t, written[t] + 1)
      /\ IsItem(path) <=> written[t] \in {0, 2}
      /\ leaf' = [leaf EXCEPT ![s] = path] /\ home' = [home EXCEPT ![t] = s]
      /\ written' = [written EXCEPT ![t] = @ + 1]
      /\ UNCHANGED <<conv, active, preparing, phase, worker, unsaved>>
  BY <1>1 DEF Wrote
<1>3. \/ IsItem(path) /\ item' = [item EXCEPT ![t] = path] /\ inbox' = inbox
      \/ ~IsItem(path) /\ item' = item
         /\ Told(t, <<[kind |-> "entry", session |-> s, entry |-> item[t]]>>)
  BY <1>1 DEF Wrote
<1>0. /\ inbox \in Seq(TurnEvents) /\ conv.history \in Seq(Path) /\ item \in [Turns -> Path]
      /\ leaf[s] \in Path /\ leaf'[s] = path /\ home'[t] = s /\ written'[t] = written[t] + 1
      /\ None \notin Turns /\ path # <<>>
  <2>1. /\ inbox \in Seq(TurnEvents) /\ conv.history \in Seq(Path) /\ item \in [Turns -> Path]
        /\ leaf \in [Sessions -> Path] /\ home \in [Turns -> Sessions \cup {None}]
        /\ written \in [Turns -> 0..4]
    BY DEF Types
  <2>2. leaf[s] \in Path /\ leaf'[s] = path /\ home'[t] = s /\ written'[t] = written[t] + 1
    BY <1>2, <2>1
  <2>3. None \notin Turns /\ path # <<>>
    BY <1>1 DEF None, Turns, Wrote
  <2> QED BY <2>1, <2>2, <2>3
<1>4. Idle /\ TurnsWait
  BY <1>2, TurnIsAlone DEF NoTurn, Waits
<1>5. Idle' /\ TurnsWait'
  BY <1>2, <1>4 DEF Idle, At, TurnsWait
<1>6. SUFFICES ASSUME Steady' PROVE conv'.history \o Coming' \o Pend' = HistoryOf(leaf'[Here'])
  BY <1>5 DEF Waits, OneAtATime, InStep
<1>7. ~unsaved
  BY <1>2, <1>6 DEF Steady
<1>8. /\ active = t /\ \A k \in 1..Len(inbox) : inbox[k].kind = "entry"
      /\ conv.history \o Coming \o Pend = HistoryOf(leaf[s])
  BY <1>2, <1>7, BeforeWrite
<1>9. Here' = s /\ Coming \in Seq(Path) /\ Coming = ComingOf(inbox)
  BY <1>0, <1>2, <1>8, ComingFacts DEF Here, Coming
<1>10. /\ Entry(t, written[t] + 1) \in Entries
       /\ Entry(t, written[t] + 1).kind \in Items <=> IsItem(path)
  <2>1. written[t] + 1 \in 1..4
    BY <1>2
  <2> QED BY <1>2, <2>1, EntryFacts
<1>11. HistoryOf(path) = IF IsItem(path) THEN Append(HistoryOf(leaf[s]), path) ELSE HistoryOf(leaf[s])
  BY <1>0, <1>2, <1>10, HistoryMore
<1>12. CASE IsItem(path)
  <2>1. Pend = <<>>
    <3>1. written[t] \in {0, 2}
      BY <1>2, <1>12
    <3> QED BY <1>8, <3>1 DEF Pend
  <2>2. written'[t] \in {1, 3} /\ item'[t] = path
    BY <1>0, <1>2, <1>3, <1>12
  <2>3. Pend' = <<path>>
    BY <1>0, <1>2, <1>8, <2>2 DEF Pend
  <2>4. Coming' = Coming
    BY <1>3, <1>12 DEF Coming
  <2> DEFINE h == conv.history  c == Coming
  <2>5. h \in Seq(Path) /\ c \in Seq(Path)
    BY <1>0, <1>9
  <2>6. h \o c \o <<>> = HistoryOf(leaf[s])
    BY <1>8, <2>1
  <2> HIDE DEF h, c
  <2>7. h \o c \o <<path>> = Append(h \o c, path) /\ h \o c \o <<>> = h \o c
    BY <2>5, Regroup
  <2>8. h \o c \o <<path>> = HistoryOf(path)
    BY <1>11, <1>12, <2>6, <2>7
  <2>9. conv'.history \o Coming' \o Pend' = h \o c \o <<path>>
    BY <1>2, <2>3, <2>4 DEF h, c
  <2> QED BY <1>0, <1>9, <2>8, <2>9
<1>13. CASE ~IsItem(path)
  <2>0. written[t] \in {1, 3}
    BY <1>2, <1>13
  <2>1. Pend = <<item[t]>> /\ item[t] \in Path
    BY <1>0, <1>8, <2>0 DEF Pend
  <2>2. Pend' = <<>>
    BY <1>0, <1>2, <1>8, <2>0 DEF Pend
  <2> DEFINE h == conv.history  c == Coming  x == item[t]
             e == [kind |-> "entry", session |-> s, entry |-> item[t]]
  <2>3. inbox' = inbox \o <<e>> /\ e \in TurnEvents /\ e.kind = "entry" /\ e.entry = x
    BY <1>3, <1>8, <1>13, <2>1 DEF Told, TurnEvents
  <2>4. h \in Seq(Path) /\ c \in Seq(Path) /\ x \in Path
    BY <1>0, <1>9, <2>1
  <2>5. h \o c \o <<x>> = HistoryOf(leaf[s])
    BY <1>8, <2>1
  <2> HIDE DEF e
  <2>6. ComingOf(inbox \o <<e>>) = Append(ComingOf(inbox), e.entry)
    BY <1>0, <1>8, <2>3, ComingMore
  <2>7. Coming' = Append(c, x)
    BY <1>9, <2>3, <2>6 DEF Coming
  <2>8. conv'.history \o Coming' \o Pend' = h \o Append(c, x) \o <<>>
    BY <1>2, <2>2, <2>7
  <2> HIDE DEF h, c, x
  <2>9. h \o Append(c, x) \o <<>> = h \o c \o <<x>>
    BY <2>4, Regroup
  <2> QED BY <1>0, <1>9, <1>11, <1>13, <2>5, <2>8, <2>9
<1> QED BY <1>12, <1>13

(* The turn ends. *)
LEMMA WaitEnds ==
  ASSUME Types, InboxIsOfTheTurn, Waits, Ends
  PROVE  Waits'
<1>1. PICK t \in Turns : TurnEnds(t)
  BY DEF Ends
<1>2. /\ phase[t] = "live" /\ (active = t => inbox = <<>>)
      /\ phase' = [phase EXCEPT ![t] = "over"] /\ Told(t, <<[kind |-> "end"]>>)
      /\ UNCHANGED <<conv, active, preparing, written, item, home, leaf, worker, unsaved>>
  BY <1>1 DEF TurnEnds, convVars, storeVars
<1>3. Idle /\ TurnsWait /\ InStep
  BY <1>2, TurnIsAlone DEF NoTurn, Waits
<1>4. active = t
  BY <1>2, <1>3 DEF TurnsWait
<1>5. phase \in [Turns -> {"new", "waiting", "live", "over"}]
  BY DEF Types
<1>6. Idle' /\ TurnsWait'
  BY <1>2, <1>3, <1>5 DEF Idle, At, TurnsWait
<1>7. inbox' = <<[kind |-> "end"]>> /\ inbox = <<>>
  BY <1>2, <1>4 DEF Told
<1>8. Coming' = <<>> /\ Coming = <<>>
  BY <1>7 DEF Coming, ComingOf
<1>9. Pend' = Pend /\ Here' = Here /\ (Steady' => Steady)
  BY <1>2 DEF Pend, Here, Steady
<1>10. InStep'
  BY <1>2, <1>3, <1>8, <1>9 DEF InStep
<1> QED BY <1>6, <1>10 DEF Waits, OneAtATime

(* Nothing the conversation depends on is touched. *)
LEMMA WaitElse ==
  ASSUME Waits, Skips \/ ObservationEnds \/ UNCHANGED vars
  PROVE  Waits'
<1>1. SameWork /\ SameLine /\ UNCHANGED <<phase, preparing, unsaved>>
  BY DEF Skips, ObservationEnds, vars, SameWork, SameLine, convVars, turnVars, storeVars
<1> QED BY <1>1, WaitRests

WaitersInv == AnswersInv /\ SessionsAreStored /\ EndIsLast /\ WaitsInv

LEMMA WaitersStart == Init => WaitersInv
<1> SUFFICES ASSUME Init PROVE WaitersInv
  OBVIOUS
<1> USE BoundsAssumption
<1>1. SessionsAreStored
  BY DEF Init, SessionsAreStored, Turns, Sessions
<1>2. EndIsLast
  BY DEF Init, EndIsLast
<1>3. Idle /\ TurnsWait /\ InStep
  BY DEF Init, Idle, At, TurnsWait, InStep, Steady, Here, Fresh
<1>4. WaitsInv
  BY <1>3 DEF WaitsInv, Waits, OneAtATime
<1> QED BY <1>1, <1>2, <1>4, StartAnswers DEF WaitersInv

LEMMA WaitsStep ==
  ASSUME WaitersInv, StepKind, user = "waits"
  PROVE  Waits'
<1>1. /\ Types /\ TreesGrow /\ ConversationIsStored /\ TurnsWrite /\ InboxIsOfTheTurn
      /\ CommandsAreOfTheStore /\ ObservationsAreNumbered
      /\ SessionsAreStored /\ EndIsLast /\ Waits
  BY DEF WaitersInv, AnswersInv, WaitsInv
<1>2. CASE Sends
  BY <1>1, <1>2, WaitSends
<1>3. CASE Cuts
  BY <1>1, <1>3, WaitCuts
<1>4. CASE Starts
  BY <1>1, <1>4, WaitStarts
<1>5. CASE Prepares \/ InterruptPreparing
  BY <1>1, <1>5, WaitPrepares
<1>6. CASE Reset
  BY <1>1, <1>6, WaitResets
<1>7. CASE DrainRestored
  BY <1>1, <1>7, WaitRestored
<1>8. CASE DrainAnswer
  BY <1>1, <1>8, WaitReads
<1>9. CASE DrainStopped
  BY <1>1, <1>9, WaitStops
<1>10. CASE DrainTurn
  BY <1>1, <1>10, WaitHears
<1>11. CASE TakeCommand
  BY <1>1, <1>11, WaitTakes
<1>12. CASE AnswersOne
  BY <1>1, <1>12, WaitAnswers
<1>13. CASE LoadTarget
  BY <1>1, <1>13, WaitLoads
<1>14. CASE MoveLeaf
  BY <1>1, <1>14, WaitMoves
<1>15. CASE WorkerDies
  BY <1>1, <1>15, WaitDies
<1>16. CASE Writes
  BY <1>1, <1>16, WaitWrites
<1>17. CASE Ends
  BY <1>1, <1>17, WaitEnds
<1>18. CASE Skips \/ ObservationEnds \/ UNCHANGED vars
  BY <1>1, <1>18, WaitElse
<1> QED BY <1>1, <1>2, <1>3, <1>4, <1>5, <1>6, <1>7, <1>8, <1>9, <1>10, <1>11, <1>12, <1>13, <1>14,
           <1>15, <1>16, <1>17, <1>18, StartFacts DEF StepKind

LEMMA WaitersStep ==
  ASSUME WaitersInv, [Next]_vars
  PROVE  WaitersInv'
<1>1. AnswersInv' /\ Frame /\ StepKind /\ user' = user
  BY AnswersStep DEF WaitersInv
<1>2. SessionsAreStored' /\ EndIsLast'
  BY <1>1, SessionsStep, EndStep DEF WaitersInv, AnswersInv
<1>3. WaitsInv'
  BY <1>1, WaitsStep DEF WaitsInv
<1> QED BY <1>1, <1>2, <1>3 DEF WaitersInv

LEMMA WaitersAreInStep == WaitersInv => WaitersHistoryIsTheStoredPath
<1> SUFFICES ASSUME WaitersInv, user = "waits", Settled, ~unsaved, conv.session # None
             PROVE  conv.history = HistoryOf(leaf[conv.session])
  BY DEF WaitersHistoryIsTheStoredPath, HistoryIsTheStoredPath
<1>1. Types /\ InboxIsOfTheTurn /\ Waits
  BY DEF WaitersInv, AnswersInv, WaitsInv
<1>2. active = None /\ MayCommand
  BY DEF Settled, MayCommand
<1>3. ~Moving(worker)
  BY <1>1, <1>2, QuietFacts, MovingFacts
<1>4. Steady
  BY <1>2, <1>3 DEF Steady, Here
<1> QED BY <1>1, <1>2, <1>4, HistoryNow DEF Waits

(* A user who waits for every command and every turn carries into the next
   request what a resume of the session would restore, whatever failed,
   unless a truncation was not saved.                                    *)
THEOREM WaitersHistory == Spec => []WaitersHistoryIsTheStoredPath
<1>1. Init => WaitersInv
  BY WaitersStart
<1>2. WaitersInv /\ [Next]_vars => WaitersInv'
  BY WaitersStep
<1> QED BY <1>1, <1>2, WaitersAreInStep, PTL DEF Spec
=============================================================================
