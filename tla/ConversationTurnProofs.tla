----------------------- MODULE ConversationTurnProofs -----------------------
(* Proofs about ConversationTurn, for every number of turns, items, retries *)
(* and failures and every capacity of the queue.                            *)
(*                                                                          *)
(* The inductive invariant IInv has a part for each place a turn's items    *)
(* pass through: the worker's thread, its queue, the files, the channel and *)
(* the history; a part that follows the turn on the screen through all of   *)
(* them; and one that says what a verdict leaves behind.                    *)
EXTENDS ConversationTurn, SequenceFilterProofs, FiniteSetTheorems

-----------------------------------------------------------------------------
(* The inductive invariant *)

(* What the channel carries, what the queue carries, and the phases of a    *)
(* worker.                                                                  *)
Event    == [kind : {"turn"}, session : Turns] \cup ItemDeltas
              \cup [kind : Terminal \cup {"progress", "question"}]
Commands == ItemDeltas \cup [kind : {"turn", "replay", "flush"}]
Phases   == {"unborn", "start", "attempt", "retry", "ending", "flushing", "flushed", "done"}
Working  == {"attempt", "retry", "ending", "flushing", "flushed"}
Verdicts == {"finished", "interrupted", "failed"}
SpentType == [failures : 0..MaxFailures, panics : 0..MaxPanics, resets : 0..MaxResets]

(* The type of every variable.                                              *)
TypeInv ==
  /\ {active, session, pending} \subseteq Turns \cup {None}
  /\ inbox \in Seq(Event) /\ history \in Seq(Items)
  /\ phase \in [Turns -> Phases] /\ attempt \in [Turns -> 0..MaxRetries]
  /\ cancelled \in [Turns -> BOOLEAN] /\ attemptCancelled \in [Turns -> BOOLEAN]
  /\ ledger \in [Turns -> SUBSET Nat] /\ outcome \in [Turns -> Terminal \cup {"none"}]
  /\ queue \in [Turns -> Seq(Commands)] /\ actor \in [Turns -> BOOLEAN]
  /\ where \in [Turns -> Turns \cup {None}] /\ stored \in [Turns -> Seq(Items)]
  /\ emitted \in [Turns -> Seq(Items)]
  /\ asking \in SUBSET Turns /\ stopped \in SUBSET Turns
  /\ verdict \in [Turns -> Terminal \cup {"none", "vanished"}]
  /\ spent \in SpentType
  /\ era \in [Turns -> 0..MaxResets]

(* What the worker's phase says of its tokens and of what it produced.      *)
Thread(t) ==
  /\ phase[t] \in {"unborn", "start"} =>
       queue[t] = <<>> /\ emitted[t] = <<>> /\ ledger[t] = {} /\ actor[t]
  /\ phase[t] = "unborn" => active # t /\ verdict[t] = "none" /\ ~cancelled[t]
  /\ phase[t] = "retry" => emitted[t] = <<>> /\ ledger[t] = {} /\ attempt[t] < MaxRetries
  /\ attemptCancelled[t] => emitted[t] # <<>>
  /\ phase[t] \in {"ending", "flushing", "flushed"} => outcome[t] \in Terminal /\ ledger[t] = {}
  /\ phase[t] \in {"start", "attempt", "retry"} /\ active # t => Stopped(t)

(* The first command is the turn and the last one the flush.                *)
Waits(t) == queue[t] # <<>> /\ queue[t][1].kind = "turn"
Lined(t) ==
  /\ Len(queue[t]) <= Capacity
  /\ ~actor[t] \/ phase[t] \in {"flushed", "done"} => queue[t] = <<>>
  /\ phase[t] = "flushing" => queue[t] # <<>> /\ queue[t][Len(queue[t])].kind = "flush"
  /\ phase[t] \in Working /\ actor[t] /\ ~Waits(t) => where[t] # None
  /\ \A i \in 1..Len(queue[t]) :
       /\ queue[t][i].kind = "flush" => i = Len(queue[t]) /\ phase[t] = "flushing"
       /\ queue[t][i].kind = "turn" => i = 1
       /\ queue[t][i].kind = "item" => \E k \in 1..Len(emitted[t]) : emitted[t][k] = queue[t][i].item

(* The items have i among them.                                             *)
In(i, items) == \E k \in 1..Len(items) : items[k] = i

(* What a turn produced is its own, of one attempt, and each call's id is   *)
(* the place before its result.                                             *)
Produced(t) ==
  /\ \A k \in 1..Len(emitted[t]) :
       LET i == emitted[t][k] IN
       /\ i.turn = t /\ i.kind # "user" /\ i.try = attempt[t]
       /\ i.kind = "result" => i.calls = {k - 1}
       /\ i.kind = "call" =>
            \A c \in i.calls :
              /\ c >= k
              /\ c < Len(emitted[t]) => emitted[t][c + 1].kind = "result"
              /\ c >= Len(emitted[t]) => c \in ledger[t]
  /\ ledger[t] # {} =>
       /\ Len(emitted[t]) > 0
       /\ \E n \in 1..MaxBatch : ledger[t] = Len(emitted[t])..(Len(emitted[t]) + n - 1)

(* Of an item the file has the turn it came from has it too.                *)
Filed(s) ==
  \A k \in 1..Len(stored[s]) :
    LET i == stored[s][k] IN
    /\ phase[i.turn] # "unborn"
    /\ i = User(i.turn) \/ In(i, emitted[i.turn])

(* The history shows this conversation, and of it what is in the files.     *)
Remembered ==
  \A k \in 1..Len(history) :
    LET t == history[k].turn IN
    /\ Current(t) /\ phase[t] # "unborn"
    /\ where[t] # None /\ In(history[k], stored[where[t]])

(* An event of one of the kinds is in the channel.                          *)
Has(kinds) == \E i \in 1..Len(inbox) : inbox[i].kind \in kinds

(* The turn on the screen has no verdict yet; the events in its channel are *)
(* about it and of what is in the files; a verdict is the last of them and  *)
(* its worker is done. Only a worker that panicked ends without one.        *)
Screen ==
  /\ asking \subseteq {active}
  /\ pending \in {None, active} /\ \A t \in Turns : era[t] <= spent.resets
  /\ active # None =>
       /\ Current(active) /\ verdict[active] = "none"
       /\ Has(Terminal) => Stopped(active) \/ phase[active] = "done"
       /\ phase[active] = "done" /\ ~Has(Terminal) => spent.panics > 0
       /\ \A i \in 1..Len(inbox) :
            /\ inbox[i].kind \in Verdicts =>
                 i = Len(inbox) /\ phase[active] = "done" /\ ledger[active] = {}
            /\ inbox[i].kind = "turn" =>
                 where[active] # None /\ In(User(active), stored[where[active]])
            /\ inbox[i].kind = "item" =>
                 where[active] # None /\ inbox[i].item.turn = active
                 /\ In(inbox[i].item, stored[where[active]])

(* Before the actor took it, the message and all that followed wait in the  *)
(* queue; then what is filed and what waits add up.                         *)
Untouched(t) == \A s \in Turns : Of(t, stored[s]) = <<>>
Unwritten(t) == Untouched(t) /\ ItemsIn(queue[t]) = emitted[t]
Written(t)   == /\ where[t] # None
                /\ Of(t, stored[where[t]]) \o ItemsIn(queue[t]) = <<User(t)>> \o emitted[t]
WrittenSoFar(t) ==
  IF phase[t] = "start" \/ Waits(t) THEN Unwritten(t)
  ELSE Written(t) \/ (phase[t] = "done" /\ emitted[t] = <<>>)

(* Nothing was dropped or refused, and the worker did not panic: everything *)
(* the turn produced is on its way through queue, store and channel.        *)
Whole(t) ==
  /\ phase[t] \in Working => actor[t]
  /\ Said(t, history) \o ItemsIn(inbox) \o ItemsIn(queue[t]) = emitted[t]
  /\ WrittenSoFar(t)
  /\ Stopped(t) => t \in stopped
  /\ phase[t] \in {"ending", "flushing", "flushed"} /\ outcome[t] = "interrupted" => t \in stopped
  /\ Has({"interrupted"}) => t \in stopped
(* The turn on the screen, as long as nothing of it was lost and its worker *)
(* did not panic.                                                           *)
Followed == active # None /\ ~Has({"lost"}) /\ (phase[active] = "done" => Has(Terminal))
Complete == Followed => Whole(active)

(* What a verdict says stays true of the turn, of its file and, unless the  *)
(* conversation was cleared, of the history.                                *)
Settled(t) ==
  /\ verdict[t] # "none" => active # t
  /\ verdict[t] = "interrupted" => t \in stopped
  /\ verdict[t] = "vanished" => spent.panics > 0
  /\ Judged(t) =>
       /\ phase[t] = "done" /\ ledger[t] = {}
       /\ emitted[t] # <<>> =>
            where[t] # None /\ Of(t, stored[where[t]]) = <<User(t)>> \o emitted[t]
       /\ Current(t) => Said(t, history) = emitted[t]

(* The inductive invariant.                                                 *)
IInv ==
  /\ TypeInv
  /\ \A t \in Turns : Thread(t)
  /\ \A t \in Turns : Lined(t)
  /\ \A t \in Turns : Produced(t)
  /\ \A s \in Turns : Filed(s)
  /\ Remembered
  /\ Screen
  /\ Complete
  /\ \A t \in Turns : Settled(t)

-----------------------------------------------------------------------------
(* The data *)

(* No turn is none.                                                         *)
LEMMA NoneIsNoTurn == None \notin Turns /\ Turns \subseteq Nat
BY DEF None, Turns

(* An item is a record of Items, with the fields it was built from.         *)
LEMMA ItemType ==
  ASSUME NEW t \in Turns, NEW kind \in {"user", "answer", "call", "result"},
         NEW calls \in SUBSET Nat, NEW try \in 0..MaxRetries
  PROVE  /\ Item(t, kind, calls, try) \in Items
         /\ Item(t, kind, calls, try).turn = t /\ Item(t, kind, calls, try).kind = kind
         /\ Item(t, kind, calls, try).calls = calls /\ Item(t, kind, calls, try).try = try
BY DEF Item, Items

(* A turn's message is an item of that turn.                                *)
LEMMA UserType ==
  ASSUME NEW t \in Turns
  PROVE  User(t) \in Items /\ User(t).turn = t /\ User(t).kind = "user"
<1>1. 0 \in 0..MaxRetries /\ {} \in SUBSET Nat
  BY BoundsAssumption
<1> QED BY <1>1, ItemType DEF User

(* The fields of an item are in their ranges.                               *)
LEMMA ItemFields ==
  ASSUME NEW i \in Items
  PROVE  i.turn \in Turns /\ i.kind \in {"user", "answer", "call", "result"}
         /\ i.calls \subseteq Nat /\ i.try \in 0..MaxRetries
BY DEF Items

(* Only an item event carries an item, and only a turn event a session.     *)
LEMMA EventKinds ==
  /\ \A e \in Event : e.kind \in Delta \cup Terminal \cup {"progress", "question"}
  /\ \A e \in Event : e.kind = "item" => e \in ItemDeltas /\ e.item \in Items
  /\ \A e \in Event : e.kind = "turn" => e.session \in Turns
  /\ \A e \in Event : e \in ItemDeltas => e.kind = "item"
BY DEF Event, ItemDeltas, Delta, Terminal

(* Only an item command carries an item.                                    *)
LEMMA CommandKinds ==
  /\ \A c \in Commands : c.kind \in {"item", "turn", "replay", "flush"}
  /\ \A c \in Commands : c.kind = "item" => c \in ItemDeltas /\ c.item \in Items
  /\ \A c \in Commands : c \in ItemDeltas => c.kind = "item"
BY DEF Commands, ItemDeltas

(* What the constructors of events and commands build.                      *)
LEMMA DeltaType ==
  /\ \A i \in Items : /\ ItemDelta(i) \in ItemDeltas /\ ItemCommand(i) \in ItemDeltas
                      /\ ItemCommand(i) = ItemDelta(i)
                      /\ ItemDelta(i).item = i /\ ItemDelta(i).kind = "item"
  /\ \A s \in Turns : TurnDelta(s) \in Event /\ TurnDelta(s).kind = "turn"
                      /\ TurnDelta(s).session = s
  /\ \A k \in Terminal \cup {"progress", "question"} : Plain(k) \in Event
  /\ \A k \in {"turn", "replay", "flush"} : Plain(k) \in Commands
  /\ \A k : Plain(k).kind = k /\ (k # "item" => Plain(k) \notin ItemDeltas)
  /\ ItemDeltas \subseteq Event /\ ItemDeltas \subseteq Commands
BY DEF ItemDelta, ItemCommand, TurnDelta, Plain, Event, Commands, ItemDeltas

(* The items in a sequence of events or of commands.                        *)
LEMMA ItemsInType ==
  ASSUME NEW T, NEW s \in Seq(T)
  PROVE  /\ ItemsIn(s) \in Seq(Items)
         /\ Len(ItemsIn(s)) = Len(Select(s, ItemDeltas))
         /\ \A k \in 1..Len(ItemsIn(s)) : \E n \in 1..Len(s) :
              s[n] \in ItemDeltas /\ ItemsIn(s)[k] = s[n].item
<1> DEFINE deltas == Select(s, ItemDeltas)
<1>1. deltas \in Seq(T)
  BY SelectType
<1>2. \A k \in 1..Len(deltas) : deltas[k] \in ItemDeltas /\ \E n \in 1..Len(s) : s[n] = deltas[k]
  BY SelectRange
<1>3. ItemsIn(s) = [k \in 1..Len(deltas) |-> deltas[k].item]
  <2>1. DOMAIN deltas = 1..Len(deltas)
    BY <1>1
  <2> QED BY <2>1 DEF ItemsIn
<1> HIDE DEF deltas
<1>4. \A k \in 1..Len(deltas) : deltas[k].item \in Items
  BY <1>2 DEF ItemDeltas
<1>5. Len(deltas) \in Nat
  BY <1>1
<1>6. ItemsIn(s) \in Seq(Items) /\ Len(ItemsIn(s)) = Len(deltas)
  BY <1>3, <1>4, <1>5
<1>7. \A k \in 1..Len(ItemsIn(s)) : \E n \in 1..Len(s) :
        s[n] \in ItemDeltas /\ ItemsIn(s)[k] = s[n].item
  BY <1>2, <1>3, <1>6
<1> QED BY <1>6, <1>7 DEF deltas

(* The items of two channels one after the other.                           *)
LEMMA ItemsInConcat ==
  ASSUME NEW T, NEW s \in Seq(T), NEW u \in Seq(T)
  PROVE  ItemsIn(s \o u) = ItemsIn(s) \o ItemsIn(u)
<1> DEFINE a == Select(s, ItemDeltas)  b == Select(u, ItemDeltas)  c == Select(s \o u, ItemDeltas)
           fa == ItemsIn(s)  fb == ItemsIn(u)  fc == ItemsIn(s \o u)
<1>1. a \in Seq(T) /\ b \in Seq(T) /\ c \in Seq(T)
  <2>1. s \o u \in Seq(T)
    OBVIOUS
  <2>2. c \in Seq(T)
    BY <2>1, SelectType
  <2> QED BY <2>2, SelectType
<1>2. c = a \o b
  BY SelectConcat
<1>3. fa \in Seq(Items) /\ Len(fa) = Len(a) /\ fb \in Seq(Items) /\ Len(fb) = Len(b)
  BY ItemsInType
<1>4. fc \in Seq(Items) /\ Len(fc) = Len(c)
  <2>1. s \o u \in Seq(T)
    OBVIOUS
  <2> QED BY <2>1, ItemsInType
<1>5. /\ \A n \in 1..Len(a) : fa[n] = a[n].item
      /\ \A n \in 1..Len(b) : fb[n] = b[n].item
      /\ \A n \in 1..Len(c) : fc[n] = c[n].item
  <2>1. DOMAIN a = 1..Len(a) /\ DOMAIN b = 1..Len(b) /\ DOMAIN c = 1..Len(c)
    BY <1>1
  <2> HIDE DEF a, b, c
  <2>2. /\ fa = [n \in DOMAIN a |-> a[n].item] /\ fb = [n \in DOMAIN b |-> b[n].item]
        /\ fc = [n \in DOMAIN c |-> c[n].item]
    BY DEF ItemsIn, a, b, c
  <2> HIDE DEF fa, fb, fc
  <2> QED BY <2>1, <2>2
<1> HIDE DEF a, b, c, fa, fb, fc
<1>6. /\ Len(c) = Len(a) + Len(b) /\ Len(a) \in Nat /\ Len(b) \in Nat
      /\ \A n \in 1..Len(a) : c[n] = a[n]
      /\ \A n \in 1..Len(b) : c[Len(a) + n] = b[n]
  BY <1>1, <1>2
<1> DEFINE fab == fa \o fb
<1>7. /\ fab \in Seq(Items) /\ Len(fab) = Len(a) + Len(b)
      /\ \A n \in 1..Len(a) : fab[n] = fa[n]
      /\ \A n \in 1..Len(b) : fab[Len(a) + n] = fb[n]
  <2>1. /\ fab \in Seq(Items) /\ Len(fab) = Len(fa) + Len(fb)
        /\ \A n \in 1..(Len(fa) + Len(fb)) : fab[n] = IF n <= Len(fa) THEN fa[n] ELSE fb[n - Len(fa)]
    BY <1>3, ConcatProperties
  <2>2. \A n \in 1..Len(a) : fab[n] = fa[n]
    BY <2>1, <1>3, <1>6
  <2>3. ASSUME NEW n \in 1..Len(b) PROVE fab[Len(a) + n] = fb[n]
    <3>1. Len(a) + n \in 1..(Len(fa) + Len(fb)) /\ ~(Len(a) + n <= Len(fa)) /\ (Len(a) + n) - Len(fa) = n
      BY <1>3, <1>6
    <3> QED BY <2>1, <3>1
  <2> QED BY <1>3, <2>1, <2>2, <2>3
<1> HIDE DEF fab
<1>8. ASSUME NEW n \in 1..Len(fc) PROVE fc[n] = fab[n]
  <2>1. CASE n \in 1..Len(a)
    BY <2>1, <1>4, <1>5, <1>6, <1>7
  <2>2. CASE n \notin 1..Len(a)
    <3>1. PICK m \in 1..Len(b) : n = Len(a) + m
      <4>1. n - Len(a) \in 1..Len(b) /\ n = Len(a) + (n - Len(a))
        BY <2>2, <1>4, <1>6
      <4> QED BY <4>1
    <3>2. n \in 1..Len(c)
      BY <1>4
    <3>3. fc[n] = b[m].item
      BY <3>1, <3>2, <1>5, <1>6
    <3>4. fab[n] = fb[m]
      BY <3>1, <1>7
    <3> QED BY <3>1, <3>3, <3>4, <1>5
  <2> QED BY <2>1, <2>2
<1>9. fc = fab
  BY <1>4, <1>6, <1>7, <1>8
<1> QED BY <1>9 DEF fab, fa, fb, fc

(* Events without items hold none.                                          *)
LEMMA ItemsInNone ==
  ASSUME NEW T, NEW s \in Seq(T), \A n \in 1..Len(s) : s[n] \notin ItemDeltas
  PROVE  ItemsIn(s) = <<>>
<1> DEFINE U == T \ ItemDeltas
<1>1. s \in Seq(U) /\ U \cap ItemDeltas = {}
  <2>1. \A n \in 1..Len(s) : s[n] \in U
    OBVIOUS
  <2> HIDE DEF U
  <2>2. s \in Seq(U)
    BY <2>1, SequenceInto
  <2> QED BY <2>2 DEF U
<1> HIDE DEF U
<1>2. Select(s, ItemDeltas) = <<>>
  BY <1>1, SelectNone
<1>3. ItemsIn(s) \in Seq(Items) /\ Len(ItemsIn(s)) = Len(Select(s, ItemDeltas))
  BY ItemsInType
<1>4. Len(ItemsIn(s)) = 0
  BY <1>2, <1>3
<1> QED BY <1>3, <1>4

(* Nothing holds no items.                                                  *)
LEMMA ItemsInNothing == ItemsIn(<<>>) = <<>>
<1> DEFINE none == <<>>
<1>1. none \in Seq(Items) /\ Len(none) = 0
  OBVIOUS
<1> HIDE DEF none
<1>2. \A n \in 1..Len(none) : none[n] \notin ItemDeltas
  BY <1>1
<1>3. ItemsIn(none) = <<>>
  BY <1>1, <1>2, ItemsInNone
<1> QED BY <1>3 DEF none

(* The commands that store these items.                                     *)
Storing(items) == [n \in 1..Len(items) |-> ItemCommand(items[n])]

(* The commands that store some items hold just these, in order.            *)
LEMMA ItemsInStoring ==
  ASSUME NEW items \in Seq(Items)
  PROVE  /\ Storing(items) \in Seq(ItemDeltas) /\ Len(Storing(items)) = Len(items)
         /\ \A n \in 1..Len(items) :
              Storing(items)[n].kind = "item" /\ Storing(items)[n].item = items[n]
         /\ ItemsIn(Storing(items)) = items
<1> DEFINE cmds == Storing(items)
<1>1. \A n \in 1..Len(items) : items[n] \in Items
  OBVIOUS
<1>2. \A n \in 1..Len(items) :
         /\ ItemCommand(items[n]) \in ItemDeltas /\ ItemCommand(items[n]).kind = "item"
         /\ ItemCommand(items[n]).item = items[n]
  BY <1>1, DeltaType
<1>3. Len(items) \in Nat
  OBVIOUS
<1>4. cmds \in Seq(ItemDeltas) /\ Len(cmds) = Len(items)
  BY <1>2, <1>3 DEF Storing
<1>5. \A n \in 1..Len(items) : cmds[n].kind = "item" /\ cmds[n].item = items[n]
  BY <1>2 DEF Storing
<1> HIDE DEF cmds
<1>6. Select(cmds, ItemDeltas) = cmds
  BY <1>4, SelectAll
<1>7. ItemsIn(cmds) = [n \in DOMAIN cmds |-> cmds[n].item]
  BY <1>6 DEF ItemsIn
<1>8. DOMAIN cmds = 1..Len(items)
  BY <1>4
<1>9. ItemsIn(cmds) \in Seq(Items) /\ Len(ItemsIn(cmds)) = Len(items)
  BY <1>4, <1>6, ItemsInType
<1>10. \A n \in 1..Len(items) : ItemsIn(cmds)[n] = items[n]
  BY <1>5, <1>7, <1>8
<1>11. ItemsIn(cmds) = items
  BY <1>9, <1>10
<1> QED BY <1>4, <1>5, <1>11 DEF cmds

(* A sequence of one element.                                               *)
LEMMA Singleton ==
  ASSUME NEW T, NEW e \in T
  PROVE  <<e>> \in Seq(T) /\ Len(<<e>>) = 1 /\ <<e>>[1] = e /\ \A n \in 1..Len(<<e>>) : <<e>>[n] = e
OBVIOUS

(* The items of a single event or command.                                  *)
LEMMA ItemsInOne ==
  /\ \A i \in Items : ItemsIn(<<ItemDelta(i)>>) = <<i>> /\ ItemsIn(<<ItemCommand(i)>>) = <<i>>
  /\ \A k : k # "item" => ItemsIn(<<Plain(k)>>) = <<>>
  /\ \A s \in Turns : ItemsIn(<<TurnDelta(s)>>) = <<>>
<1>1. ASSUME NEW i \in Items
      PROVE  ItemsIn(<<ItemDelta(i)>>) = <<i>> /\ ItemsIn(<<ItemCommand(i)>>) = <<i>>
  <2> DEFINE one == <<i>>
  <2>1. one \in Seq(Items) /\ Len(one) = 1 /\ one[1] = i
    OBVIOUS
  <2> HIDE DEF one
  <2>2. ItemsIn(Storing(one)) = one
    BY <2>1, ItemsInStoring
  <2>3. Storing(one) = <<ItemCommand(i)>>
    BY <2>1 DEF Storing
  <2>4. ItemDelta(i) = ItemCommand(i)
    BY DeltaType
  <2> QED BY <2>2, <2>3, <2>4 DEF one
<1>2. ASSUME NEW e, e \notin ItemDeltas PROVE ItemsIn(<<e>>) = <<>>
  <2> DEFINE one == <<e>>
  <2>1. one \in Seq({e}) /\ \A n \in 1..Len(one) : one[n] \notin ItemDeltas
    BY <1>2
  <2> HIDE DEF one
  <2>2. ItemsIn(one) = <<>>
    BY <2>1, ItemsInNone
  <2> QED BY <2>2 DEF one
<1>3. ASSUME NEW k, k # "item" PROVE ItemsIn(<<Plain(k)>>) = <<>>
  BY <1>3, <1>2, DeltaType
<1>4. ASSUME NEW s \in Turns PROVE ItemsIn(<<TurnDelta(s)>>) = <<>>
  <2>1. TurnDelta(s) \notin ItemDeltas
    BY DeltaType, EventKinds
  <2> QED BY <2>1, <1>2
<1> QED BY <1>1, <1>3, <1>4

(* A turn's share of a sequence is taken part by part.                      *)
LEMMA OfSelects ==
  ASSUME NEW t \in Turns
  PROVE  /\ \A items \in Seq(Items) : Of(t, items) \in Seq(Items) /\ Said(t, items) \in Seq(Items)
         /\ \A a, b \in Seq(Items) : /\ Of(t, a \o b) = Of(t, a) \o Of(t, b)
                                     /\ Said(t, a \o b) = Said(t, a) \o Said(t, b)
         /\ Of(t, <<>>) = <<>> /\ Said(t, <<>>) = <<>>
<1> DEFINE A == {i \in Items : i.turn = t}  B == {i \in Items : i.turn = t /\ i.kind # "user"}
<1> HIDE DEF A, B
<1>1. \A items \in Seq(Items) : Select(items, A) \in Seq(Items) /\ Select(items, B) \in Seq(Items)
  BY SelectType
<1>2. \A a, b \in Seq(Items) : /\ Select(a \o b, A) = Select(a, A) \o Select(b, A)
                               /\ Select(a \o b, B) = Select(a, B) \o Select(b, B)
  BY SelectConcat, SMTT(30)
<1>3. Select(<<>>, A) = <<>> /\ Select(<<>>, B) = <<>>
  BY SelectOfNothing
<1> QED BY <1>1, <1>2, <1>3 DEF Of, Said, A, B

(* A turn has no share of other turns' items.                               *)
LEMMA OfOthers ==
  ASSUME NEW t \in Turns, NEW items \in Seq(Items),
         \A n \in 1..Len(items) : items[n].turn # t
  PROVE  Of(t, items) = <<>> /\ Said(t, items) = <<>>
<1> DEFINE U == {i \in Items : i.turn # t}
           A == {i \in Items : i.turn = t}  B == {i \in Items : i.turn = t /\ i.kind # "user"}
<1>1. \A n \in 1..Len(items) : items[n] \in U
  OBVIOUS
<1>2. U \cap A = {} /\ U \cap B = {}
  OBVIOUS
<1> HIDE DEF U, A, B
<1>3. items \in Seq(U)
  BY <1>1, SequenceInto
<1>4. Select(items, A) = <<>> /\ Select(items, B) = <<>>
  BY <1>2, <1>3, SelectNone
<1> QED BY <1>4 DEF Of, Said, A, B

(* A turn's share of its own items is all of them.                          *)
LEMMA OfOwn ==
  ASSUME NEW t \in Turns, NEW items \in Seq(Items),
         \A n \in 1..Len(items) : items[n].turn = t
  PROVE  /\ Of(t, items) = items
         /\ (\A n \in 1..Len(items) : items[n].kind # "user") => Said(t, items) = items
<1> DEFINE A == {i \in Items : i.turn = t}  B == {i \in Items : i.turn = t /\ i.kind # "user"}
<1>1. Select(items, A) = items
  <2>1. \A n \in 1..Len(items) : items[n] \in A
    OBVIOUS
  <2> HIDE DEF A
  <2>2. items \in Seq(A)
    BY <2>1, SequenceInto
  <2> QED BY <2>2, SelectAll
<1>2. ASSUME \A n \in 1..Len(items) : items[n].kind # "user" PROVE Select(items, B) = items
  <2>1. \A n \in 1..Len(items) : items[n] \in B
    BY <1>2
  <2> HIDE DEF B
  <2>2. items \in Seq(B)
    BY <2>1, SequenceInto
  <2> QED BY <2>2, SelectAll
<1> QED BY <1>1, <1>2 DEF Of, Said

(* A turn's share of one item.                                              *)
LEMMA OneOf ==
  ASSUME NEW t \in Turns, NEW i \in Items
  PROVE  /\ Of(t, <<i>>) = IF i.turn = t THEN <<i>> ELSE <<>>
         /\ Said(t, <<i>>) = IF i.turn = t /\ i.kind # "user" THEN <<i>> ELSE <<>>
<1> DEFINE one == <<i>>  A == {j \in Items : j.turn = t}
           B == {j \in Items : j.turn = t /\ j.kind # "user"}
<1>1. Append(<<>>, i) = one /\ <<>> \in Seq(Items)
  OBVIOUS
<1>2. /\ Select(Append(<<>>, i), A) = IF i \in A THEN Append(Select(<<>>, A), i) ELSE Select(<<>>, A)
      /\ Select(Append(<<>>, i), B) = IF i \in B THEN Append(Select(<<>>, B), i) ELSE Select(<<>>, B)
  <2> DEFINE none == <<>>
  <2>1. none \in Seq(Items)
    OBVIOUS
  <2> HIDE DEF none, A, B
  <2>2. /\ Select(Append(none, i), A) = IF i \in A THEN Append(Select(none, A), i) ELSE Select(none, A)
        /\ Select(Append(none, i), B) = IF i \in B THEN Append(Select(none, B), i) ELSE Select(none, B)
    BY <2>1, SelectAppend
  <2> QED BY <2>2 DEF none
<1>3. Select(<<>>, A) = <<>> /\ Select(<<>>, B) = <<>>
  BY SelectOfNothing
<1>4. (i \in A <=> i.turn = t) /\ (i \in B <=> i.turn = t /\ i.kind # "user")
  OBVIOUS
<1> QED BY <1>1, <1>2, <1>3, <1>4 DEF Of, Said

(* A turn's share of one message.                                           *)
LEMMA OfUser ==
  ASSUME NEW t \in Turns, NEW u \in Turns
  PROVE  /\ Of(t, <<User(u)>>) = IF u = t THEN <<User(u)>> ELSE <<>>
         /\ Said(t, <<User(u)>>) = <<>>
BY UserType, OneOf

-----------------------------------------------------------------------------
(* The results of a batch *)

(* The n-th of an interval.                                                 *)
LEMMA NthOfInterval ==
  ASSUME NEW a \in Nat, NEW m \in Nat, NEW n \in 1..m
  PROVE  Nth(a..(a + m - 1), n) = a + n - 1
<1> DEFINE calls == a..(a + m - 1)
<1>1. ASSUME NEW c \in calls PROVE Cardinality({d \in calls : d <= c}) = c - a + 1
  <2>1. {d \in calls : d <= c} = a..c
    OBVIOUS
  <2>2. Cardinality(a..c) = c - a + 1
    <3>1. a \in Int /\ c \in Int /\ a <= c
      OBVIOUS
    <3> QED BY <3>1, FS_Interval
  <2> QED BY <2>1, <2>2
<1>2. a + n - 1 \in calls
  OBVIOUS
<1>3. \A c \in calls : c \in Nat
  OBVIOUS
<1> HIDE DEF calls
<1>4. \A c \in calls : Cardinality({d \in calls : d <= c}) = n <=> c = a + n - 1
  <2> SUFFICES ASSUME NEW c \in calls
               PROVE  Cardinality({d \in calls : d <= c}) = n <=> c = a + n - 1
    OBVIOUS
  <2>1. Cardinality({d \in calls : d <= c}) = c - a + 1 /\ c \in Nat
    BY <1>1, <1>3
  <2> QED BY <2>1
<1>5. Nth(calls, n) = a + n - 1
  BY <1>2, <1>4 DEF Nth
<1> QED BY <1>5 DEF calls

(* The repairs answer the open calls one by one, in the order of their ids. *)
LEMMA ResultsShape ==
  ASSUME TypeInv, NEW t \in Turns, Produced(t)
  PROVE  /\ Results(t) \in Seq(Items)
         /\ ledger[t] = {} => Results(t) = <<>>
         /\ ledger[t] # {} =>
              /\ Len(emitted[t]) > 0 /\ Len(Results(t)) > 0
              /\ ledger[t] = Len(emitted[t])..(Len(emitted[t]) + Len(Results(t)) - 1)
         /\ \A n \in 1..Len(Results(t)) :
              Results(t)[n] = Item(t, "result", {Len(emitted[t]) + n - 1}, attempt[t])
<1>1. attempt[t] \in 0..MaxRetries /\ Len(emitted[t]) \in Nat
  BY DEF TypeInv
<1>2. CASE ledger[t] = {}
  <2>1. Cardinality(ledger[t]) = 0
    BY <1>2, FS_EmptySet
  <2>2. Results(t) = <<>>
    BY <2>1 DEF Results
  <2> QED BY <2>2, <1>2
<1>3. CASE ledger[t] # {}
  <2> DEFINE a == Len(emitted[t])
  <2>1. PICK m \in 1..MaxBatch : ledger[t] = a..(a + m - 1)
    BY <1>3 DEF Produced
  <2>2. a > 0 /\ a \in Nat /\ m \in Nat /\ m > 0
    BY <1>1, <1>3, <2>1, BoundsAssumption DEF Produced
  <2> HIDE DEF a
  <2>3. Cardinality(ledger[t]) = m
    <3>1. a \in Int /\ a + m - 1 \in Int /\ ~(a > a + m - 1) /\ (a + m - 1) - a + 1 = m
      BY <2>2
    <3>2. Cardinality(a..(a + m - 1)) = m
      BY <3>1, FS_Interval
    <3> QED BY <3>2, <2>1
  <2>4. \A n \in 1..m : Nth(ledger[t], n) = a + n - 1
    BY <2>1, <2>2, NthOfInterval
  <2> DEFINE i(n) == Item(t, "result", {a + n - 1}, attempt[t])
  <2>5. Results(t) = [n \in 1..m |-> i(n)]
    BY <2>3, <2>4 DEF Results
  <2>6. \A n \in 1..m : i(n) \in Items
    <3> SUFFICES ASSUME NEW n \in 1..m PROVE i(n) \in Items
      OBVIOUS
    <3>1. {a + n - 1} \in SUBSET Nat
      BY <2>2
    <3> QED BY <3>1, <1>1, ItemType
  <2> HIDE DEF i
  <2>7. Results(t) \in Seq(Items) /\ Len(Results(t)) = m /\ \A n \in 1..m : Results(t)[n] = i(n)
    BY <2>2, <2>5, <2>6
  <2> QED BY <2>1, <2>2, <2>7, <1>3 DEF a, i
<1> QED BY <1>2, <1>3

-----------------------------------------------------------------------------
(* What one try_recv_event reads *)

(* The event a drain stops at is the first that is not a delta.             *)
LEMMA NextIsFirst ==
  ASSUME TypeInv, PlainAt # {}
  PROVE  /\ NextEvent \in 1..Len(inbox) /\ inbox[NextEvent].kind \notin Delta
         /\ \A j \in 1..(NextEvent - 1) : inbox[j].kind \in Delta
<1>1. /\ inbox \in Seq(Event) /\ PlainAt \subseteq 1..Len(inbox) /\ PlainAt \subseteq Nat
      /\ \A i \in PlainAt : inbox[i].kind \notin Delta
      /\ \A i \in 1..Len(inbox) : inbox[i].kind \notin Delta => i \in PlainAt
  <2>1. inbox \in Seq(Event)
    BY DEF TypeInv
  <2>2. DOMAIN inbox = 1..Len(inbox)
    BY <2>1
  <2>3. PlainAt = {i \in 1..Len(inbox) : inbox[i].kind \notin Delta}
    BY <2>2 DEF PlainAt
  <2> QED BY <2>1, <2>3
<1>2. PICK x \in PlainAt : \A y \in PlainAt : ~(<<y, x>> \in LessThan)
  BY <1>1, LessThanIsWellFounded, WFMin
<1>3. \A y \in PlainAt : x <= y
  <2> SUFFICES ASSUME NEW y \in PlainAt PROVE x <= y
    OBVIOUS
  <2>1. x \in Nat /\ y \in Nat /\ ~(<<y, x>> \in LessThan)
    BY <1>1, <1>2
  <2>2. ~(y < x)
    BY <2>1 DEF LessThan
  <2> QED BY <2>1, <2>2
<1>4. NextEvent \in PlainAt /\ \A j \in PlainAt : NextEvent <= j
  BY <1>3 DEF NextEvent
<1> QED BY <1>1, <1>4

(* With nothing but deltas in the channel a drain reads all of it.          *)
LEMMA ReadAll ==
  ASSUME TypeInv, PlainAt = {}
  PROVE  /\ Deltas = inbox /\ NewItems = ItemsIn(inbox)
         /\ \A i \in 1..Len(inbox) : inbox[i].kind \in Delta
<1>1. Deltas = inbox
  BY DEF Deltas
<1>2. NewItems = ItemsIn(inbox)
  BY <1>1 DEF NewItems
<1>3. inbox \in Seq(Event)
  BY DEF TypeInv
<1>4. \A i \in 1..Len(inbox) : i \in DOMAIN inbox
  BY <1>3
<1>5. \A i \in 1..Len(inbox) : inbox[i].kind \in Delta
  BY <1>4 DEF PlainAt
<1> QED BY <1>1, <1>2, <1>5

(* A drain reads the deltas before the first other event, and that event.   *)
LEMMA ReadUpTo ==
  ASSUME TypeInv, PlainAt # {}
  PROVE  LET rest == SubSeq(inbox, NextEvent + 1, Len(inbox)) IN
         /\ Deltas \in Seq(Event) /\ Len(Deltas) = NextEvent - 1
         /\ \A i \in 1..(NextEvent - 1) : Deltas[i] = inbox[i]
         /\ rest \in Seq(Event) /\ Len(rest) = Len(inbox) - NextEvent
         /\ \A i \in 1..Len(rest) : rest[i] = inbox[NextEvent + i]
         /\ inbox = (Deltas \o <<inbox[NextEvent]>>) \o rest
         /\ ItemsIn(inbox) = NewItems \o ItemsIn(rest)
<1> DEFINE n == NextEvent  e == inbox[n]  rest == SubSeq(inbox, n + 1, Len(inbox))
           before == SubSeq(inbox, 1, n - 1)
<1>1. n \in 1..Len(inbox) /\ e.kind \notin Delta /\ inbox \in Seq(Event)
  BY NextIsFirst DEF TypeInv
<1>2. Deltas = before
  BY DEF Deltas
<1> HIDE DEF n
<1>3. /\ before \in Seq(Event) /\ Len(before) = n - 1
      /\ \A i \in 1..(n - 1) : before[i] = inbox[i]
  BY <1>1
<1>4. /\ rest \in Seq(Event) /\ Len(rest) = Len(inbox) - n
      /\ \A i \in 1..Len(rest) : rest[i] = inbox[n + i]
  BY <1>1
<1>5. e \in Event
  BY <1>1
<1> HIDE DEF rest, before, e
<1> DEFINE front == before \o <<e>>
<1>6. /\ front \in Seq(Event) /\ Len(front) = n /\ front[n] = e
      /\ \A i \in 1..(n - 1) : front[i] = before[i]
  BY <1>1, <1>3, <1>5
<1> DEFINE all == front \o rest
<1>7. inbox = all
  <2> HIDE DEF front
  <2>3. /\ all \in Seq(Event) /\ Len(all) = Len(front) + Len(rest)
        /\ \A i \in 1..(Len(front) + Len(rest)) :
             all[i] = IF i <= Len(front) THEN front[i] ELSE rest[i - Len(front)]
    BY <1>4, <1>6, ConcatProperties
  <2> HIDE DEF all
  <2>4. n \in Nat /\ Len(inbox) \in Nat /\ Len(front) + Len(rest) = Len(inbox)
    BY <1>1, <1>4, <1>6
  <2>1. all \in Seq(Event) /\ Len(all) = Len(inbox)
    BY <2>3, <2>4
  <2>2. ASSUME NEW i \in 1..Len(inbox) PROVE all[i] = inbox[i]
    <3>1. CASE i <= n
      <4>1. all[i] = front[i]
        BY <3>1, <2>3, <2>4, <1>6
      <4> QED BY <4>1, <3>1, <2>4, <1>3, <1>6 DEF e
    <3>2. CASE i > n
      <4>1. i - n \in 1..Len(rest) /\ n + (i - n) = i
        BY <3>2, <2>4, <1>4
      <4>2. all[i] = rest[i - n]
        BY <3>2, <2>3, <2>4, <1>6
      <4> QED BY <4>1, <4>2, <1>4
    <3> QED BY <3>1, <3>2, <2>4
  <2> QED BY <2>1, <2>2, <1>1
<1>8. ItemsIn(front) = ItemsIn(before)
  <2> DEFINE one == <<e>>
  <2>1. e \notin ItemDeltas
    BY <1>1, <1>5, EventKinds DEF Delta
  <2>2. one \in Seq(Event) /\ \A i \in 1..Len(one) : one[i] \notin ItemDeltas
    BY <2>1, <1>5
  <2> HIDE DEF one
  <2>3. ItemsIn(one) = <<>>
    BY <2>2, ItemsInNone
  <2>4. ItemsIn(before \o one) = ItemsIn(before) \o ItemsIn(one)
    BY <2>2, <1>3, ItemsInConcat
  <2>5. ItemsIn(before) \in Seq(Items)
    BY <1>3, ItemsInType
  <2>6. ItemsIn(before) \o <<>> = ItemsIn(before)
    BY <2>5
  <2> QED BY <2>3, <2>4, <2>6 DEF one
<1>9. ItemsIn(inbox) = ItemsIn(before) \o ItemsIn(rest)
  <2> HIDE DEF front
  <2>1. ItemsIn(front \o rest) = ItemsIn(front) \o ItemsIn(rest)
    BY <1>4, <1>6, ItemsInConcat
  <2> QED BY <2>1, <1>7, <1>8
<1> QED BY <1>2, <1>3, <1>4, <1>7, <1>9 DEF NewItems, rest, n, e

-----------------------------------------------------------------------------
(* The steps that produce items *)

Quiet == [kind : {"lost", "progress"}]

(* What the worker's step adds: items to what it produced, as many of the   *)
(* commands that store them as fit to the queue, and events that tell of    *)
(* those that did not.                                                      *)
Adds(t, items, cmds, fits, events) ==
  /\ items \in Seq(Items)
  /\ \A n \in 1..Len(items) :
       items[n].turn = t /\ items[n].kind # "user" /\ items[n].try = attempt[t]
  /\ emitted' = [emitted EXCEPT ![t] = @ \o items]
  /\ cmds \in Seq(Commands) /\ ItemsIn(cmds) = items
  /\ \A n \in 1..Len(cmds) :
       cmds[n].kind \in {"item", "replay"} /\ (cmds[n].kind = "item" => In(cmds[n].item, items))
  /\ fits \in 0..Len(cmds) /\ Len(queue[t]) + fits <= Capacity /\ (~actor[t] => fits = 0)
  /\ queue' = [queue EXCEPT ![t] = @ \o SubSeq(cmds, 1, fits)]
  /\ events \in Seq(Quiet) /\ inbox' = Sent(t, events)
  /\ fits < Len(cmds) => items # <<>>
  /\ fits < Len(cmds) <=> \E n \in 1..Len(events) : events[n].kind = "lost"

(* And what it leaves.                                                      *)
Attempts(t, events) ==
  /\ phase[t] = "attempt" /\ phase'[t] \in {"attempt", "ending"}
  /\ phase' = [phase EXCEPT ![t] = phase'[t]]
  /\ cancelled' = [cancelled EXCEPT ![t] = cancelled'[t]] /\ cancelled'[t] \in BOOLEAN
  /\ attemptCancelled' = [attemptCancelled EXCEPT ![t] = attemptCancelled'[t]]
  /\ attemptCancelled'[t] \in BOOLEAN
  /\ Stopped(t) => Stopped(t)'
  /\ (\E n \in 1..Len(events) : events[n].kind = "lost") => Stopped(t)'
  /\ (\A n \in 1..Len(events) : events[n].kind # "lost") => UNCHANGED tokens
  /\ attemptCancelled'[t] => attemptCancelled[t] \/ \E n \in 1..Len(events) : events[n].kind = "lost"
  /\ ledger' = [ledger EXCEPT ![t] = ledger'[t]] /\ ledger'[t] \in SUBSET Nat
  /\ outcome' = [outcome EXCEPT ![t] = outcome'[t]] /\ outcome'[t] \in Terminal \cup {"none"}
  /\ phase'[t] = "ending" =>
       ledger'[t] = {} /\ outcome'[t] \in Terminal /\ (outcome'[t] = "interrupted" => Stopped(t)')
  /\ asking' \subseteq asking
  /\ UNCHANGED <<active, uiVars, attempt, actorVars, spent, ghostVars>>

Emission(t) ==
  \E items, cmds, fits, events : Adds(t, items, cmds, fits, events) /\ Attempts(t, events)

(* What the queue has room for keeps it within its capacity.                *)
LEMMA RoomIsLeft ==
  ASSUME TypeInv, NEW t \in Turns, Lined(t)
  PROVE  Room(t) \in Nat /\ Len(queue[t]) + Room(t) <= Capacity /\ (~actor[t] => Room(t) = 0)
<1>1. queue[t] \in Seq(Commands) /\ actor[t] \in BOOLEAN
  BY DEF TypeInv
<1>2. Len(queue[t]) \in Nat
  BY <1>1
<1>3. Capacity \in Nat
  BY BoundsAssumption
<1>4. Len(queue[t]) <= Capacity /\ (~actor[t] => queue[t] = <<>>)
  BY DEF Lined
<1>5. ~actor[t] => Len(queue[t]) = 0
  BY <1>4
<1>6. CASE actor[t]
  <2>1. Room(t) = Capacity - Len(queue[t])
    BY <1>6 DEF Room
  <2> QED BY <2>1, <1>2, <1>3, <1>4, <1>6
<1>7. CASE ~actor[t]
  <2>1. Room(t) = 0
    BY <1>7 DEF Room
  <2> QED BY <2>1, <1>2, <1>3, <1>4
<1> QED BY <1>6, <1>7

(* A burst puts the commands that fit into the queue and says of the others *)
(* that they are lost.                                                      *)
LEMMA BurstAdds ==
  ASSUME TypeInv, NEW t \in Turns, Lined(t), NEW cmds \in Seq(Commands),
         NEW kept \in Seq(Quiet), \A n \in 1..Len(kept) : kept[n].kind = "progress",
         Burst(t, cmds, kept)
  PROVE  \E fits \in 0..Len(cmds), events \in Seq(Quiet) :
           /\ Len(queue[t]) + fits <= Capacity /\ (~actor[t] => fits = 0)
           /\ queue' = [queue EXCEPT ![t] = @ \o SubSeq(cmds, 1, fits)]
           /\ inbox' = Sent(t, events)
           /\ attemptCancelled' = [attemptCancelled EXCEPT ![t] = @ \/ fits < Len(cmds)]
           /\ fits < Len(cmds) <=> \E n \in 1..Len(events) : events[n].kind = "lost"
<1> DEFINE fits == IF Len(cmds) <= Room(t) THEN Len(cmds) ELSE Room(t)
           lost == [i \in 1..(Len(cmds) - fits) |-> Plain("lost")]
           events == lost \o kept
<1>1. Len(cmds) \in Nat
  OBVIOUS
<1>2. fits \in 0..Len(cmds) /\ Len(queue[t]) + fits <= Capacity /\ (~actor[t] => fits = 0)
  <2>1. Room(t) \in Nat /\ Len(queue[t]) + Room(t) <= Capacity /\ (~actor[t] => Room(t) = 0)
    BY RoomIsLeft
  <2>2. Len(queue[t]) \in Nat /\ Capacity \in Nat
    BY BoundsAssumption DEF TypeInv
  <2> QED BY <1>1, <2>1, <2>2
<1>3. /\ queue' = [queue EXCEPT ![t] = @ \o SubSeq(cmds, 1, fits)]
      /\ inbox' = Sent(t, events)
      /\ attemptCancelled' = [attemptCancelled EXCEPT ![t] = @ \/ fits < Len(cmds)]
  BY DEF Burst, Send
<1> HIDE DEF fits
<1>4. Plain("lost") \in Quiet /\ Plain("lost").kind = "lost"
  BY DEF Plain, Quiet
<1>5. /\ lost \in Seq(Quiet) /\ Len(lost) = Len(cmds) - fits
      /\ \A n \in 1..(Len(cmds) - fits) : lost[n].kind = "lost"
  BY <1>1, <1>2, <1>4
<1> HIDE DEF lost
<1>6. /\ events \in Seq(Quiet) /\ Len(events) = Len(lost) + Len(kept)
      /\ \A n \in 1..(Len(lost) + Len(kept)) :
           events[n] = IF n <= Len(lost) THEN lost[n] ELSE kept[n - Len(lost)]
  BY <1>5, ConcatProperties
<1> HIDE DEF events
<1>7. fits < Len(cmds) <=> \E n \in 1..Len(events) : events[n].kind = "lost"
  <2>1. ASSUME fits < Len(cmds) PROVE \E n \in 1..Len(events) : events[n].kind = "lost"
    <3>1. 1 \in 1..(Len(cmds) - fits) /\ 1 \in 1..Len(events) /\ 1 <= Len(lost)
      BY <2>1, <1>1, <1>2, <1>5, <1>6
    <3>2. events[1].kind = "lost"
      BY <3>1, <1>5, <1>6
    <3> QED BY <3>1, <3>2
  <2>2. ASSUME ~(fits < Len(cmds)), NEW n \in 1..Len(events) PROVE events[n].kind # "lost"
    <3>1. Len(lost) = 0
      BY <2>2, <1>1, <1>2, <1>5
    <3>2. Len(kept) \in Nat /\ n \in Nat
      OBVIOUS
    <3>3. n \in 1..(Len(lost) + Len(kept)) /\ ~(n <= Len(lost)) /\ n - Len(lost) = n
      BY <3>1, <3>2, <1>6
    <3>4. events[n] = kept[n] /\ n \in 1..Len(kept)
      BY <3>1, <3>2, <3>3, <1>6
    <3> QED BY <3>4
  <2> QED BY <2>1, <2>2
<1> QED BY <1>2, <1>3, <1>6, <1>7

(* A single item of the turn and of its attempt may be emitted.             *)
LEMMA OneItem ==
  ASSUME TypeInv, NEW t \in Turns, NEW i \in Items,
         i.turn = t /\ i.kind # "user" /\ i.try = attempt[t]
  PROVE  /\ <<i>> \in Seq(Items) /\ <<i>> # <<>>
         /\ \A n \in 1..Len(<<i>>) :
              <<i>>[n].turn = t /\ <<i>>[n].kind # "user" /\ <<i>>[n].try = attempt[t]
         /\ In(i, <<i>>)
<1> DEFINE one == <<i>>
<1>1. one \in Seq(Items) /\ Len(one) = 1 /\ one[1] = i
  OBVIOUS
<1>2. one # <<>>
  OBVIOUS
<1> HIDE DEF one
<1>4. 1 \in 1..Len(one) /\ \A n \in 1..Len(one) : one[n] = i
  BY <1>1
<1>3. In(i, one)
  BY <1>1, <1>4 DEF In
<1> QED BY <1>1, <1>2, <1>3, <1>4 DEF one

(* The calls of a response are an emission.                                 *)
LEMMA EmitCalls ==
  ASSUME TypeInv, NEW t \in Turns, Lined(t), NEW n \in 1..MaxBatch, RespondWithCalls(t, n)
  PROVE  Emission(t)
<1> DEFINE calls == {Len(emitted[t]) + i : i \in 1..n}
           item  == Item(t, "call", calls, attempt[t])
           items == <<item>>  cmds == <<ItemCommand(item), Plain("replay")>>
           kept  == <<Plain("progress")>>
<1>1. calls \in SUBSET Nat /\ attempt[t] \in 0..MaxRetries
  <2>1. Len(emitted[t]) \in Nat /\ n \in Nat /\ attempt[t] \in 0..MaxRetries
    BY BoundsAssumption DEF TypeInv
  <2> QED BY <2>1
<1>2. /\ Streaming(t)
      /\ emitted' = [emitted EXCEPT ![t] = Append(@, item)]
      /\ ledger'  = [ledger EXCEPT ![t] = calls]
      /\ Burst(t, cmds, kept)
      /\ UNCHANGED <<active, uiVars, phase, attempt, outcome, cancelled, actorVars, asking, spent,
                     ghostVars>>
  BY DEF RespondWithCalls
<1> HIDE DEF calls
<1>3. /\ item \in Items /\ item.turn = t /\ item.kind # "user" /\ item.try = attempt[t]
  BY <1>1, ItemType
<1> HIDE DEF item
<1>4. /\ items \in Seq(Items) /\ items # <<>> /\ In(item, items)
      /\ \A k \in 1..Len(items) :
           items[k].turn = t /\ items[k].kind # "user" /\ items[k].try = attempt[t]
  BY <1>3, OneItem
<1>5. /\ ItemCommand(item) \in Commands /\ Plain("replay") \in Commands
      /\ ItemCommand(item).kind = "item" /\ ItemCommand(item).item = item
      /\ Plain("replay").kind = "replay"
  BY <1>3, DeltaType
<1>6. /\ cmds \in Seq(Commands) /\ Len(cmds) = 2
      /\ cmds[1] = ItemCommand(item) /\ cmds[2] = Plain("replay")
      /\ cmds = <<ItemCommand(item)>> \o <<Plain("replay")>>
  BY <1>5
<1>7. ItemsIn(cmds) = items
  <2> DEFINE a == <<ItemCommand(item)>>  b == <<Plain("replay")>>
  <2>1. ItemsIn(a) = items /\ ItemsIn(b) = <<>>
    BY <1>3, ItemsInOne
  <2>2. a \in Seq(Commands) /\ b \in Seq(Commands)
    BY <1>5
  <2> HIDE DEF a, b
  <2>3. ItemsIn(a \o b) = ItemsIn(a) \o ItemsIn(b)
    BY <2>2, ItemsInConcat
  <2>4. items \o <<>> = items
    BY <1>4
  <2> QED BY <2>1, <2>3, <2>4, <1>6 DEF a, b
<1>8. kept \in Seq(Quiet) /\ \A k \in 1..Len(kept) : kept[k].kind = "progress"
  BY DEF Plain, Quiet
<1>9. emitted' = [emitted EXCEPT ![t] = @ \o items]
  <2>1. emitted[t] \in Seq(Items)
    BY DEF TypeInv
  <2>2. Append(emitted[t], item) = emitted[t] \o <<item>>
    BY <2>1, <1>3
  <2> QED BY <1>2, <2>2
<1>10. \A k \in 1..Len(cmds) :
         cmds[k].kind \in {"item", "replay"} /\ (cmds[k].kind = "item" => In(cmds[k].item, items))
  BY <1>4, <1>5, <1>6
<1> HIDE DEF cmds, kept, items
<1>11. PICK fits \in 0..Len(cmds), events \in Seq(Quiet) :
           /\ Len(queue[t]) + fits <= Capacity /\ (~actor[t] => fits = 0)
           /\ queue' = [queue EXCEPT ![t] = @ \o SubSeq(cmds, 1, fits)]
           /\ inbox' = Sent(t, events)
           /\ attemptCancelled' = [attemptCancelled EXCEPT ![t] = @ \/ fits < Len(cmds)]
           /\ fits < Len(cmds) <=> \E m \in 1..Len(events) : events[m].kind = "lost"
  BY <1>2, <1>6, <1>8, BurstAdds
<1>12. Adds(t, items, cmds, fits, events)
  BY <1>4, <1>6, <1>7, <1>9, <1>10, <1>11 DEF Adds
<1>13. Attempts(t, events)
  <2>1. /\ phase \in [Turns -> Phases] /\ cancelled \in [Turns -> BOOLEAN]
        /\ attemptCancelled \in [Turns -> BOOLEAN] /\ ledger \in [Turns -> SUBSET Nat]
        /\ outcome \in [Turns -> Terminal \cup {"none"}]
    BY DEF TypeInv
  <2>2. phase[t] = "attempt"
    BY <1>2 DEF Streaming
  <2>3. /\ phase' = phase /\ cancelled' = cancelled /\ outcome' = outcome /\ asking' = asking
        /\ ledger' = [ledger EXCEPT ![t] = calls]
    BY <1>2
  <2>4. attemptCancelled'[t] = (attemptCancelled[t] \/ fits < Len(cmds))
    BY <1>11, <2>1
  <2>5. ledger' = [ledger EXCEPT ![t] = ledger'[t]] /\ ledger'[t] \in SUBSET Nat
    BY <2>1, <2>3, <1>1
  <2>6. attemptCancelled' = [attemptCancelled EXCEPT ![t] = attemptCancelled'[t]]
        /\ attemptCancelled'[t] \in BOOLEAN
    BY <2>1, <1>11
  <2>7. fits = Len(cmds) => attemptCancelled' = attemptCancelled
    BY <2>1, <1>11
  <2>8. (\A m \in 1..Len(events) : events[m].kind # "lost") => UNCHANGED tokens
    <3>1. fits < Len(cmds) \/ fits = Len(cmds)
      BY <1>6, <1>11
    <3> QED BY <3>1, <2>3, <2>7, <1>11 DEF tokens
  <2>9. Stopped(t) => Stopped(t)'
    BY <2>3, <2>4 DEF Stopped
  <2>10. (\E m \in 1..Len(events) : events[m].kind = "lost") => Stopped(t)'
    BY <2>4, <1>11 DEF Stopped
  <2> QED BY <2>1, <2>2, <2>3, <2>4, <2>5, <2>6, <2>8, <2>9, <2>10, <1>2, <1>11 DEF Attempts
<1> QED BY <1>12, <1>13 DEF Emission

(* The results of a batch of tools are an emission.                         *)
LEMMA EmitResults ==
  ASSUME TypeInv, NEW t \in Turns, Lined(t), Produced(t), ToolsFinish(t)
  PROVE  Emission(t)
<1> DEFINE items == Results(t)  cmds == <<Plain("replay")>> \o Storing(items)
           kept  == <<Plain("progress")>>
<1>1. /\ phase[t] = "attempt" /\ ledger[t] # {}
      /\ emitted' = [emitted EXCEPT ![t] = @ \o items]
      /\ ledger'  = [ledger EXCEPT ![t] = {}]
      /\ Burst(t, <<Plain("replay")>> \o ResultCommands(t), kept)
      /\ IF cancelled[t] \/ attemptCancelled'[t]
           THEN /\ asking' = {}
                /\ outcome' = [outcome EXCEPT ![t] = "interrupted"]
                /\ phase'   = [phase EXCEPT ![t] = "ending"]
           ELSE asking' = asking \ {t} /\ UNCHANGED <<outcome, phase>>
      /\ UNCHANGED <<active, uiVars, attempt, cancelled, actorVars, spent, ghostVars>>
  BY DEF ToolsFinish
<1>2. /\ items \in Seq(Items) /\ Len(items) > 0
      /\ \A n \in 1..Len(items) :
           items[n] = Item(t, "result", {Len(emitted[t]) + n - 1}, attempt[t])
  BY <1>1, ResultsShape
<1>3. \A n \in 1..Len(items) :
        items[n].turn = t /\ items[n].kind # "user" /\ items[n].try = attempt[t]
  <2> SUFFICES ASSUME NEW n \in 1..Len(items)
               PROVE  items[n].turn = t /\ items[n].kind # "user" /\ items[n].try = attempt[t]
    OBVIOUS
  <2> DEFINE id == {Len(emitted[t]) + n - 1}
  <2>1. items[n] = Item(t, "result", id, attempt[t])
    BY <1>2
  <2> HIDE DEF items, id
  <2> QED BY <2>1 DEF Item
<1>4. ResultCommands(t) = Storing(items)
  <2>1. DOMAIN items = 1..Len(items)
    BY <1>2
  <2> QED BY <2>1 DEF ResultCommands, Storing
<1> HIDE DEF items
<1>5. /\ Storing(items) \in Seq(ItemDeltas) /\ Len(Storing(items)) = Len(items)
      /\ \A n \in 1..Len(items) :
           Storing(items)[n].kind = "item" /\ Storing(items)[n].item = items[n]
      /\ ItemsIn(Storing(items)) = items
  BY <1>2, ItemsInStoring
<1> DEFINE a == <<Plain("replay")>>  b == Storing(items)
<1>6. a \in Seq(Commands) /\ Len(a) = 1 /\ a[1].kind = "replay" /\ ItemsIn(a) = <<>>
  BY DeltaType, ItemsInOne
<1>7. b \in Seq(Commands)
  BY <1>5, DeltaType
<1> HIDE DEF a, b
<1> DEFINE ab == a \o b
<1>8. /\ ab \in Seq(Commands) /\ Len(ab) = Len(a) + Len(b)
      /\ \A n \in 1..(Len(a) + Len(b)) : ab[n] = IF n <= Len(a) THEN a[n] ELSE b[n - Len(a)]
  BY <1>6, <1>7, ConcatProperties
<1>9. ItemsIn(ab) = items
  <2>1. ItemsIn(ab) = ItemsIn(a) \o ItemsIn(b)
    BY <1>6, <1>7, ItemsInConcat
  <2>2. <<>> \o items = items
    BY <1>2
  <2> QED BY <2>1, <2>2, <1>5, <1>6 DEF b
<1> HIDE DEF ab
<1>10. ASSUME NEW k \in 1..Len(ab)
       PROVE  ab[k].kind \in {"item", "replay"} /\ (ab[k].kind = "item" => In(ab[k].item, items))
  <2>1. CASE k = 1
    <3>1. ab[k].kind = "replay"
      BY <2>1, <1>6, <1>8
    <3> QED BY <3>1
  <2>2. CASE k # 1
    <3>1. k - 1 \in 1..Len(items) /\ ab[k] = b[k - 1]
      BY <2>2, <1>5, <1>6, <1>8 DEF b
    <3>2. ab[k].kind = "item" /\ ab[k].item = items[k - 1]
      BY <3>1, <1>5 DEF b
    <3> QED BY <3>1, <3>2 DEF In
  <2> QED BY <2>1, <2>2
<1>11. kept \in Seq(Quiet) /\ \A k \in 1..Len(kept) : kept[k].kind = "progress"
  BY DEF Plain, Quiet
<1>12. Burst(t, ab, kept)
  BY <1>1, <1>4 DEF ab, a, b
<1> HIDE DEF kept
<1>13. PICK fits \in 0..Len(ab), events \in Seq(Quiet) :
           /\ Len(queue[t]) + fits <= Capacity /\ (~actor[t] => fits = 0)
           /\ queue' = [queue EXCEPT ![t] = @ \o SubSeq(ab, 1, fits)]
           /\ inbox' = Sent(t, events)
           /\ attemptCancelled' = [attemptCancelled EXCEPT ![t] = @ \/ fits < Len(ab)]
           /\ fits < Len(ab) <=> \E m \in 1..Len(events) : events[m].kind = "lost"
  BY <1>8, <1>11, <1>12, BurstAdds
<1>14. items # <<>>
  BY <1>2
<1>15. Adds(t, items, ab, fits, events)
  BY <1>1, <1>2, <1>3, <1>8, <1>9, <1>10, <1>13, <1>14 DEF Adds
<1>16. Attempts(t, events)
  <2>1. /\ phase \in [Turns -> Phases] /\ cancelled \in [Turns -> BOOLEAN]
        /\ attemptCancelled \in [Turns -> BOOLEAN] /\ ledger \in [Turns -> SUBSET Nat]
        /\ outcome \in [Turns -> Terminal \cup {"none"}]
    BY DEF TypeInv
  <2>2. cancelled' = cancelled /\ UNCHANGED <<active, uiVars, attempt, actorVars, spent, ghostVars>>
    BY <1>1
  <2>3. attemptCancelled'[t] = (attemptCancelled[t] \/ fits < Len(ab))
    BY <1>13, <2>1
  <2>4. ledger' = [ledger EXCEPT ![t] = ledger'[t]] /\ ledger'[t] = {}
    BY <2>1, <1>1
  <2>5. attemptCancelled' = [attemptCancelled EXCEPT ![t] = attemptCancelled'[t]]
        /\ attemptCancelled'[t] \in BOOLEAN
    BY <2>1, <1>13
  <2>6. fits = Len(ab) => attemptCancelled' = attemptCancelled
    BY <2>1, <1>13
  <2>7. (\A m \in 1..Len(events) : events[m].kind # "lost") => UNCHANGED tokens
    <3>1. fits < Len(ab) \/ fits = Len(ab)
      BY <1>8, <1>13
    <3> QED BY <3>1, <2>2, <2>6, <1>13 DEF tokens
  <2>8. Stopped(t) => Stopped(t)'
    BY <2>2, <2>3 DEF Stopped
  <2>9. (\E m \in 1..Len(events) : events[m].kind = "lost") => Stopped(t)'
    BY <2>3, <1>13 DEF Stopped
  <2>10. /\ phase' = [phase EXCEPT ![t] = phase'[t]] /\ phase'[t] \in {"attempt", "ending"}
         /\ outcome' = [outcome EXCEPT ![t] = outcome'[t]] /\ outcome'[t] \in Terminal \cup {"none"}
         /\ phase'[t] = "ending" => outcome'[t] \in Terminal /\ (cancelled[t] \/ attemptCancelled'[t])
         /\ asking' \subseteq asking
    BY <2>1, <1>1 DEF Terminal
  <2>11. phase'[t] = "ending" => Stopped(t)'
    BY <2>2, <2>10 DEF Stopped
  <2>12. phase[t] = "attempt" /\ ledger'[t] \in SUBSET Nat
    BY <1>1, <2>4
  <2>13. attemptCancelled'[t] =>
           attemptCancelled[t] \/ \E n \in 1..Len(events) : events[n].kind = "lost"
    BY <2>3, <1>13
  <2>14. cancelled' = [cancelled EXCEPT ![t] = cancelled'[t]] /\ cancelled'[t] \in BOOLEAN
    BY <2>1, <2>2
  <2> QED BY <2>2, <2>4, <2>5, <2>7, <2>8, <2>9, <2>10, <2>11, <2>12, <2>13, <2>14 DEF Attempts
<1> QED BY <1>15, <1>16 DEF Emission

(* The last answer of an attempt is an emission.                            *)
LEMMA EmitAnswer ==
  ASSUME TypeInv, NEW t \in Turns, Lined(t), RespondFinal(t)
  PROVE  Emission(t)
<1> DEFINE item  == Item(t, "answer", {}, attempt[t])
           items == <<item>>  cmds == <<ItemCommand(item)>>  kept == <<>>
<1>1. attempt[t] \in 0..MaxRetries
  BY DEF TypeInv
<1>2. /\ Streaming(t)
      /\ emitted' = [emitted EXCEPT ![t] = Append(@, item)]
      /\ Burst(t, cmds, kept)
      /\ asking' = {}
      /\ outcome' = [outcome EXCEPT ![t] = "finished"]
      /\ phase'   = [phase EXCEPT ![t] = "ending"]
      /\ UNCHANGED <<active, uiVars, attempt, ledger, cancelled, actorVars, spent, ghostVars>>
  BY DEF RespondFinal
<1>3. /\ item \in Items /\ item.turn = t /\ item.kind # "user" /\ item.try = attempt[t]
  BY <1>1, ItemType
<1> HIDE DEF item
<1>4. /\ items \in Seq(Items) /\ items # <<>> /\ In(item, items)
      /\ \A k \in 1..Len(items) :
           items[k].turn = t /\ items[k].kind # "user" /\ items[k].try = attempt[t]
  BY <1>3, OneItem
<1>5. /\ ItemCommand(item) \in Commands
      /\ ItemCommand(item).kind = "item" /\ ItemCommand(item).item = item
  BY <1>3, DeltaType
<1>6. cmds \in Seq(Commands) /\ Len(cmds) = 1 /\ cmds[1] = ItemCommand(item)
  BY <1>5
<1>7. ItemsIn(cmds) = items
  BY <1>3, ItemsInOne
<1>8. kept \in Seq(Quiet) /\ \A k \in 1..Len(kept) : kept[k].kind = "progress"
  OBVIOUS
<1>9. emitted' = [emitted EXCEPT ![t] = @ \o items]
  <2>1. emitted[t] \in Seq(Items)
    BY DEF TypeInv
  <2>2. Append(emitted[t], item) = emitted[t] \o <<item>>
    BY <2>1, <1>3
  <2> QED BY <1>2, <2>2
<1>10. \A k \in 1..Len(cmds) :
         cmds[k].kind \in {"item", "replay"} /\ (cmds[k].kind = "item" => In(cmds[k].item, items))
  BY <1>4, <1>5, <1>6
<1> HIDE DEF cmds, kept, items
<1>11. PICK fits \in 0..Len(cmds), events \in Seq(Quiet) :
           /\ Len(queue[t]) + fits <= Capacity /\ (~actor[t] => fits = 0)
           /\ queue' = [queue EXCEPT ![t] = @ \o SubSeq(cmds, 1, fits)]
           /\ inbox' = Sent(t, events)
           /\ attemptCancelled' = [attemptCancelled EXCEPT ![t] = @ \/ fits < Len(cmds)]
           /\ fits < Len(cmds) <=> \E m \in 1..Len(events) : events[m].kind = "lost"
  BY <1>2, <1>6, <1>8, BurstAdds
<1>12. Adds(t, items, cmds, fits, events)
  BY <1>4, <1>6, <1>7, <1>9, <1>10, <1>11 DEF Adds
<1>13. Attempts(t, events)
  <2>1. /\ phase \in [Turns -> Phases] /\ cancelled \in [Turns -> BOOLEAN]
        /\ attemptCancelled \in [Turns -> BOOLEAN] /\ ledger \in [Turns -> SUBSET Nat]
        /\ outcome \in [Turns -> Terminal \cup {"none"}]
    BY DEF TypeInv
  <2>2. phase[t] = "attempt" /\ ledger[t] = {}
    BY <1>2 DEF Streaming
  <2>3. cancelled' = cancelled /\ ledger' = ledger
        /\ UNCHANGED <<active, uiVars, attempt, actorVars, spent, ghostVars>>
    BY <1>2
  <2>4. attemptCancelled'[t] = (attemptCancelled[t] \/ fits < Len(cmds))
    BY <1>11, <2>1
  <2>5. ledger' = [ledger EXCEPT ![t] = ledger'[t]] /\ ledger'[t] = {}
    BY <2>1, <2>2, <2>3
  <2>6. attemptCancelled' = [attemptCancelled EXCEPT ![t] = attemptCancelled'[t]]
        /\ attemptCancelled'[t] \in BOOLEAN
    BY <2>1, <1>11
  <2>7. fits = Len(cmds) => attemptCancelled' = attemptCancelled
    BY <2>1, <1>11
  <2>8. (\A m \in 1..Len(events) : events[m].kind # "lost") => UNCHANGED tokens
    <3>1. fits < Len(cmds) \/ fits = Len(cmds)
      BY <1>6, <1>11
    <3> QED BY <3>1, <2>3, <2>7, <1>11 DEF tokens
  <2>9. Stopped(t) => Stopped(t)'
    BY <2>3, <2>4 DEF Stopped
  <2>10. (\E m \in 1..Len(events) : events[m].kind = "lost") => Stopped(t)'
    BY <2>4, <1>11 DEF Stopped
  <2>11. /\ phase' = [phase EXCEPT ![t] = phase'[t]] /\ phase'[t] = "ending"
         /\ outcome' = [outcome EXCEPT ![t] = outcome'[t]] /\ outcome'[t] = "finished"
         /\ asking' \subseteq asking
    BY <2>1, <1>2
  <2>12. ledger'[t] \in SUBSET Nat /\ outcome'[t] \in Terminal /\ outcome'[t] # "interrupted"
    BY <2>5, <2>11 DEF Terminal
  <2>13. attemptCancelled'[t] =>
           attemptCancelled[t] \/ \E n \in 1..Len(events) : events[n].kind = "lost"
    BY <2>4, <1>11
  <2>14. cancelled' = [cancelled EXCEPT ![t] = cancelled'[t]] /\ cancelled'[t] \in BOOLEAN
    BY <2>1, <2>3
  <2> QED BY <2>2, <2>3, <2>5, <2>6, <2>8, <2>9, <2>10, <2>11, <2>12, <2>13, <2>14 DEF Attempts
<1> QED BY <1>12, <1>13 DEF Emission

(* The repairs at the end of an attempt are an emission.                    *)
LEMMA EmitRepairs ==
  ASSUME TypeInv, NEW t \in Turns, Lined(t), Produced(t), phase[t] = "attempt",
         NEW event \in {"failed", "interrupted"}, event = "interrupted" => Stopped(t),
         AttemptEnds(t, event)
  PROVE  Emission(t)
<1> DEFINE items == Results(t)  cmds == Storing(items)
           fits == IF Len(items) <= Room(t) THEN Len(items) ELSE Room(t)
           events == IF fits < Len(items) THEN <<Plain("lost")>> ELSE <<>>
<1>1. /\ asking' = {}
      /\ emitted' = [emitted EXCEPT ![t] = @ \o items]
      /\ ledger'  = [ledger EXCEPT ![t] = {}]
      /\ queue' = [queue EXCEPT ![t] = @ \o [i \in 1..fits |-> ItemCommand(items[i])]]
      /\ cancelled' = [cancelled EXCEPT ![t] = @ \/ fits < Len(items)]
      /\ inbox' = Sent(t, events)
      /\ outcome' = [outcome EXCEPT ![t] = event]
      /\ phase'   = [phase EXCEPT ![t] = "ending"]
      /\ UNCHANGED <<active, uiVars, attempt, attemptCancelled, actorVars, spent, ghostVars>>
  BY DEF AttemptEnds, Repairs, Send
<1>2. /\ items \in Seq(Items)
      /\ \A n \in 1..Len(items) :
           items[n] = Item(t, "result", {Len(emitted[t]) + n - 1}, attempt[t])
  BY ResultsShape
<1>3. \A n \in 1..Len(items) :
        items[n].turn = t /\ items[n].kind # "user" /\ items[n].try = attempt[t]
  <2> SUFFICES ASSUME NEW n \in 1..Len(items)
               PROVE  items[n].turn = t /\ items[n].kind # "user" /\ items[n].try = attempt[t]
    OBVIOUS
  <2> DEFINE id == {Len(emitted[t]) + n - 1}
  <2>1. items[n] = Item(t, "result", id, attempt[t])
    BY <1>2
  <2> HIDE DEF items, id
  <2> QED BY <2>1 DEF Item
<1> HIDE DEF items
<1>4. /\ cmds \in Seq(ItemDeltas) /\ Len(cmds) = Len(items)
      /\ \A n \in 1..Len(items) : cmds[n].kind = "item" /\ cmds[n].item = items[n]
      /\ ItemsIn(cmds) = items
  BY <1>2, ItemsInStoring
<1>5. cmds \in Seq(Commands)
  BY <1>4, DeltaType
<1>6. Len(items) \in Nat
  BY <1>2
<1>7. fits \in 0..Len(items) /\ Len(queue[t]) + fits <= Capacity /\ (~actor[t] => fits = 0)
  <2>1. Room(t) \in Nat /\ Len(queue[t]) + Room(t) <= Capacity /\ (~actor[t] => Room(t) = 0)
    BY RoomIsLeft
  <2>2. Len(queue[t]) \in Nat /\ Capacity \in Nat
    BY BoundsAssumption DEF TypeInv
  <2> QED BY <1>6, <2>1, <2>2
<1>8. events \in Seq(Quiet) /\ (fits < Len(items) <=> \E n \in 1..Len(events) : events[n].kind = "lost")
  <2>1. CASE fits < Len(items)
    <3>1. events = <<Plain("lost")>>
      BY <2>1
    <3>2. Plain("lost") \in Quiet /\ Plain("lost").kind = "lost"
      BY DEF Plain, Quiet
    <3> HIDE DEF events, fits
    <3>3. events \in Seq(Quiet) /\ Len(events) = 1 /\ events[1].kind = "lost"
      BY <3>1, <3>2
    <3> QED BY <3>3, <2>1
  <2>2. CASE ~(fits < Len(items))
    <3>1. events = <<>>
      BY <2>2
    <3> HIDE DEF events, fits
    <3>2. events \in Seq(Quiet) /\ Len(events) = 0
      BY <3>1
    <3> QED BY <3>2, <2>2
  <2> QED BY <2>1, <2>2
<1> HIDE DEF fits, events
<1>9. [i \in 1..fits |-> ItemCommand(items[i])] = SubSeq(cmds, 1, fits)
  <2> DEFINE first == [i \in 1..fits |-> ItemCommand(items[i])]
             some == SubSeq(cmds, 1, fits)
  <2>1. cmds = [n \in 1..Len(items) |-> ItemCommand(items[n])]
    BY DEF Storing
  <2> HIDE DEF cmds
  <2>2. /\ some \in Seq(ItemDeltas) /\ Len(some) = fits
        /\ \A i \in 1..fits : some[i] = cmds[i]
    BY <1>4, <1>7
  <2>3. \A i \in 1..fits : cmds[i] = ItemCommand(items[i])
    BY <2>1, <1>7
  <2>4. \A i \in 1..fits : ItemCommand(items[i]) \in ItemDeltas
    BY <1>2, <1>7, DeltaType
  <2>5. first \in Seq(ItemDeltas) /\ Len(first) = fits
    BY <2>4, <1>7
  <2>6. \A i \in 1..fits : first[i] = some[i]
    BY <2>2, <2>3
  <2> HIDE DEF first, some
  <2>7. first = some
    BY <2>2, <2>5, <2>6
  <2> QED BY <2>7 DEF first, some
<1>10. \A k \in 1..Len(cmds) :
         cmds[k].kind \in {"item", "replay"} /\ (cmds[k].kind = "item" => In(cmds[k].item, items))
  BY <1>4 DEF In
<1> HIDE DEF cmds
<1>11. fits < Len(cmds) => items # <<>>
  <2>1. items = <<>> => Len(items) = 0
    OBVIOUS
  <2> QED BY <2>1, <1>4, <1>7
<1>12. Adds(t, items, cmds, fits, events)
  <2>1. queue' = [queue EXCEPT ![t] = @ \o SubSeq(cmds, 1, fits)]
    BY <1>1, <1>9
  <2>2. fits \in 0..Len(cmds) /\ (fits < Len(cmds) <=> fits < Len(items))
    BY <1>4, <1>7
  <2> QED BY <2>1, <2>2, <1>1, <1>2, <1>3, <1>4, <1>5, <1>7, <1>8, <1>10, <1>11 DEF Adds
<1>13. Attempts(t, events)
  <2>1. /\ phase \in [Turns -> Phases] /\ cancelled \in [Turns -> BOOLEAN]
        /\ attemptCancelled \in [Turns -> BOOLEAN] /\ ledger \in [Turns -> SUBSET Nat]
        /\ outcome \in [Turns -> Terminal \cup {"none"}]
    BY DEF TypeInv
  <2>2. attemptCancelled' = attemptCancelled
        /\ UNCHANGED <<active, uiVars, attempt, actorVars, spent, ghostVars>>
    BY <1>1
  <2>3. cancelled'[t] = (cancelled[t] \/ fits < Len(items))
    BY <1>1, <2>1
  <2>4. ledger' = [ledger EXCEPT ![t] = ledger'[t]] /\ ledger'[t] = {} /\ ledger'[t] \in SUBSET Nat
    BY <2>1, <1>1
  <2>5. cancelled' = [cancelled EXCEPT ![t] = cancelled'[t]] /\ cancelled'[t] \in BOOLEAN
    BY <2>1, <1>1
  <2>6. fits = Len(items) => cancelled' = cancelled
    BY <2>1, <1>1
  <2>7. (\A m \in 1..Len(events) : events[m].kind # "lost") => UNCHANGED tokens
    <3>1. fits < Len(items) \/ fits = Len(items)
      BY <1>6, <1>7
    <3> QED BY <3>1, <2>2, <2>6, <1>8 DEF tokens
  <2>8. Stopped(t) => Stopped(t)'
    BY <2>2, <2>3 DEF Stopped
  <2>9. (\E m \in 1..Len(events) : events[m].kind = "lost") => Stopped(t)'
    BY <2>3, <1>8 DEF Stopped
  <2>10. /\ phase' = [phase EXCEPT ![t] = phase'[t]] /\ phase'[t] = "ending"
         /\ outcome' = [outcome EXCEPT ![t] = outcome'[t]] /\ outcome'[t] = event
         /\ asking' \subseteq asking
    BY <2>1, <1>1
  <2>11. outcome'[t] \in Terminal /\ (outcome'[t] = "interrupted" => Stopped(t)')
    BY <2>8, <2>10 DEF Terminal
  <2>12. attemptCancelled' = [attemptCancelled EXCEPT ![t] = attemptCancelled'[t]]
         /\ attemptCancelled'[t] \in BOOLEAN /\ attemptCancelled'[t] = attemptCancelled[t]
    BY <2>1, <2>2
  <2> QED BY <2>2, <2>4, <2>5, <2>7, <2>8, <2>9, <2>10, <2>11, <2>12 DEF Attempts
<1> QED BY <1>12, <1>13 DEF Emission

(* Every step that adds to what a turn produced.                            *)
Produces(t) ==
  \/ \E n \in 1..MaxBatch : RespondWithCalls(t, n)
  \/ ToolsFinish(t) \/ RespondFinal(t) \/ ProviderFails(t) \/ AttemptCancelled(t) \/ GraceExpires(t)

(* Every step that produces something is an emission.                       *)
LEMMA ProducesIsEmission ==
  ASSUME TypeInv, NEW t \in Turns, Lined(t), Produced(t), Produces(t)
  PROVE  Emission(t)
<1>1. ASSUME NEW n \in 1..MaxBatch, RespondWithCalls(t, n) PROVE Emission(t)
  BY <1>1, EmitCalls
<1>2. CASE ToolsFinish(t)
  BY <1>2, EmitResults
<1>3. CASE RespondFinal(t)
  BY <1>3, EmitAnswer
<1>4. CASE ProviderFails(t)
  <2>1. phase[t] = "attempt" /\ AttemptEnds(t, "failed")
    BY <1>4 DEF ProviderFails, Streaming
  <2> QED BY <2>1, EmitRepairs
<1>5. CASE AttemptCancelled(t)
  <2>1. phase[t] = "attempt" /\ Stopped(t) /\ AttemptEnds(t, "interrupted")
    BY <1>5 DEF AttemptCancelled, Streaming
  <2> QED BY <2>1, EmitRepairs
<1>6. CASE GraceExpires(t)
  <2>1. phase[t] = "attempt" /\ Stopped(t) /\ AttemptEnds(t, "interrupted")
    BY <1>6 DEF GraceExpires, Stopped
  <2> QED BY <2>1, EmitRepairs
<1> QED BY <1>1, <1>2, <1>3, <1>4, <1>5, <1>6 DEF Produces

-----------------------------------------------------------------------------
(* The other steps *)

(* What is read is a front of the inbox.                                    *)
Fetches ==
  /\ NewItems \in Seq(Items)
  /\ \A k \in 1..Len(NewItems) : \E i \in 1..Len(inbox) :
       inbox[i].kind = "item" /\ inbox[i].item = NewItems[k]

(* What a drain has read so far is a prefix of the channel.                 *)
LEMMA DeltasAreEvents ==
  ASSUME TypeInv
  PROVE  /\ Deltas \in Seq(Event)
         /\ \A k \in 1..Len(Deltas) : k \in 1..Len(inbox) /\ Deltas[k] = inbox[k]
<1>1. CASE PlainAt = {}
  <2>1. Deltas = inbox /\ inbox \in Seq(Event)
    BY <1>1, ReadAll DEF TypeInv
  <2> QED BY <2>1
<1>2. CASE PlainAt # {}
  <2>1. /\ Deltas \in Seq(Event) /\ Len(Deltas) = NextEvent - 1
        /\ \A i \in 1..(NextEvent - 1) : Deltas[i] = inbox[i]
    BY <1>2, ReadUpTo
  <2>2. NextEvent \in 1..Len(inbox) /\ inbox \in Seq(Event)
    BY <1>2, NextIsFirst DEF TypeInv
  <2> QED BY <2>1, <2>2
<1> QED BY <1>1, <1>2

(* In a state of its type a drain finds the next event where it looks for   *)
(* it.                                                                      *)
LEMMA TypeFetches ==
  ASSUME TypeInv
  PROVE  Fetches
<1> DEFINE read == Deltas
<1>1. read \in Seq(Event) /\ \A k \in 1..Len(read) : k \in 1..Len(inbox) /\ read[k] = inbox[k]
  BY DeltasAreEvents
<1> HIDE DEF read
<1>2. /\ ItemsIn(read) \in Seq(Items)
      /\ \A k \in 1..Len(ItemsIn(read)) : \E n \in 1..Len(read) :
           read[n] \in ItemDeltas /\ ItemsIn(read)[k] = read[n].item
  BY <1>1, ItemsInType
<1>3. ASSUME NEW k \in 1..Len(ItemsIn(read))
      PROVE  \E i \in 1..Len(inbox) : inbox[i].kind = "item" /\ inbox[i].item = ItemsIn(read)[k]
  <2>1. PICK n \in 1..Len(read) : read[n] \in ItemDeltas /\ ItemsIn(read)[k] = read[n].item
    BY <1>2
  <2>2. read[n] \in Event
    BY <1>1
  <2>3. read[n].kind = "item"
    BY <2>1, <2>2, EventKinds
  <2> QED BY <2>1, <2>3, <1>1
<1>4. NewItems = ItemsIn(read)
  BY DEF NewItems, read
<1> QED BY <1>2, <1>3, <1>4 DEF Fetches

(* A drain takes the session from a turn event the channel holds.           *)
LEMMA TurnDeltasAreRead ==
  ASSUME TypeInv
  PROVE  /\ TurnDeltas # {} => \E i \in 1..Len(inbox) : inbox[i].kind = "turn"
         /\ TurnDeltas # {} => (CHOOSE e \in TurnDeltas : TRUE).session \in Turns
<1> DEFINE read == Deltas
<1>1. read \in Seq(Event) /\ \A k \in 1..Len(read) : k \in 1..Len(inbox) /\ read[k] = inbox[k]
  BY DeltasAreEvents
<1>2. DOMAIN read = 1..Len(read)
  BY <1>1
<1>3. ToSet(read) = {read[k] : k \in 1..Len(read)}
  BY <1>2 DEF ToSet
<1>4. TurnDeltas = {e \in ToSet(read) : e.kind = "turn"}
  BY DEF TurnDeltas
<1> HIDE DEF read
<1>5. ASSUME NEW e \in TurnDeltas
      PROVE  e.session \in Turns /\ \E i \in 1..Len(inbox) : inbox[i].kind = "turn"
  <2>1. PICK k \in 1..Len(read) : e = read[k] /\ e.kind = "turn"
    BY <1>3, <1>4
  <2>2. e \in Event
    BY <1>1, <2>1
  <2> QED BY <2>1, <2>2, <1>1, EventKinds
<1>6. ASSUME TurnDeltas # {} PROVE (CHOOSE e \in TurnDeltas : TRUE) \in TurnDeltas
  BY <1>6
<1> QED BY <1>5, <1>6

(* A drain that ends no turn.                                               *)
Reads == DrainDeltas \/ DrainProgress

(* What a drain that does not close the turn does to the channel.           *)
LEMMA ReadsShape ==
  ASSUME TypeInv, Reads
  PROVE  LET d == Len(inbox) - Len(inbox') IN
         /\ active \in Turns
         /\ inbox' \in Seq(Event) /\ d \in Nat
         /\ \A i \in 1..Len(inbox') : i + d \in 1..Len(inbox) /\ inbox'[i] = inbox[i + d]
         /\ \A i \in 1..Len(inbox) : i <= d => inbox[i].kind \notin Terminal
         /\ \A i \in 1..Len(inbox) : i > d => i - d \in 1..Len(inbox') /\ inbox'[i - d] = inbox[i]
         /\ ItemsIn(inbox) = NewItems \o ItemsIn(inbox')
         /\ Reconcile
         /\ UNCHANGED <<active, asking, verdict, phase, attempt, ledger, outcome, emitted, cancelled,
                        attemptCancelled, queue, actor, where, stored, spent, stopped, era>>
<1>1. active \in Turns /\ inbox \in Seq(Event)
  BY NoneIsNoTurn DEF Reads, DrainDeltas, DrainProgress, TypeInv
<1>2. CASE DrainDeltas
  <2>1. PlainAt = {} /\ Reconcile /\ inbox' = <<>>
    BY <1>2 DEF DrainDeltas
  <2>2. NewItems = ItemsIn(inbox) /\ \A i \in 1..Len(inbox) : inbox[i].kind \in Delta
    BY <2>1, ReadAll
  <2>3. inbox' \in Seq(Event) /\ Len(inbox') = 0
    BY <2>1
  <2>4. ItemsIn(inbox) = NewItems \o ItemsIn(inbox')
    <3>1. ItemsIn(inbox') = <<>> /\ NewItems \in Seq(Items)
      BY <2>1, ItemsInNothing, TypeFetches DEF Fetches
    <3>2. NewItems \o <<>> = NewItems
      BY <3>1
    <3> QED BY <3>1, <3>2, <2>2
  <2>5. UNCHANGED <<active, asking, verdict, phase, attempt, ledger, outcome, emitted, cancelled,
                        attemptCancelled, queue, actor, where, stored, spent, stopped, era>>
    BY <1>2 DEF DrainDeltas, DrainUnchanged, workerVars, tokens, actorVars
  <2>6. Delta \cap Terminal = {}
    BY DEF Delta, Terminal
  <2> QED BY <1>1, <2>1, <2>2, <2>3, <2>4, <2>5, <2>6
<1>3. CASE DrainProgress
  <2> DEFINE n == NextEvent  rest == SubSeq(inbox, n + 1, Len(inbox))
  <2>1. PlainAt # {} /\ inbox[n].kind \notin Terminal /\ Reconcile /\ inbox' = rest
    BY <1>3 DEF DrainProgress
  <2>2. /\ rest \in Seq(Event) /\ Len(rest) = Len(inbox) - n
        /\ \A i \in 1..Len(rest) : rest[i] = inbox[n + i]
        /\ ItemsIn(inbox) = NewItems \o ItemsIn(rest)
    BY <2>1, ReadUpTo
  <2>3. n \in 1..Len(inbox) /\ \A j \in 1..(n - 1) : inbox[j].kind \in Delta
    BY <2>1, NextIsFirst
  <2>4. UNCHANGED <<active, asking, verdict, phase, attempt, ledger, outcome, emitted, cancelled,
                        attemptCancelled, queue, actor, where, stored, spent, stopped, era>>
    BY <1>3 DEF DrainProgress, DrainUnchanged, workerVars, tokens, actorVars
  <2>5. Delta \cap Terminal = {}
    BY DEF Delta, Terminal
  <2> HIDE DEF n, rest
  <2>6. Len(inbox) \in Nat /\ n \in Nat /\ Len(inbox) - Len(inbox') = n
    BY <1>1, <2>1, <2>2, <2>3
  <2>7. \A i \in 1..Len(inbox') : i + n \in 1..Len(inbox) /\ inbox'[i] = inbox[i + n]
    BY <2>1, <2>2, <2>3, <2>6
  <2>8. \A i \in 1..Len(inbox) : i <= n => inbox[i].kind \notin Terminal
    <3> SUFFICES ASSUME NEW i \in 1..Len(inbox), i <= n PROVE inbox[i].kind \notin Terminal
      OBVIOUS
    <3>1. i = n \/ i \in 1..(n - 1)
      BY <2>6
    <3> QED BY <3>1, <2>1, <2>3, <2>5
  <2>9. \A i \in 1..Len(inbox) : i > n => i - n \in 1..Len(inbox') /\ inbox'[i - n] = inbox[i]
    <3> SUFFICES ASSUME NEW i \in 1..Len(inbox), i > n
                 PROVE  i - n \in 1..Len(inbox') /\ inbox'[i - n] = inbox[i]
      OBVIOUS
    <3>1. i - n \in 1..Len(inbox') /\ n + (i - n) = i
      BY <2>1, <2>2, <2>6
    <3> QED BY <3>1, <2>1, <2>2
  <2> QED BY <1>1, <2>1, <2>2, <2>4, <2>6, <2>7, <2>8, <2>9
<1> QED BY <1>2, <1>3 DEF Reads

(* A drain that ends the turn.                                              *)
Closes == DrainVerdict \/ DrainDisconnected

(* What closing the turn leaves behind, and which event closed it.          *)
LEMMA ClosesShape ==
  ASSUME TypeInv, Closes
  PROVE  \E event \in Terminal \cup {"vanished"} :
         /\ active \in Turns
         /\ active' = None /\ inbox' = <<>> /\ asking' = {} /\ pending' = None /\ session' = session
         /\ history' = history \o NewItems
         /\ verdict' = [verdict EXCEPT ![active] = event]
         /\ event = "vanished" => phase[active] = "done" /\ ~Has(Terminal)
         /\ event # "vanished" => \E i \in 1..Len(inbox) :
              /\ inbox[i].kind = event
              /\ \A j \in 1..(i - 1) : inbox[j].kind \in Delta
              /\ i = Len(inbox) => NewItems = ItemsIn(inbox)
         /\ UNCHANGED <<phase, attempt, ledger, outcome, emitted, cancelled,
                        attemptCancelled, queue, actor, where, stored, spent, stopped, era>>
<1>1. active \in Turns /\ inbox \in Seq(Event)
  BY NoneIsNoTurn DEF Closes, DrainVerdict, DrainDisconnected, TypeInv
<1>2. UNCHANGED <<phase, attempt, ledger, outcome, emitted, cancelled,
                  attemptCancelled, queue, actor, where, stored, spent, stopped, era>>
  BY DEF Closes, DrainVerdict, DrainDisconnected, DrainUnchanged, workerVars, tokens, actorVars
<1>3. CASE DrainVerdict
  <2> DEFINE n == NextEvent  rest == SubSeq(inbox, n + 1, Len(inbox))
  <2>1. PlainAt # {} /\ inbox[n].kind \in Terminal /\ EndTurn(inbox[n].kind)
    BY <1>3 DEF DrainVerdict
  <2>2. n \in 1..Len(inbox) /\ \A j \in 1..(n - 1) : inbox[j].kind \in Delta
    BY <2>1, NextIsFirst
  <2>3. n = Len(inbox) => NewItems = ItemsIn(inbox)
    <3>1. rest \in Seq(Event) /\ Len(rest) = Len(inbox) - n /\ ItemsIn(inbox) = NewItems \o ItemsIn(rest)
      BY <2>1, ReadUpTo
    <3> HIDE DEF rest, n
    <3>2. ASSUME n = Len(inbox) PROVE NewItems = ItemsIn(inbox)
      <4>1. rest = <<>>
        BY <3>1, <3>2, <1>1
      <4>2. ItemsIn(rest) = <<>> /\ NewItems \in Seq(Items)
        BY <4>1, ItemsInNothing, TypeFetches DEF Fetches
      <4>3. NewItems \o <<>> = NewItems
        BY <4>2
      <4> QED BY <3>1, <4>2, <4>3
    <3> QED BY <3>2
  <2>4. /\ active' = None /\ inbox' = <<>> /\ asking' = {} /\ pending' = None /\ session' = session
        /\ history' = history \o NewItems
        /\ verdict' = [verdict EXCEPT ![active] = inbox[n].kind]
    BY <2>1 DEF EndTurn, Judge, ReleaseReceiver, AppendNewItems, RollbackPendingUser
  <2>5. inbox[n].kind # "vanished" /\ inbox[n].kind \in Terminal \cup {"vanished"}
    BY <2>1 DEF Terminal
  <2> HIDE DEF n
  <2> DEFINE event == inbox[n].kind
  <2>6. event \in Terminal \cup {"vanished"}
    BY <2>5
  <2> QED BY <1>1, <1>2, <2>2, <2>3, <2>4, <2>5, <2>6
<1>4. CASE DrainDisconnected
  <2>1. PlainAt = {} /\ phase[active] = "done" /\ EndTurn("vanished")
    BY <1>4 DEF DrainDisconnected
  <2>2. \A i \in 1..Len(inbox) : inbox[i].kind \in Delta
    BY <2>1, ReadAll
  <2>3. ~Has(Terminal)
    BY <2>2 DEF Has, Delta, Terminal
  <2>4. /\ active' = None /\ inbox' = <<>> /\ asking' = {} /\ pending' = None /\ session' = session
        /\ history' = history \o NewItems
        /\ verdict' = [verdict EXCEPT ![active] = "vanished"]
    BY <2>1 DEF EndTurn, Judge, ReleaseReceiver, AppendNewItems, RollbackPendingUser
  <2> WITNESS "vanished" \in Terminal \cup {"vanished"}
  <2> QED BY <1>1, <1>2, <2>1, <2>3, <2>4
<1> QED BY <1>3, <1>4 DEF Closes

(* The command the actor takes.                                             *)
LEMMA FirstCommand ==
  ASSUME TypeInv, NEW t \in Turns, queue[t] # <<>>
  PROVE  /\ queue[t] \in Seq(Commands) /\ Len(queue[t]) \in Nat \ {0}
         /\ Head(queue[t]) = queue[t][1] /\ queue[t][1] \in Commands
         /\ Tail(queue[t]) \in Seq(Commands) /\ Len(Tail(queue[t])) = Len(queue[t]) - 1
         /\ \A k \in 1..(Len(queue[t]) - 1) : Tail(queue[t])[k] = queue[t][k + 1]
         /\ ItemsIn(queue[t]) = ItemsIn(<<queue[t][1]>>) \o ItemsIn(Tail(queue[t]))
         /\ queue[t][1].kind # "item" => ItemsIn(queue[t]) = ItemsIn(Tail(queue[t]))
         /\ queue[t][1].kind = "item" =>
              ItemsIn(queue[t]) = <<queue[t][1].item>> \o ItemsIn(Tail(queue[t]))
<1> DEFINE q == queue[t]  c == q[1]  rest == Tail(q)  one == <<c>>
<1>1. q \in Seq(Commands) /\ q # <<>>
  BY DEF TypeInv
<1> HIDE DEF q
<1>2. /\ Len(q) \in Nat \ {0} /\ Head(q) = c /\ c \in Commands
      /\ rest \in Seq(Commands) /\ Len(rest) = Len(q) - 1
      /\ \A k \in 1..(Len(q) - 1) : rest[k] = q[k + 1]
  BY <1>1
<1>3. one \in Seq(Commands) /\ Len(one) = 1 /\ one[1] = c
  BY <1>2
<1>4. q = one \o rest
  BY <1>1
<1> HIDE DEF c, rest, one
<1>5. ItemsIn(q) = ItemsIn(one) \o ItemsIn(rest)
  BY <1>2, <1>3, <1>4, ItemsInConcat
<1>6. ItemsIn(rest) \in Seq(Items)
  BY <1>2, ItemsInType
<1>7. ASSUME c.kind # "item" PROVE ItemsIn(q) = ItemsIn(rest)
  <2>1. c \notin ItemDeltas
    BY <1>2, <1>7, CommandKinds
  <2>2. \A n \in 1..Len(one) : one[n] \notin ItemDeltas
    BY <1>3, <2>1
  <2>3. ItemsIn(one) = <<>>
    BY <1>3, <2>2, ItemsInNone
  <2>4. <<>> \o ItemsIn(rest) = ItemsIn(rest)
    BY <1>6
  <2> QED BY <1>5, <2>3, <2>4
<1>8. ASSUME c.kind = "item" PROVE ItemsIn(q) = <<c.item>> \o ItemsIn(rest)
  <2>1. c \in ItemDeltas /\ c.item \in Items
    BY <1>2, <1>8, CommandKinds
  <2>2. c = ItemCommand(c.item)
    BY <2>1 DEF ItemDeltas, ItemCommand
  <2>3. ItemsIn(<<ItemCommand(c.item)>>) = <<c.item>>
    BY <2>1, ItemsInOne
  <2>4. ItemsIn(one) = <<c.item>>
    BY <2>2, <2>3 DEF one
  <2> QED BY <1>5, <2>4
<1> QED BY <1>1, <1>2, <1>5, <1>7, <1>8 DEF q, c, rest, one

(* The channel holds events after more of them were sent.                   *)
LEMMA SentType ==
  ASSUME TypeInv, NEW t \in Turns, NEW events \in Seq(Event)
  PROVE  Sent(t, events) \in Seq(Event)
BY DEF Sent, TypeInv

(* The channel holds events after one was sent.                             *)
LEMMA SentOne ==
  ASSUME TypeInv, NEW t \in Turns, NEW e \in Event
  PROVE  Sent(t, <<e>>) \in Seq(Event)
<1> DEFINE one == <<e>>
<1>1. one \in Seq(Event)
  OBVIOUS
<1> HIDE DEF one
<1>2. Sent(t, one) \in Seq(Event)
  BY <1>1, SentType
<1> QED BY <1>2 DEF one

(* What the actor does with its first command.                              *)
TakesTurn(t) ==
  /\ where'  = [where EXCEPT ![t] = Home(t)]
  /\ stored' = [stored EXCEPT ![Home(t)] = Append(@, User(t))]
TakesItem(t) ==
  /\ stored' = [stored EXCEPT ![where[t]] = Append(@, queue[t][1].item)]
  /\ where' = where

(* What the actor may find at the head of the queue.                        *)
LEMMA CommandIsTaken ==
  ASSUME TypeInv, NEW t \in Turns, Thread(t), Lined(t), actor[t] /\ queue[t] # <<>>
  PROVE  /\ phase[t] \in {"attempt", "retry", "ending", "flushing"}
         /\ Home(t) \in Turns /\ where[t] \in {None, Home(t)}
         /\ queue[t][1].kind \in {"turn", "item", "replay", "flush"}
         /\ queue[t][1].kind # "turn" => where[t] \in Turns /\ where[t] = Home(t)
         /\ queue[t][1].kind = "item" => queue[t][1].item \in Items /\ In(queue[t][1].item, emitted[t])
         /\ queue[t][1].kind = "flush" => phase[t] = "flushing" /\ Tail(queue[t]) = <<>>
<1>1. /\ queue[t] \in Seq(Commands) /\ Len(queue[t]) \in Nat \ {0}
      /\ queue[t][1] \in Commands
      /\ Tail(queue[t]) \in Seq(Commands) /\ Len(Tail(queue[t])) = Len(queue[t]) - 1
  BY FirstCommand
<1>2. phase[t] \in Phases /\ where[t] \in Turns \cup {None}
  BY DEF TypeInv
<1>3. phase[t] \in {"attempt", "retry", "ending", "flushing"}
  BY <1>2 DEF Phases, Thread, Lined
<1>4. Home(t) \in Turns /\ where[t] \in {None, Home(t)}
  BY <1>2 DEF Home
<1>5. queue[t][1].kind \in {"item", "turn", "replay", "flush"}
      /\ (queue[t][1].kind = "item" => queue[t][1].item \in Items)
  BY <1>1, CommandKinds
<1>6. ASSUME queue[t][1].kind # "turn" PROVE where[t] \in Turns /\ where[t] = Home(t)
  <2>1. ~Waits(t)
    BY <1>6 DEF Waits
  <2>2. where[t] # None
    BY <1>3, <2>1 DEF Lined, Working
  <2> QED BY <1>2, <2>2 DEF Home
<1>7. 1 \in 1..Len(queue[t])
  BY <1>1
<1>8. ASSUME queue[t][1].kind = "item" PROVE In(queue[t][1].item, emitted[t])
  BY <1>7, <1>8 DEF Lined, In
<1>9. ASSUME queue[t][1].kind = "flush" PROVE phase[t] = "flushing" /\ Tail(queue[t]) = <<>>
  <2>1. 1 = Len(queue[t]) /\ phase[t] = "flushing"
    BY <1>7, <1>9 DEF Lined
  <2> DEFINE rest == Tail(queue[t])
  <2>2. rest \in Seq(Commands) /\ Len(rest) = 0
    BY <1>1, <2>1
  <2> HIDE DEF rest
  <2>3. rest = <<>>
    BY <2>2
  <2> QED BY <2>1, <2>3 DEF rest
<1> QED BY <1>3, <1>4, <1>5, <1>6, <1>8, <1>9

(* What a step of the actor does, by the command it takes.                  *)
LEMMA PersistShape ==
  ASSUME TypeInv, NEW t \in Turns, Persist(t)
  PROVE  /\ actor[t] /\ queue[t] # <<>> /\ queue' = [queue EXCEPT ![t] = Tail(@)]
         /\ \/ /\ queue[t][1].kind = "turn" /\ TakesTurn(t) /\ phase' = phase
               /\ inbox' = Sent(t, <<TurnDelta(Home(t))>>)
            \/ /\ queue[t][1].kind = "item" /\ TakesItem(t) /\ phase' = phase
               /\ inbox' = Sent(t, <<ItemDelta(queue[t][1].item)>>)
            \/ queue[t][1].kind = "replay" /\ UNCHANGED <<where, stored, inbox, phase>>
            \/ /\ queue[t][1].kind = "flush" /\ UNCHANGED <<where, stored, inbox>>
               /\ phase' = [phase EXCEPT ![t] = "flushed"]
         /\ UNCHANGED <<active, session, history, pending, attempt, ledger, outcome, emitted,
                        cancelled, attemptCancelled, actor, asking, spent, verdict, stopped, era>>
<1>1. actor[t] /\ queue[t] # <<>> /\ queue' = [queue EXCEPT ![t] = Tail(@)]
  BY DEF Persist, Pops
<1>2. Head(queue[t]) = queue[t][1]
  BY <1>1, FirstCommand
<1>3. UNCHANGED <<active, session, history, pending, attempt, ledger, outcome, emitted,
                        cancelled, attemptCancelled, actor, asking, spent, verdict, stopped, era>>
  BY DEF Persist, uiVars, tokens, ghostVars
<1>4. CASE Command(t) = "turn" /\ PersistTurn(t)
  BY <1>1, <1>2, <1>3, <1>4 DEF Command, PersistTurn, TakesTurn, Send
<1>5. CASE Command(t) = "item" /\ PersistItem(t)
  BY <1>1, <1>2, <1>3, <1>5 DEF Command, PersistItem, TakesItem, Send
<1>6. CASE Command(t) = "replay" /\ PersistReplay
  BY <1>1, <1>2, <1>3, <1>6 DEF Command, PersistReplay
<1>7. CASE Command(t) = "flush" /\ PersistFlush(t)
  BY <1>1, <1>2, <1>3, <1>7 DEF Command, PersistFlush
<1> QED BY <1>4, <1>5, <1>6, <1>7 DEF Persist

(* What a failing step of the actor does.                                   *)
LEMMA PersistFailsShape ==
  ASSUME TypeInv, NEW t \in Turns, PersistFails(t)
  PROVE  /\ actor[t] /\ queue[t] # <<>> /\ queue' = [queue EXCEPT ![t] = <<>>]
         /\ \/ UNCHANGED <<where, stored>>
            \/ queue[t][1].kind = "turn" /\ TakesTurn(t)
            \/ queue[t][1].kind = "item" /\ TakesItem(t)
         /\ cancelled' = [cancelled EXCEPT ![t] = TRUE]
         /\ inbox' = Sent(t, <<Plain("lost")>>)
         /\ actor' = [actor EXCEPT ![t] = FALSE]
         /\ spent.failures < MaxFailures /\ spent' = [spent EXCEPT !["failures"] = @ + 1]
         /\ IF phase[t] = "flushing"
              THEN /\ outcome' = [outcome EXCEPT ![t] = "lost"]
                   /\ phase'   = [phase EXCEPT ![t] = "flushed"]
              ELSE outcome' = outcome /\ phase' = phase
         /\ UNCHANGED <<active, session, history, pending, attempt, ledger, emitted,
                        attemptCancelled, asking, verdict, stopped, era>>
<1>1. actor[t] /\ queue[t] # <<>>
  BY DEF PersistFails
<1>2. Head(queue[t]) = queue[t][1]
  BY <1>1, FirstCommand
<1>3. \/ UNCHANGED <<where, stored>>
      \/ queue[t][1].kind = "turn" /\ TakesTurn(t)
      \/ queue[t][1].kind = "item" /\ TakesItem(t)
  <2>1. MayStay(t)
    BY DEF PersistFails
  <2>2. CASE UNCHANGED <<where, stored>>
    BY <2>2
  <2>3. CASE /\ Command(t) = "turn"
             /\ where'  = [where EXCEPT ![t] = Home(t)]
             /\ stored' = [stored EXCEPT ![Home(t)] = Append(@, User(t))]
    BY <2>3, <1>2 DEF Command, TakesTurn
  <2>4. CASE /\ Command(t) = "item"
             /\ stored' = [stored EXCEPT ![where[t]] = Append(@, Head(queue[t]).item)]
             /\ UNCHANGED where
    BY <2>4, <1>2 DEF Command, TakesItem
  <2> QED BY <2>1, <2>2, <2>3, <2>4 DEF MayStay
<1> QED BY <1>1, <1>3 DEF PersistFails, Spend, Send, uiVars, ghostVars

(* What a session gets is the turn's own.                                   *)
Files(t) ==
  \/ UNCHANGED <<where, stored>>
  \/ \E i \in Items, s \in Turns :
       /\ where[t] \in {None, s} /\ where' = [where EXCEPT ![t] = s]
       /\ stored' = [stored EXCEPT ![s] = Append(@, i)]
       /\ i.turn = t /\ (i = User(t) \/ In(i, emitted[t]))

(* Taking the turn files at most the message.                               *)
LEMMA TakesTurnFiles ==
  ASSUME TypeInv, NEW t \in Turns, Thread(t), Lined(t), actor[t], queue[t] # <<>>,
         queue[t][1].kind = "turn" /\ TakesTurn(t)
  PROVE  Files(t)
<1>1. Home(t) \in Turns /\ where[t] \in {None, Home(t)}
  BY CommandIsTaken
<1>2. User(t) \in Items /\ User(t).turn = t
  BY UserType
<1> QED BY <1>1, <1>2 DEF Files, TakesTurn

(* Taking an item files just that item.                                     *)
LEMMA TakesItemFiles ==
  ASSUME TypeInv, NEW t \in Turns, Thread(t), Lined(t), Produced(t), actor[t], queue[t] # <<>>,
         queue[t][1].kind = "item" /\ TakesItem(t)
  PROVE  Files(t)
<1> DEFINE i == queue[t][1].item
<1>1. i \in Items /\ In(i, emitted[t]) /\ where[t] \in Turns
  BY CommandIsTaken
<1> HIDE DEF i
<1>2. i.turn = t
  BY <1>1 DEF In, Produced
<1>3. where' = [where EXCEPT ![t] = where[t]]
  BY DEF TakesItem, TypeInv
<1>4. stored' = [stored EXCEPT ![where[t]] = Append(@, i)]
  BY DEF TakesItem, i
<1> QED BY <1>1, <1>2, <1>3, <1>4 DEF Files

(* A step of the actor files at most one item, and only of its turn.        *)
LEMMA ActorFiles ==
  ASSUME TypeInv, NEW t \in Turns, Thread(t), Lined(t), Produced(t), Persist(t) \/ PersistFails(t)
  PROVE  Files(t)
<1>1. CASE Persist(t)
  BY <1>1, PersistShape, TakesTurnFiles, TakesItemFiles DEF Files
<1>2. CASE PersistFails(t)
  BY <1>2, PersistFailsShape, TakesTurnFiles, TakesItemFiles DEF Files
<1> QED BY <1>1, <1>2

-----------------------------------------------------------------------------
(* Types *)

(* A function updated at one place.                                         *)
LEMMA Updated ==
  ASSUME NEW D, NEW R, NEW f \in [D -> R], NEW x \in D, NEW v \in R
  PROVE  [f EXCEPT ![x] = v] \in [D -> R]
OBVIOUS

(* What a failure, a panic or a reset spends of the bounds.                 *)
LEMMA SpendType ==
  ASSUME spent \in SpentType
  PROVE  /\ spent.resets \in 0..MaxResets /\ spent.panics \in 0..MaxPanics
         /\ \A what \in {"failures", "panics", "resets"} :
              /\ DOMAIN spent = {"failures", "panics", "resets"}
              /\ [spent EXCEPT ![what] = @ + 1][what] = spent[what] + 1
              /\ \A other \in {"failures", "panics", "resets"} \ {what} :
                   [spent EXCEPT ![what] = @ + 1][other] = spent[other]
         /\ spent.failures < MaxFailures => [spent EXCEPT !["failures"] = @ + 1] \in SpentType
         /\ spent.panics < MaxPanics => [spent EXCEPT !["panics"] = @ + 1] \in SpentType
         /\ spent.resets < MaxResets => [spent EXCEPT !["resets"] = @ + 1] \in SpentType
BY BoundsAssumption DEF SpentType

(* A queue of commands is one after the turn or the flush is added.         *)
LEMMA NewCommand ==
  ASSUME TypeInv, NEW t \in Turns, NEW k \in {"turn", "flush"}
  PROVE  [queue EXCEPT ![t] = Append(@, Plain(k))] \in [Turns -> Seq(Commands)]
<1>1. Plain(k) \in Commands
  BY DeltaType
<1>2. queue \in [Turns -> Seq(Commands)] /\ queue[t] \in Seq(Commands)
  BY DEF TypeInv
<1> HIDE DEF Plain
<1>3. Append(queue[t], Plain(k)) \in Seq(Commands)
  BY <1>1, <1>2
<1> QED BY <1>2, <1>3

(* The channel holds events after one without data was sent.                *)
LEMMA PlainIsSent ==
  ASSUME TypeInv, NEW t \in Turns, NEW k \in Terminal \cup {"progress", "question"}
  PROVE  Sent(t, <<Plain(k)>>) \in Seq(Event)
<1>1. Plain(k) \in Event
  BY DeltaType
<1> QED BY <1>1, SentOne

(* The steps of the UI keep the types.                                      *)
LEMMA UiTypes ==
  ASSUME TypeInv, Interrupt \/ Reset \/ Reads \/ Closes
  PROVE  TypeInv'
<1>1. CASE Interrupt
  <2>1. active \in Turns
    BY <1>1 DEF Interrupt, TypeInv
  <2> QED BY <1>1, <2>1 DEF Interrupt, TypeInv, uiVars, workerVars, actorVars
<1>2. CASE Reset
  <2>1. spent' \in SpentType
    <3>1. spent \in SpentType
      BY DEF TypeInv
    <3> QED BY <1>2, <3>1, SpendType DEF Reset, FreshConversation, Spend
  <2>2. cancelled' \in [Turns -> BOOLEAN]
    BY <1>2 DEF Reset, FreshConversation, TypeInv
  <2>3. /\ active' = None /\ inbox' = <<>> /\ session' = None /\ history' = <<>> /\ pending' = None
        /\ asking' = {}
        /\ UNCHANGED <<phase, attempt, ledger, outcome, emitted, attemptCancelled, queue, actor,
                       where, stored, verdict, stopped, era>>
    BY <1>2 DEF Reset, FreshConversation, workerVars, actorVars, ghostVars
  <2>4. inbox' \in Seq(Event) /\ history' \in Seq(Items)
    BY <2>3
  <2> QED BY <2>1, <2>2, <2>3, <2>4 DEF TypeInv
<1>3. CASE Reads
  <2>1. /\ inbox' \in Seq(Event) /\ Reconcile
        /\ UNCHANGED <<active, asking, verdict, phase, attempt, ledger, outcome, emitted, cancelled,
                       attemptCancelled, queue, actor, where, stored, spent, stopped, era>>
    BY <1>3, ReadsShape
  <2>2. session' \in Turns \cup {None}
    BY <2>1, TurnDeltasAreRead DEF Reconcile, TypeInv
  <2>3. pending' \in Turns \cup {None}
    BY <2>1 DEF Reconcile, CommitPendingUser, TypeInv
  <2>4. history' \in Seq(Items)
    <3> DEFINE asked == IF Commits THEN <<User(pending)>> ELSE <<>>
    <3>1. Commits => pending \in Turns
      BY DEF Commits, TypeInv
    <3>2. Commits => User(pending) \in Items
      BY <3>1, UserType
    <3>3. asked \in Seq(Items)
      BY <3>2
    <3>4. NewItems \in Seq(Items) /\ history \in Seq(Items)
      BY TypeFetches DEF Fetches, TypeInv
    <3>5. history' = history \o asked \o NewItems
      BY <2>1 DEF Reconcile, CommitPendingUser
    <3> HIDE DEF asked
    <3> QED BY <3>3, <3>4, <3>5
  <2> QED BY <2>1, <2>2, <2>3, <2>4 DEF TypeInv
<1>4. CASE Closes
  <2>1. PICK event \in Terminal \cup {"vanished"} :
         /\ active \in Turns
         /\ active' = None /\ inbox' = <<>> /\ asking' = {} /\ pending' = None /\ session' = session
         /\ history' = history \o NewItems
         /\ verdict' = [verdict EXCEPT ![active] = event]
         /\ UNCHANGED <<phase, attempt, ledger, outcome, emitted, cancelled,
                        attemptCancelled, queue, actor, where, stored, spent, stopped, era>>
    BY <1>4, ClosesShape
  <2>2. history' \in Seq(Items)
    <3>1. NewItems \in Seq(Items) /\ history \in Seq(Items)
      BY TypeFetches DEF Fetches, TypeInv
    <3>2. history \o NewItems \in Seq(Items)
      BY <3>1
    <3> QED BY <2>1, <3>2
  <2>3. verdict' \in [Turns -> Terminal \cup {"none", "vanished"}]
    BY <2>1 DEF TypeInv
  <2>4. inbox' \in Seq(Event)
    BY <2>1
  <2> QED BY <2>1, <2>2, <2>3, <2>4 DEF TypeInv
<1> QED BY <1>1, <1>2, <1>3, <1>4

(* Producing keeps the types.                                               *)
LEMMA ProducesTypes ==
  ASSUME TypeInv, NEW t \in Turns, Emission(t)
  PROVE  TypeInv'
<1>1. PICK items, cmds, fits, events : Adds(t, items, cmds, fits, events) /\ Attempts(t, events)
  BY DEF Emission
<1>2. emitted' \in [Turns -> Seq(Items)]
  BY <1>1 DEF Adds, TypeInv
<1>3. queue' \in [Turns -> Seq(Commands)]
  <2>1. cmds \in Seq(Commands) /\ fits \in 0..Len(cmds)
    BY <1>1 DEF Adds
  <2>2. SubSeq(cmds, 1, fits) \in Seq(Commands)
    BY <2>1
  <2>3. queue' = [queue EXCEPT ![t] = @ \o SubSeq(cmds, 1, fits)]
    BY <1>1 DEF Adds
  <2> DEFINE some == SubSeq(cmds, 1, fits)
  <2> HIDE DEF some
  <2>4. queue \in [Turns -> Seq(Commands)] /\ queue[t] \in Seq(Commands)
    BY DEF TypeInv
  <2>5. queue[t] \o some \in Seq(Commands)
    BY <2>2, <2>4 DEF some
  <2>6. [queue EXCEPT ![t] = queue[t] \o some] \in [Turns -> Seq(Commands)]
    BY <2>4, <2>5, Updated
  <2> QED BY <2>3, <2>6 DEF some
<1>4. inbox' \in Seq(Event)
  <2>1. events \in Seq(Quiet) /\ inbox' = Sent(t, events)
    BY <1>1 DEF Adds
  <2>2. Quiet \subseteq Event
    BY DEF Quiet, Event, Terminal
  <2>3. events \in Seq(Event)
    BY <2>1, <2>2
  <2> QED BY <2>1, <2>3, SentType
<1>5. phase'[t] \in Phases
  BY <1>1 DEF Attempts, Phases
<1>6. /\ phase' \in [Turns -> Phases] /\ cancelled' \in [Turns -> BOOLEAN]
      /\ attemptCancelled' \in [Turns -> BOOLEAN] /\ ledger' \in [Turns -> SUBSET Nat]
      /\ outcome' \in [Turns -> Terminal \cup {"none"}]
  <2>1. phase' \in [Turns -> Phases]
    <3>1. phase \in [Turns -> Phases]
      BY DEF TypeInv
    <3>2. [phase EXCEPT ![t] = phase'[t]] \in [Turns -> Phases]
      BY <1>5, <3>1, Updated
    <3> QED BY <1>1, <3>2 DEF Attempts
  <2>2. cancelled' \in [Turns -> BOOLEAN]
    BY <1>1 DEF Attempts, TypeInv
  <2>3. attemptCancelled' \in [Turns -> BOOLEAN]
    BY <1>1 DEF Attempts, TypeInv
  <2>4. ledger' \in [Turns -> SUBSET Nat]
    BY <1>1 DEF Attempts, TypeInv
  <2>5. outcome' \in [Turns -> Terminal \cup {"none"}]
    BY <1>1 DEF Attempts, TypeInv
  <2> QED BY <2>1, <2>2, <2>3, <2>4, <2>5
<1>7. /\ asking' \subseteq asking
      /\ UNCHANGED <<active, session, history, pending, attempt, actor, where, stored, spent, verdict,
                     stopped, era>>
  BY <1>1 DEF Attempts, uiVars, actorVars, ghostVars
<1> QED BY <1>2, <1>3, <1>4, <1>6, <1>7 DEF TypeInv

(* The other steps of the worker keep the types.                            *)
LEMMA WorkerTypes ==
  ASSUME TypeInv, NEW t \in Turns,
         \/ Submit(t) \/ Answer(t) \/ WorkerStarts(t) \/ StreamDelta(t) \/ Ask(t)
         \/ ProviderFailsEarly(t) \/ (NextAttempt(t) /\ Thread(t)) \/ RetryCancelled(t) \/ SendFlush(t)
         \/ (SendVerdict(t) /\ Thread(t)) \/ WorkerPanics(t)
  PROVE  TypeInv'
<1>1. CASE Submit(t)
  <2>1. phase' \in [Turns -> Phases] /\ where' \in [Turns -> Turns \cup {None}]
    <3>1. phase \in [Turns -> Phases] /\ phase' = [phase EXCEPT ![t] = "start"]
      BY <1>1 DEF Submit, TypeInv
    <3>2. where \in [Turns -> Turns \cup {None}] /\ where' = [where EXCEPT ![t] = session]
      BY <1>1 DEF Submit, TypeInv
    <3>3. session \in Turns \cup {None} /\ "start" \in Phases
      BY DEF TypeInv, Phases
    <3> QED BY <3>1, <3>2, <3>3
  <2>2. era' \in [Turns -> 0..MaxResets]
    <3>1. spent.resets \in 0..MaxResets
      BY SpendType DEF TypeInv
    <3> QED BY <1>1, <3>1 DEF Submit, TypeInv
  <2>3. inbox' \in Seq(Event)
    BY <1>1 DEF Submit
  <2>4. {active', session', pending'} \subseteq Turns \cup {None}
    BY <1>1 DEF Submit, TypeInv
  <2>5. UNCHANGED <<history, attempt, cancelled, attemptCancelled, ledger, outcome, emitted, queue,
                    actor, stored, asking, spent, verdict, stopped>>
    BY <1>1 DEF Submit, tokens
  <2> QED BY <2>1, <2>2, <2>3, <2>4, <2>5 DEF TypeInv
<1>2. CASE Answer(t)
  BY <1>2 DEF Answer, TypeInv, uiVars, workerVars, tokens, actorVars, ghostVars
<1>3. CASE WorkerStarts(t)
  <2>5. inbox \in Seq(Event) /\ queue \in [Turns -> Seq(Commands)] /\ phase \in [Turns -> Phases]
    BY DEF TypeInv
  <2>6. \/ Send(t, <<Plain("interrupted")>>) /\ UNCHANGED queue /\ phase' = [phase EXCEPT ![t] = "done"]
        \/ /\ queue' = [queue EXCEPT ![t] = Append(@, Plain("turn"))] /\ UNCHANGED inbox
           /\ phase' = [phase EXCEPT ![t] = "attempt"]
    BY <1>3 DEF WorkerStarts
  <2>7. "interrupted" \in Terminal
    BY DEF Terminal
  <2>1. inbox' \in Seq(Event)
    BY <2>5, <2>6, <2>7, PlainIsSent DEF Send
  <2>2. queue' \in [Turns -> Seq(Commands)]
    BY <2>5, <2>6, NewCommand
  <2>3. phase' \in [Turns -> Phases]
    BY <2>5, <2>6 DEF Phases
  <2>4. UNCHANGED <<active, session, history, pending, attempt, ledger, outcome, emitted, cancelled,
                    attemptCancelled, actor, where, stored, asking, spent, verdict, stopped, era>>
    BY <1>3 DEF WorkerStarts, uiVars, tokens, actorVars, ghostVars
  <2> QED BY <2>1, <2>2, <2>3, <2>4 DEF TypeInv
<1>4. CASE StreamDelta(t)
  <2>1. inbox' \in Seq(Event)
    BY <1>4, PlainIsSent DEF StreamDelta, Send
  <2> QED BY <1>4, <2>1 DEF StreamDelta, TypeInv, uiVars, workerVars, tokens, actorVars, ghostVars
<1>5. CASE Ask(t)
  <2>1. inbox' \in Seq(Event)
    BY <1>5, PlainIsSent DEF Ask, Send
  <2> QED BY <1>5, <2>1 DEF Ask, TypeInv, uiVars, workerVars, tokens, actorVars, ghostVars
<1>6. CASE ProviderFailsEarly(t)
  <2>1. inbox' \in Seq(Event)
    BY <1>6, PlainIsSent DEF ProviderFailsEarly, Send
  <2>2. phase' \in [Turns -> Phases]
    BY <1>6 DEF ProviderFailsEarly, TypeInv, Phases
  <2> QED BY <1>6, <2>1, <2>2 DEF ProviderFailsEarly, TypeInv, uiVars, tokens, actorVars, ghostVars
<1>7. CASE NextAttempt(t) /\ Thread(t)
  <2>1. phase' \in [Turns -> Phases] /\ attemptCancelled' \in [Turns -> BOOLEAN]
    BY <1>7 DEF NextAttempt, TypeInv, Phases
  <2>2. attempt' \in [Turns -> 0..MaxRetries]
    <3>1. attempt \in [Turns -> 0..MaxRetries] /\ MaxRetries \in Nat /\ attempt[t] < MaxRetries
      BY <1>7, BoundsAssumption DEF NextAttempt, Thread, TypeInv
    <3>2. attempt[t] + 1 \in 0..MaxRetries
      BY <3>1
    <3> QED BY <1>7, <3>1, <3>2 DEF NextAttempt
  <2> QED BY <1>7, <2>1, <2>2 DEF NextAttempt, TypeInv, uiVars, actorVars, ghostVars
<1>8. CASE RetryCancelled(t)
  <2>1. phase' \in [Turns -> Phases] /\ outcome' \in [Turns -> Terminal \cup {"none"}]
    BY <1>8 DEF RetryCancelled, TypeInv, Phases, Terminal
  <2> QED BY <1>8, <2>1 DEF RetryCancelled, TypeInv, uiVars, tokens, actorVars, ghostVars
<1>9. CASE SendFlush(t)
  <2>1. phase' \in [Turns -> Phases] /\ outcome' \in [Turns -> Terminal \cup {"none"}]
    BY <1>9 DEF SendFlush, TypeInv, Phases, Terminal
  <2>2. queue' \in [Turns -> Seq(Commands)]
    <3>1. queue' = queue \/ queue' = [queue EXCEPT ![t] = Append(@, Plain("flush"))]
      BY <1>9 DEF SendFlush
    <3>2. queue \in [Turns -> Seq(Commands)]
      BY DEF TypeInv
    <3> QED BY <3>1, <3>2, NewCommand
  <2> QED BY <1>9, <2>1, <2>2 DEF SendFlush, TypeInv, uiVars, tokens, actorVars, ghostVars
<1>10. CASE SendVerdict(t) /\ Thread(t)
  <2>1. outcome[t] \in Terminal
    BY <1>10 DEF SendVerdict, Thread
  <2>2. inbox' \in Seq(Event)
    BY <1>10, <2>1, PlainIsSent DEF SendVerdict, Send
  <2>3. phase' \in [Turns -> Phases]
    BY <1>10 DEF SendVerdict, TypeInv, Phases
  <2> QED BY <1>10, <2>2, <2>3 DEF SendVerdict, TypeInv, uiVars, tokens, actorVars, ghostVars
<1>11. CASE WorkerPanics(t)
  <2>1. spent' \in SpentType
    <3>1. spent \in SpentType
      BY DEF TypeInv
    <3> QED BY <1>11, <3>1, SpendType DEF WorkerPanics, Spend
  <2>2. /\ phase' \in [Turns -> Phases] /\ actor' \in [Turns -> BOOLEAN]
        /\ queue' \in [Turns -> Seq(Commands)]
    BY <1>11 DEF WorkerPanics, TypeInv, Phases
  <2> QED BY <1>11, <2>1, <2>2 DEF WorkerPanics, TypeInv, uiVars, tokens, ghostVars
<1> QED BY <1>1, <1>2, <1>3, <1>4, <1>5, <1>6, <1>7, <1>8, <1>9, <1>10, <1>11

(* The steps of the actor keep the types.                                   *)
LEMMA ActorTypes ==
  ASSUME TypeInv, NEW t \in Turns, Thread(t), Lined(t), Produced(t), Persist(t) \/ PersistFails(t)
  PROVE  TypeInv'
<1>1. where' \in [Turns -> Turns \cup {None}] /\ stored' \in [Turns -> Seq(Items)]
  <2>1. Files(t)
    BY ActorFiles
  <2>2. CASE UNCHANGED <<where, stored>>
    BY <2>2 DEF TypeInv
  <2>3. ASSUME NEW i \in Items, NEW s \in Turns, where' = [where EXCEPT ![t] = s],
               stored' = [stored EXCEPT ![s] = Append(@, i)]
        PROVE  where' \in [Turns -> Turns \cup {None}] /\ stored' \in [Turns -> Seq(Items)]
    <3>1. stored[s] \in Seq(Items)
      BY DEF TypeInv
    <3>2. Append(stored[s], i) \in Seq(Items)
      BY <3>1
    <3> QED BY <2>3, <3>2 DEF TypeInv
  <2> QED BY <2>1, <2>2, <2>3 DEF Files
<1>2. CASE Persist(t)
  <2>1. /\ actor[t] /\ queue[t] # <<>> /\ queue' = [queue EXCEPT ![t] = Tail(@)]
        /\ UNCHANGED <<active, session, history, pending, attempt, ledger, outcome, emitted,
                        cancelled, attemptCancelled, actor, asking, spent, verdict, stopped, era>>
    BY <1>2, PersistShape
  <2>2. queue' \in [Turns -> Seq(Commands)]
    BY <2>1, FirstCommand DEF TypeInv
  <2>3. phase' \in [Turns -> Phases]
    BY <1>2, PersistShape DEF TypeInv, Phases
  <2>4. inbox' \in Seq(Event)
    <3>1. Home(t) \in Turns /\ (queue[t][1].kind = "item" => queue[t][1].item \in Items)
      BY <2>1, CommandIsTaken
    <3>2. TurnDelta(Home(t)) \in Event
      BY <3>1, DeltaType
    <3>3. queue[t][1].kind = "item" => ItemDelta(queue[t][1].item) \in Event
      BY <3>1, DeltaType
    <3>4. \/ inbox' = inbox \/ inbox' = Sent(t, <<TurnDelta(Home(t))>>)
          \/ queue[t][1].kind = "item" /\ inbox' = Sent(t, <<ItemDelta(queue[t][1].item)>>)
      BY <1>2, PersistShape
    <3>5. CASE inbox' = inbox
      BY <3>5 DEF TypeInv
    <3>6. CASE inbox' = Sent(t, <<TurnDelta(Home(t))>>)
      BY <3>2, <3>6, SentOne
    <3>7. CASE queue[t][1].kind = "item" /\ inbox' = Sent(t, <<ItemDelta(queue[t][1].item)>>)
      BY <3>3, <3>7, SentOne
    <3> QED BY <3>4, <3>5, <3>6, <3>7
  <2> QED BY <1>1, <2>1, <2>2, <2>3, <2>4 DEF TypeInv
<1>3. CASE PersistFails(t)
  <2>1. /\ queue' = [queue EXCEPT ![t] = <<>>]
        /\ cancelled' = [cancelled EXCEPT ![t] = TRUE]
        /\ inbox' = Sent(t, <<Plain("lost")>>)
        /\ actor' = [actor EXCEPT ![t] = FALSE]
        /\ spent.failures < MaxFailures /\ spent' = [spent EXCEPT !["failures"] = @ + 1]
        /\ UNCHANGED <<active, session, history, pending, attempt, ledger, emitted,
                        attemptCancelled, asking, verdict, stopped, era>>
    BY <1>3, PersistFailsShape
  <2>2. spent' \in SpentType
    <3>1. spent \in SpentType
      BY DEF TypeInv
    <3> QED BY <2>1, <3>1, SpendType
  <2>3. /\ queue' \in [Turns -> Seq(Commands)] /\ cancelled' \in [Turns -> BOOLEAN]
        /\ actor' \in [Turns -> BOOLEAN]
    <3>1. queue \in [Turns -> Seq(Commands)] /\ cancelled \in [Turns -> BOOLEAN]
          /\ actor \in [Turns -> BOOLEAN]
      BY DEF TypeInv
    <3>2. <<>> \in Seq(Commands)
      OBVIOUS
    <3> QED BY <2>1, <3>1, <3>2
  <2>4. phase' \in [Turns -> Phases] /\ outcome' \in [Turns -> Terminal \cup {"none"}]
    <3>1. phase \in [Turns -> Phases] /\ outcome \in [Turns -> Terminal \cup {"none"}]
      BY DEF TypeInv
    <3>2. \/ phase' = phase /\ outcome' = outcome
          \/ phase' = [phase EXCEPT ![t] = "flushed"] /\ outcome' = [outcome EXCEPT ![t] = "lost"]
      BY <1>3, PersistFailsShape
    <3> QED BY <3>1, <3>2 DEF Phases, Terminal
  <2>5. inbox' \in Seq(Event)
    BY <2>1, PlainIsSent DEF Terminal
  <2> QED BY <1>1, <2>1, <2>2, <2>3, <2>4, <2>5 DEF TypeInv
<1> QED BY <1>2, <1>3

-----------------------------------------------------------------------------
(* The steps, by what they are about *)

TurnStep(t) ==
  \/ Submit(t) \/ Answer(t) \/ WorkerStarts(t) \/ StreamDelta(t) \/ Ask(t) \/ Produces(t)
  \/ ProviderFailsEarly(t) \/ NextAttempt(t) \/ RetryCancelled(t) \/ SendFlush(t)
  \/ SendVerdict(t) \/ WorkerPanics(t) \/ Persist(t) \/ PersistFails(t)

(* Every step is a turn's or the UI's.                                      *)
LEMMA NextCases ==
  ASSUME Next
  PROVE  (\E t \in Turns : TurnStep(t)) \/ Interrupt \/ Reset \/ Reads \/ Closes
BY DEF Next, Drain, Ends, TurnStep, Produces, Reads, Closes

(* A step of a turn is no step of another one.                              *)
Alone(t) ==
  \A u \in Turns \ {t} :
    /\ phase'[u] = phase[u] /\ attempt'[u] = attempt[u] /\ cancelled'[u] = cancelled[u]
    /\ attemptCancelled'[u] = attemptCancelled[u] /\ ledger'[u] = ledger[u]
    /\ outcome'[u] = outcome[u] /\ queue'[u] = queue[u] /\ actor'[u] = actor[u]
    /\ where'[u] = where[u] /\ emitted'[u] = emitted[u] /\ era'[u] = era[u]

(* Producing touches no other turn.                                         *)
LEMMA ProducesAlone ==
  ASSUME TypeInv, NEW t \in Turns, Emission(t)
  PROVE  Alone(t)
<1>1. PICK items, cmds, fits, events : Adds(t, items, cmds, fits, events) /\ Attempts(t, events)
  BY DEF Emission
<1>2. \A u \in Turns \ {t} : emitted'[u] = emitted[u] /\ queue'[u] = queue[u]
  BY <1>1 DEF Adds, TypeInv
<1>3. \A u \in Turns \ {t} :
        /\ phase'[u] = phase[u] /\ cancelled'[u] = cancelled[u]
        /\ attemptCancelled'[u] = attemptCancelled[u] /\ ledger'[u] = ledger[u]
        /\ outcome'[u] = outcome[u]
  <2> SUFFICES ASSUME NEW u \in Turns \ {t}
               PROVE  /\ phase'[u] = phase[u] /\ cancelled'[u] = cancelled[u]
                      /\ attemptCancelled'[u] = attemptCancelled[u] /\ ledger'[u] = ledger[u]
                      /\ outcome'[u] = outcome[u]
    OBVIOUS
  <2>1. phase'[u] = phase[u]
    BY <1>1 DEF Attempts, TypeInv
  <2>2. cancelled'[u] = cancelled[u]
    BY <1>1 DEF Attempts, TypeInv
  <2>3. attemptCancelled'[u] = attemptCancelled[u]
    BY <1>1 DEF Attempts, TypeInv
  <2>4. ledger'[u] = ledger[u]
    BY <1>1 DEF Attempts, TypeInv
  <2>5. outcome'[u] = outcome[u]
    BY <1>1 DEF Attempts, TypeInv
  <2> QED BY <2>1, <2>2, <2>3, <2>4, <2>5
<1>4. UNCHANGED <<attempt, actor, where, era>>
  BY <1>1 DEF Attempts, actorVars, ghostVars
<1> QED BY <1>2, <1>3, <1>4 DEF Alone

(* A step of a turn touches no other turn.                                  *)
LEMMA StepsAlone ==
  ASSUME TypeInv, NEW t \in Turns, Thread(t), Lined(t), Produced(t), TurnStep(t)
  PROVE  Alone(t)
<1>1. CASE Submit(t)
  BY <1>1 DEF Submit, TypeInv, tokens, Alone
<1>2. CASE Answer(t) \/ StreamDelta(t) \/ Ask(t)
  BY <1>2 DEF Answer, StreamDelta, Ask, Alone, workerVars, tokens, actorVars, ghostVars
<1>3. CASE WorkerStarts(t)
  <2>1. \A u \in Turns \ {t} : phase'[u] = phase[u] /\ queue'[u] = queue[u]
    BY <1>3 DEF WorkerStarts, TypeInv
  <2> QED BY <1>3, <2>1 DEF WorkerStarts, Alone, tokens, actorVars, ghostVars
<1>4. CASE Produces(t)
  BY <1>4, ProducesIsEmission, ProducesAlone
<1>5. CASE ProviderFailsEarly(t)
  BY <1>5 DEF ProviderFailsEarly, TypeInv, tokens, actorVars, ghostVars, Alone
<1>6. CASE NextAttempt(t)
  BY <1>6 DEF NextAttempt, TypeInv, actorVars, ghostVars, Alone
<1>7. CASE RetryCancelled(t)
  BY <1>7 DEF RetryCancelled, TypeInv, tokens, actorVars, ghostVars, Alone
<1>8. CASE SendFlush(t)
  <2>1. \A u \in Turns \ {t} :
          phase'[u] = phase[u] /\ queue'[u] = queue[u] /\ outcome'[u] = outcome[u]
    BY <1>8 DEF SendFlush, TypeInv
  <2> QED BY <1>8, <2>1 DEF SendFlush, Alone, tokens, actorVars, ghostVars
<1>9. CASE SendVerdict(t)
  BY <1>9 DEF SendVerdict, TypeInv, tokens, actorVars, ghostVars, Alone
<1>10. CASE WorkerPanics(t)
  BY <1>10 DEF WorkerPanics, TypeInv, tokens, ghostVars, Alone
<1>11. CASE Persist(t) \/ PersistFails(t)
  <2>1. \A u \in Turns \ {t} : where'[u] = where[u]
    <3>1. where' = where \/ \E s \in Turns : where' = [where EXCEPT ![t] = s]
      BY <1>11, ActorFiles DEF Files
    <3> QED BY <3>1 DEF TypeInv
  <2>2. CASE Persist(t)
    <3>2. /\ queue' = [queue EXCEPT ![t] = Tail(@)]
          /\ phase' = phase \/ phase' = [phase EXCEPT ![t] = "flushed"]
      BY <2>2, PersistShape
    <3>1. \A u \in Turns \ {t} : phase'[u] = phase[u] /\ queue'[u] = queue[u]
      BY <3>2 DEF TypeInv
    <3> QED BY <2>1, <2>2, <3>1, PersistShape DEF Alone
  <2>3. CASE PersistFails(t)
    <3>1. /\ queue' = [queue EXCEPT ![t] = <<>>]
          /\ cancelled' = [cancelled EXCEPT ![t] = TRUE]
          /\ actor' = [actor EXCEPT ![t] = FALSE]
          /\ \/ outcome' = outcome /\ phase' = phase
             \/ /\ outcome' = [outcome EXCEPT ![t] = "lost"]
                /\ phase'   = [phase EXCEPT ![t] = "flushed"]
          /\ UNCHANGED <<attempt, ledger, emitted, attemptCancelled, era>>
      BY <2>3, PersistFailsShape
    <3>2. \A u \in Turns \ {t} : /\ queue'[u] = queue[u] /\ cancelled'[u] = cancelled[u]
                                 /\ actor'[u] = actor[u]
      BY <3>1 DEF TypeInv
    <3>3. \A u \in Turns \ {t} : phase'[u] = phase[u] /\ outcome'[u] = outcome[u]
      BY <3>1 DEF TypeInv
    <3> QED BY <2>1, <3>1, <3>2, <3>3 DEF Alone
  <2> QED BY <1>11, <2>2, <2>3
<1> QED BY <1>1, <1>2, <1>3, <1>4, <1>5, <1>6, <1>7, <1>8, <1>9, <1>10, <1>11 DEF TurnStep

(* And what it leaves of the rest.                                          *)
LEMMA StepsFrame ==
  ASSUME TypeInv, NEW t \in Turns, Thread(t), Lined(t), Produced(t), TurnStep(t)
  PROVE  /\ Submit(t) \/ UNCHANGED <<active, pending, era>>
         /\ UNCHANGED <<session, history, verdict, stopped>>
         /\ spent'.resets = spent.resets /\ spent'.panics >= spent.panics
         /\ asking' \subseteq asking \/ Ask(t)
<1>1. spent \in SpentType
  BY DEF TypeInv
<1>2. spent.panics \in Nat
  BY <1>1, SpendType, BoundsAssumption
<1>3. CASE Submit(t)
  BY <1>2, <1>3 DEF Submit
<1>4. CASE Answer(t) \/ WorkerStarts(t) \/ StreamDelta(t) \/ Ask(t)
  BY <1>2, <1>4 DEF Answer, WorkerStarts, StreamDelta, Ask, uiVars, ghostVars
<1>5. CASE Produces(t)
  <2>1. PICK items, cmds, fits, events : Adds(t, items, cmds, fits, events) /\ Attempts(t, events)
    BY <1>5, ProducesIsEmission DEF Emission
  <2> QED BY <2>1, <1>2 DEF Attempts, uiVars, ghostVars
<1>6. CASE ProviderFailsEarly(t) \/ NextAttempt(t) \/ RetryCancelled(t) \/ SendFlush(t) \/ SendVerdict(t)
  BY <1>2, <1>6 DEF ProviderFailsEarly, NextAttempt, RetryCancelled, SendFlush, SendVerdict, uiVars,
     ghostVars
<1>7. CASE WorkerPanics(t)
  <2>1. spent'.resets = spent.resets /\ spent'.panics = spent.panics + 1
    BY <1>1, <1>7, SpendType DEF WorkerPanics, Spend
  <2> QED BY <2>1, <1>2, <1>7 DEF WorkerPanics, uiVars, ghostVars
<1>8. CASE Persist(t)
  <2>1. UNCHANGED <<active, session, history, pending, asking, spent, verdict, stopped, era>>
    BY <1>8, PersistShape
  <2> QED BY <2>1, <1>2
<1>9. CASE PersistFails(t)
  <2>1. spent' = [spent EXCEPT !["failures"] = @ + 1]
    BY <1>9, PersistFailsShape
  <2>2. spent'.resets = spent.resets /\ spent'.panics = spent.panics
    BY <1>1, <2>1, SpendType
  <2> QED BY <2>2, <1>2, <1>9, PersistFailsShape
<1> QED BY <1>3, <1>4, <1>5, <1>6, <1>7, <1>8, <1>9 DEF TurnStep

(* What a new conversation leaves behind.                                   *)
LEMMA ResetShape ==
  ASSUME TypeInv, Reset
  PROVE  /\ active' = None /\ inbox' = <<>> /\ session' = None /\ history' = <<>> /\ pending' = None
         /\ asking' = {} /\ cancelled' = [t \in Turns |-> cancelled[t] \/ t = active]
         /\ spent'.resets = spent.resets + 1 /\ spent'.panics = spent.panics
         /\ spent.resets \in Nat
         /\ UNCHANGED <<phase, attempt, ledger, outcome, emitted, attemptCancelled, queue, actor,
                        where, stored, verdict, stopped, era>>
<1>1. spent \in SpentType
  BY DEF TypeInv
<1>2. spent' = [spent EXCEPT !["resets"] = @ + 1]
  BY DEF Reset, FreshConversation, Spend
<1>3. spent.resets \in Nat /\ spent'.resets = spent.resets + 1 /\ spent'.panics = spent.panics
  BY <1>1, <1>2, SpendType, BoundsAssumption
<1> QED BY <1>3 DEF Reset, FreshConversation, workerVars, actorVars, ghostVars

(* What a request to stop leaves behind.                                    *)
LEMMA InterruptShape ==
  ASSUME TypeInv, Interrupt
  PROVE  /\ active \in Turns /\ cancelled' = [cancelled EXCEPT ![active] = TRUE]
         /\ asking' = {} /\ stopped' = stopped \cup {active}
         /\ UNCHANGED <<active, inbox, session, history, pending, phase, attempt, ledger, outcome,
                        emitted, attemptCancelled, queue, actor, where, stored, spent, verdict, era>>
BY DEF Interrupt, TypeInv, uiVars, workerVars, actorVars

-----------------------------------------------------------------------------
(* The thread of a turn *)

(* A turn's step keeps the thread part of the others.                       *)
LEMMA ThreadOfAnother ==
  ASSUME TypeInv, NEW t \in Turns, Thread(t), Lined(t), Produced(t), TurnStep(t),
         NEW u \in Turns \ {t}, Thread(u)
  PROVE  Thread(u)'
<1>1. Alone(t)
  BY StepsAlone
<1>2. verdict' = verdict
  BY StepsFrame
<1>3. active' # u <=> active # u
  <2>1. Submit(t) \/ active' = active
    BY StepsFrame
  <2> QED BY <2>1, NoneIsNoTurn DEF Submit
<1> QED BY <1>1, <1>2, <1>3 DEF Alone, Thread, Stopped

(* A turn's step keeps the thread part of its own turn.                     *)
LEMMA ThreadKept ==
  ASSUME TypeInv, NEW t \in Turns, Thread(t), Lined(t), Produced(t), TurnStep(t)
  PROVE  Thread(t)'
<1> USE NoneIsNoTurn
<1>t. /\ phase \in [Turns -> Phases] /\ attempt \in [Turns -> 0..MaxRetries]
      /\ cancelled \in [Turns -> BOOLEAN] /\ attemptCancelled \in [Turns -> BOOLEAN]
      /\ ledger \in [Turns -> SUBSET Nat] /\ outcome \in [Turns -> Terminal \cup {"none"}]
      /\ queue \in [Turns -> Seq(Commands)] /\ actor \in [Turns -> BOOLEAN]
      /\ emitted \in [Turns -> Seq(Items)]
  BY DEF TypeInv
<1>1. CASE Submit(t)
  <2>1. phase'[t] = "start" /\ active' = t
    BY <1>1, <1>t DEF Submit
  <2>2. UNCHANGED <<attempt, ledger, outcome, emitted, cancelled, attemptCancelled, queue, actor>>
    BY <1>1 DEF Submit, tokens
  <2> QED BY <1>1, <2>1, <2>2 DEF Submit, Thread
<1>2. CASE Answer(t) \/ StreamDelta(t) \/ Ask(t)
  <2>1. UNCHANGED <<phase, attempt, ledger, outcome, emitted, cancelled, attemptCancelled, queue, actor,
                    active, verdict>>
    BY <1>2 DEF Answer, StreamDelta, Ask, workerVars, tokens, actorVars, ghostVars
  <2> QED BY <2>1 DEF Thread, Stopped
<1>3. CASE WorkerStarts(t)
  <2>1. UNCHANGED <<attempt, ledger, outcome, emitted, cancelled, attemptCancelled, active, verdict>>
    BY <1>3 DEF WorkerStarts, tokens, ghostVars
  <2>2. phase[t] = "start" /\ phase'[t] \in {"done", "attempt"}
    BY <1>3, <1>t DEF WorkerStarts
  <2> QED BY <2>1, <2>2 DEF Thread, Stopped
<1>4. CASE Produces(t)
  <2>1. PICK items, cmds, fits, events : Adds(t, items, cmds, fits, events) /\ Attempts(t, events)
    BY <1>4, ProducesIsEmission DEF Emission
  <2>2. /\ phase[t] = "attempt" /\ phase'[t] \in {"attempt", "ending"} /\ active' = active
        /\ Stopped(t) => Stopped(t)'
        /\ attemptCancelled'[t] => attemptCancelled[t] \/ \E n \in 1..Len(events) : events[n].kind = "lost"
        /\ phase'[t] = "ending" => ledger'[t] = {} /\ outcome'[t] \in Terminal
    BY <2>1 DEF Attempts
  <2>3. emitted'[t] = emitted[t] \o items /\ items \in Seq(Items) /\ emitted[t] \in Seq(Items)
    BY <2>1, <1>t DEF Adds
  <2>4. (\E n \in 1..Len(events) : events[n].kind = "lost") => items # <<>>
    BY <2>1 DEF Adds
  <2> HIDE <1>t
  <2>5. emitted[t] # <<>> \/ items # <<>> => emitted'[t] # <<>>
    BY <2>3
  <2>6. attemptCancelled'[t] => emitted'[t] # <<>>
    BY <2>2, <2>4, <2>5 DEF Thread
  <2> QED BY <2>2, <2>6 DEF Thread
<1>5. CASE ProviderFailsEarly(t)
  <2>1. UNCHANGED <<attempt, ledger, outcome, emitted, cancelled, attemptCancelled, queue, actor, active,
                    verdict>>
    BY <1>5 DEF ProviderFailsEarly, tokens, actorVars, ghostVars
  <2>2. phase[t] = "attempt" /\ phase'[t] = "retry" /\ ledger[t] = {} /\ attempt[t] < MaxRetries
        /\ emitted[t] = <<>>
    BY <1>5, <1>t DEF ProviderFailsEarly, Streaming, MayRetry
  <2> QED BY <2>1, <2>2 DEF Thread, Stopped
<1>6. CASE NextAttempt(t)
  <2>1. UNCHANGED <<ledger, outcome, emitted, cancelled, queue, actor, active, verdict>>
    BY <1>6 DEF NextAttempt, actorVars, ghostVars
  <2>2. phase[t] = "retry" /\ phase'[t] = "attempt" /\ ~cancelled[t] /\ attemptCancelled'[t] = FALSE
    BY <1>6, <1>t DEF NextAttempt
  <2>3. ~attemptCancelled[t]
    BY <2>2 DEF Thread
  <2> QED BY <2>1, <2>2, <2>3 DEF Thread, Stopped
<1>7. CASE RetryCancelled(t)
  <2>1. UNCHANGED <<attempt, ledger, emitted, cancelled, attemptCancelled, queue, actor, active, verdict>>
    BY <1>7 DEF RetryCancelled, tokens, actorVars, ghostVars
  <2>2. phase[t] = "retry" /\ phase'[t] = "ending" /\ outcome'[t] = "interrupted"
    BY <1>7, <1>t DEF RetryCancelled
  <2> QED BY <2>1, <2>2 DEF Thread, Stopped, Terminal
<1>8. CASE SendFlush(t)
  <2>1. UNCHANGED <<attempt, ledger, emitted, cancelled, attemptCancelled, actor, active, verdict>>
    BY <1>8 DEF SendFlush, tokens, actorVars, ghostVars
  <2>2. phase[t] = "ending" /\ phase'[t] \in {"flushing", "flushed"}
        /\ outcome'[t] \in {outcome[t], "lost"}
    BY <1>8, <1>t DEF SendFlush
  <2> QED BY <2>1, <2>2 DEF Thread, Stopped, Terminal
<1>9. CASE SendVerdict(t)
  <2>1. UNCHANGED <<attempt, ledger, outcome, emitted, cancelled, attemptCancelled, queue, actor, active,
                    verdict>>
    BY <1>9 DEF SendVerdict, tokens, actorVars, ghostVars
  <2>2. phase'[t] = "done"
    BY <1>9, <1>t DEF SendVerdict
  <2> QED BY <2>1, <2>2 DEF Thread
<1>10. CASE WorkerPanics(t)
  <2>1. UNCHANGED <<attempt, ledger, outcome, emitted, cancelled, attemptCancelled, active, verdict>>
    BY <1>10 DEF WorkerPanics, tokens, ghostVars
  <2>2. phase'[t] = "done"
    BY <1>10, <1>t DEF WorkerPanics
  <2> QED BY <2>1, <2>2 DEF Thread
<1>11. CASE Persist(t)
  <2>1. UNCHANGED <<active, attempt, ledger, outcome, emitted, cancelled, attemptCancelled, actor, verdict>>
    BY <1>11, PersistShape
  <2>2. phase'[t] = phase[t] \/ (phase[t] = "flushing" /\ phase'[t] = "flushed")
    BY <1>11, <1>t, PersistShape, CommandIsTaken
  <2>3. phase[t] \in {"attempt", "retry", "ending", "flushing"}
    BY <1>11, PersistShape, CommandIsTaken
  <2> QED BY <2>1, <2>2, <2>3 DEF Thread, Stopped
<1>12. CASE PersistFails(t)
  <2>1. UNCHANGED <<active, attempt, ledger, emitted, attemptCancelled, verdict>>
    BY <1>12, PersistFailsShape
  <2>2. cancelled' = [cancelled EXCEPT ![t] = TRUE]
        /\ \/ outcome' = outcome /\ phase' = phase
           \/ /\ phase[t] = "flushing" /\ outcome' = [outcome EXCEPT ![t] = "lost"]
              /\ phase'   = [phase EXCEPT ![t] = "flushed"]
    BY <1>12, PersistFailsShape
  <2>3. cancelled'[t] /\ \/ outcome'[t] = outcome[t] /\ phase'[t] = phase[t]
                         \/ phase[t] = "flushing" /\ outcome'[t] = "lost" /\ phase'[t] = "flushed"
    BY <2>2, <1>t
  <2>4. phase[t] \in {"attempt", "retry", "ending", "flushing"}
    BY <1>12, PersistFailsShape, CommandIsTaken
  <2> QED BY <2>1, <2>3, <2>4 DEF Thread, Stopped, Terminal
<1> QED BY <1>1, <1>2, <1>3, <1>4, <1>5, <1>6, <1>7, <1>8, <1>9, <1>10, <1>11, <1>12 DEF TurnStep

(* The UI's steps keep the thread part.                                     *)
LEMMA ThreadInUi ==
  ASSUME TypeInv, Screen, Interrupt \/ Reset \/ Reads \/ Closes, NEW u \in Turns, Thread(u)
  PROVE  Thread(u)'
<1> USE NoneIsNoTurn
<1>1. CASE Interrupt
  <2>1. cancelled'[u] <=> cancelled[u] \/ u = active
    BY <1>1, InterruptShape DEF TypeInv
  <2> QED BY <1>1, <2>1, InterruptShape DEF Thread, Stopped
<1>2. CASE Reset
  <2>1. cancelled'[u] <=> cancelled[u] \/ u = active
    BY <1>2, ResetShape
  <2> QED BY <1>2, <2>1, ResetShape DEF Thread, Stopped
<1>3. CASE Reads
  <2>1. UNCHANGED <<active, verdict, phase, attempt, ledger, outcome, emitted, cancelled,
                    attemptCancelled, queue, actor>>
    BY <1>3, ReadsShape
  <2> QED BY <2>1 DEF Thread, Stopped
<1>4. CASE Closes
  <2>1. PICK event \in Terminal \cup {"vanished"} :
         /\ active \in Turns /\ active' = None
         /\ verdict' = [verdict EXCEPT ![active] = event]
         /\ event = "vanished" => phase[active] = "done" /\ ~Has(Terminal)
         /\ event # "vanished" => \E i \in 1..Len(inbox) : inbox[i].kind = event
         /\ UNCHANGED <<phase, attempt, ledger, outcome, emitted, cancelled,
                        attemptCancelled, queue, actor>>
    BY <1>4, ClosesShape
  <2>2. u # active => verdict'[u] = verdict[u]
    BY <2>1 DEF TypeInv
  <2>3. Stopped(active) \/ phase[active] = "done"
    <3>1. event # "vanished" => Has(Terminal)
      BY <2>1 DEF Has
    <3> QED BY <2>1, <3>1 DEF Screen
  <2> QED BY <2>1, <2>2, <2>3 DEF Thread, Stopped
<1> QED BY <1>1, <1>2, <1>3, <1>4

-----------------------------------------------------------------------------
(* The queue of a turn *)

(* c is a followed by b, position by position.                              *)
Joined(c, a, b) ==
  /\ Len(c) = Len(a) + Len(b)
  /\ \A n \in 1..Len(a) : n \in 1..Len(c) /\ c[n] = a[n]
  /\ \A n \in 1..Len(b) : Len(a) + n \in 1..Len(c) /\ c[Len(a) + n] = b[n]
  /\ \A n \in 1..Len(c) : n \in 1..Len(a) \/ \E m \in 1..Len(b) : n = Len(a) + m

(* A concatenation has the elements of both parts, each at its place.       *)
LEMMA ConcatFacts ==
  ASSUME NEW T, NEW a \in Seq(T), NEW b \in Seq(T)
  PROVE  a \o b \in Seq(T) /\ Joined(a \o b, a, b)
<1> DEFINE ab == a \o b
<1>1. /\ ab \in Seq(T) /\ Len(ab) = Len(a) + Len(b) /\ Len(a) \in Nat /\ Len(b) \in Nat
      /\ \A n \in 1..(Len(a) + Len(b)) : ab[n] = IF n <= Len(a) THEN a[n] ELSE b[n - Len(a)]
  BY ConcatProperties
<1> HIDE DEF ab
<1>2. \A n \in 1..Len(a) : n \in 1..Len(ab) /\ ab[n] = a[n]
  BY <1>1
<1>3. ASSUME NEW n \in 1..Len(b) PROVE Len(a) + n \in 1..Len(ab) /\ ab[Len(a) + n] = b[n]
  <2>1. Len(a) + n \in 1..(Len(a) + Len(b)) /\ ~(Len(a) + n <= Len(a)) /\ (Len(a) + n) - Len(a) = n
    BY <1>1
  <2> QED BY <1>1, <2>1
<1>4. ASSUME NEW n \in 1..Len(ab) PROVE n \in 1..Len(a) \/ \E m \in 1..Len(b) : n = Len(a) + m
  <2>1. CASE n <= Len(a)
    BY <1>1, <2>1
  <2>2. CASE ~(n <= Len(a))
    <3>1. n - Len(a) \in 1..Len(b) /\ n = Len(a) + (n - Len(a))
      BY <1>1, <2>2
    <3> QED BY <3>1
  <2> QED BY <2>1, <2>2
<1>5. Joined(ab, a, b)
  BY <1>1, <1>2, <1>3, <1>4 DEF Joined
<1> QED BY <1>1, <1>5 DEF ab

(* What two sequences hold, one after the other.                            *)
LEMMA InConcat ==
  ASSUME NEW T, NEW a \in Seq(T), NEW b \in Seq(T), NEW i
  PROVE  In(i, a \o b) <=> In(i, a) \/ In(i, b)
<1> DEFINE ab == a \o b
<1>1. Joined(ab, a, b)
  BY ConcatFacts
<1> HIDE DEF ab
<1>2. /\ \A n \in 1..Len(a) : n \in 1..Len(ab) /\ ab[n] = a[n]
      /\ \A n \in 1..Len(b) : Len(a) + n \in 1..Len(ab) /\ ab[Len(a) + n] = b[n]
      /\ \A n \in 1..Len(ab) : n \in 1..Len(a) \/ \E m \in 1..Len(b) : n = Len(a) + m
  BY <1>1 DEF Joined
<1>3. In(i, a) \/ In(i, b) => In(i, ab)
  BY <1>2 DEF In
<1>4. ASSUME In(i, ab) PROVE In(i, a) \/ In(i, b)
  <2>1. PICK n \in 1..Len(ab) : ab[n] = i
    BY <1>4 DEF In
  <2>2. CASE n \in 1..Len(a)
    BY <2>1, <2>2, <1>2 DEF In
  <2>3. CASE n \notin 1..Len(a)
    BY <2>1, <2>3, <1>2 DEF In
  <2> QED BY <2>2, <2>3
<1> QED BY <1>3, <1>4 DEF ab

(* What a sequence holds after one more element.                            *)
LEMMA InAppend ==
  ASSUME NEW T, NEW a \in Seq(T), NEW e \in T, NEW i
  PROVE  In(i, Append(a, e)) <=> In(i, a) \/ i = e
<1> DEFINE ae == Append(a, e)
<1>1. /\ Len(a) \in Nat /\ Len(ae) = Len(a) + 1 /\ ae[Len(a) + 1] = e
      /\ \A n \in 1..Len(a) : ae[n] = a[n]
  OBVIOUS
<1> HIDE DEF ae
<1>2. \A n \in 1..Len(ae) : n \in 1..Len(a) \/ n = Len(a) + 1
  BY <1>1
<1>3. Len(a) + 1 \in 1..Len(ae) /\ \A n \in 1..Len(a) : n \in 1..Len(ae)
  BY <1>1
<1>4. In(i, ae) <=> In(i, a) \/ i = e
  BY <1>1, <1>2, <1>3 DEF In
<1> QED BY <1>4 DEF ae

(* What was produced stays produced.                                        *)
LEMMA EmittedGrows ==
  ASSUME TypeInv, NEW t \in Turns, Thread(t), Lined(t), Produced(t), TurnStep(t)
  PROVE  \A u \in Turns : \A i : In(i, emitted[u]) => In(i, emitted'[u])
<1>1. \A u \in Turns \ {t} : emitted'[u] = emitted[u]
  BY StepsAlone DEF Alone
<1>2. CASE Produces(t)
  <2>1. PICK items, cmds, fits, events : Adds(t, items, cmds, fits, events) /\ Attempts(t, events)
    BY <1>2, ProducesIsEmission DEF Emission
  <2>2. emitted'[t] = emitted[t] \o items /\ items \in Seq(Items) /\ emitted[t] \in Seq(Items)
    BY <2>1 DEF Adds, TypeInv
  <2>3. \A i : In(i, emitted[t]) => In(i, emitted'[t])
    BY <2>2, InConcat
  <2> QED BY <2>3, <1>1
<1>3. CASE ~Produces(t)
  <2>1. Persist(t) \/ PersistFails(t) => emitted' = emitted
    BY PersistShape, PersistFailsShape
  <2>2. emitted' = emitted
    BY <2>1, <1>3 DEF TurnStep, Submit, Answer, WorkerStarts, StreamDelta, Ask, ProviderFailsEarly,
       NextAttempt, RetryCancelled, SendFlush, SendVerdict, WorkerPanics, workerVars
  <2> QED BY <2>2
<1> QED BY <1>2, <1>3

(* A turn's step leaves the queues of the others in order.                  *)
LEMMA LinedOfAnother ==
  ASSUME TypeInv, NEW t \in Turns, Thread(t), Lined(t), Produced(t), TurnStep(t),
         NEW u \in Turns \ {t}, Lined(u)
  PROVE  Lined(u)'
<1>1. Alone(t)
  BY StepsAlone
<1>2. /\ phase'[u] = phase[u] /\ queue'[u] = queue[u] /\ actor'[u] = actor[u]
      /\ where'[u] = where[u] /\ emitted'[u] = emitted[u]
  BY <1>1 DEF Alone
<1> QED BY <1>2 DEF Lined, Waits

(* The UI's steps leave the queues in order.                                *)
LEMMA LinedInUi ==
  ASSUME TypeInv, Interrupt \/ Reset \/ Reads \/ Closes, NEW u \in Turns, Lined(u)
  PROVE  Lined(u)'
<1>1. UNCHANGED <<phase, queue, actor, where, emitted>>
  <2>1. CASE Interrupt
    BY <2>1, InterruptShape
  <2>2. CASE Reset
    BY <2>2, ResetShape
  <2>3. CASE Reads
    BY <2>3, ReadsShape
  <2>4. CASE Closes
    BY <2>4, ClosesShape
  <2> QED BY <2>1, <2>2, <2>3, <2>4
<1> QED BY <1>1 DEF Lined, Waits

(* What was produced lines up behind the turn, before any flush.            *)
LEMMA LinedWhenItProduces ==
  ASSUME TypeInv, NEW t \in Turns, Thread(t), Lined(t), Produced(t), Produces(t)
  PROVE  Lined(t)'
<1>1. PICK items, cmds, fits, events : Adds(t, items, cmds, fits, events) /\ Attempts(t, events)
  BY ProducesIsEmission DEF Emission
<1> DEFINE q == queue[t]  some == SubSeq(cmds, 1, fits)
<1>2. /\ queue \in [Turns -> Seq(Commands)] /\ emitted \in [Turns -> Seq(Items)]
      /\ q \in Seq(Commands) /\ emitted[t] \in Seq(Items)
  BY DEF TypeInv
<1>3. /\ phase[t] = "attempt" /\ phase'[t] \in {"attempt", "ending"}
      /\ UNCHANGED <<actor, where>>
  BY <1>1 DEF Attempts, actorVars
<1>4. /\ items \in Seq(Items) /\ emitted'[t] = emitted[t] \o items
      /\ cmds \in Seq(Commands) /\ fits \in 0..Len(cmds) /\ Len(q) + fits <= Capacity
      /\ (~actor[t] => fits = 0) /\ queue' = [queue EXCEPT ![t] = @ \o some]
      /\ \A n \in 1..Len(cmds) :
           cmds[n].kind \in {"item", "replay"} /\ (cmds[n].kind = "item" => In(cmds[n].item, items))
  BY <1>1, <1>2 DEF Adds
<1>5. /\ some \in Seq(Commands) /\ Len(some) = fits
      /\ \A n \in 1..fits : n \in 1..Len(cmds) /\ some[n] = cmds[n]
  BY <1>4
<1> HIDE DEF some
<1>6. queue'[t] = q \o some
  BY <1>2, <1>4
<1> HIDE DEF q
<1> DEFINE more == q \o some
<1>7. /\ more \in Seq(Commands) /\ Len(more) = Len(q) + fits /\ Len(q) \in Nat /\ fits \in Nat
      /\ \A n \in 1..Len(q) : n \in 1..Len(more) /\ more[n] = q[n]
      /\ \A n \in 1..Len(more) : n \in 1..Len(q) \/ \E m \in 1..fits : n = Len(q) + m
      /\ \A n \in 1..fits : more[Len(q) + n] = some[n]
  <2>1. /\ more \in Seq(Commands) /\ Len(more) = Len(q) + Len(some)
        /\ \A n \in 1..Len(q) : n \in 1..Len(more) /\ more[n] = q[n]
        /\ \A n \in 1..Len(some) : Len(q) + n \in 1..Len(more) /\ more[Len(q) + n] = some[n]
        /\ \A n \in 1..Len(more) : n \in 1..Len(q) \/ \E m \in 1..Len(some) : n = Len(q) + m
    <3>1. q \in Seq(Commands) /\ some \in Seq(Commands)
      BY <1>2, <1>5
    <3>2. more \in Seq(Commands) /\ Joined(more, q, some)
      BY <3>1, ConcatFacts
    <3> HIDE DEF more
    <3> QED BY <3>2 DEF Joined
  <2>2. Len(q) \in Nat /\ fits \in Nat
    BY <1>2, <1>4
  <2> HIDE DEF more
  <2> QED BY <2>1, <2>2, <1>5
<1> HIDE DEF more
<1>8. queue'[t] = more
  BY <1>6 DEF more
<1>9. \A i : In(i, emitted[t]) \/ In(i, items) => In(i, emitted'[t])
  BY <1>2, <1>4, InConcat
<1>10. \A n \in 1..Len(q) :
         /\ q[n].kind # "flush" /\ (q[n].kind = "turn" => n = 1)
         /\ q[n].kind = "item" => In(q[n].item, emitted[t])
  BY <1>3 DEF Lined, In, q
<1>11. ASSUME NEW n \in 1..Len(more)
       PROVE  /\ more[n].kind # "flush" /\ (more[n].kind = "turn" => n = 1)
              /\ more[n].kind = "item" => In(more[n].item, emitted'[t])
  <2>1. CASE n \in 1..Len(q)
    BY <2>1, <1>7, <1>9, <1>10
  <2>2. CASE n \notin 1..Len(q)
    <3>1. PICK m \in 1..fits : n = Len(q) + m
      BY <2>2, <1>7
    <3>2. more[n] = cmds[m] /\ m \in 1..Len(cmds)
      BY <3>1, <1>5, <1>7
    <3>3. cmds[m].kind \in {"item", "replay"} /\ (cmds[m].kind = "item" => In(cmds[m].item, items))
      BY <3>2, <1>4
    <3> QED BY <3>2, <3>3, <1>9
  <2> QED BY <2>1, <2>2
<1>12. ASSUME Waits(t) PROVE Waits(t)'
  <2>1. q # <<>> /\ q[1].kind = "turn"
    BY <1>12 DEF Waits, q
  <2>2. Len(q) # 0
    BY <1>2, <2>1 DEF q
  <2>3. 1 \in 1..Len(q) /\ Len(more) # 0
    BY <2>2, <1>7
  <2>4. more # <<>> /\ more[1] = q[1]
    BY <2>3, <1>7
  <2> QED BY <2>1, <2>4, <1>8 DEF Waits
<1>13. Len(more) <= Capacity
  BY <1>4, <1>7
<1>14. ~actor[t] => more = <<>>
  <2>1. ~actor[t] => q = <<>>
    BY DEF Lined, q
  <2>2. q = <<>> => Len(q) = 0
    OBVIOUS
  <2>3. ~actor[t] => Len(more) = 0
    BY <2>1, <2>2, <1>4, <1>7
  <2> QED BY <2>3, <1>7
<1>15. actor[t] /\ ~Waits(t)' => where[t] # None
  BY <1>3, <1>12 DEF Lined, Working
<1> QED BY <1>3, <1>8, <1>11, <1>13, <1>14, <1>15 DEF Lined, In

(* A turn's step leaves its own queue in order.                             *)
LEMMA LinedKept ==
  ASSUME TypeInv, NEW t \in Turns, Thread(t), Lined(t), Produced(t), TurnStep(t)
  PROVE  Lined(t)'
<1>t. /\ phase \in [Turns -> Phases] /\ queue \in [Turns -> Seq(Commands)]
      /\ actor \in [Turns -> BOOLEAN] /\ where \in [Turns -> Turns \cup {None}]
      /\ queue[t] \in Seq(Commands) /\ Len(queue[t]) \in Nat
  <2>1. /\ phase \in [Turns -> Phases] /\ queue \in [Turns -> Seq(Commands)]
        /\ actor \in [Turns -> BOOLEAN] /\ where \in [Turns -> Turns \cup {None}]
    BY DEF TypeInv
  <2>2. queue[t] \in Seq(Commands)
    BY <2>1
  <2> QED BY <2>1, <2>2
<1>c. Capacity \in Nat /\ 1 <= Capacity
  BY BoundsAssumption
<1>e. Len(<<>>) = 0
  OBVIOUS
<1>1. CASE Submit(t)
  <2>1. phase'[t] = "start" /\ UNCHANGED <<queue, actor, emitted>> /\ queue[t] = <<>>
    BY <1>1, <1>t DEF Submit, Thread
  <2>2. Len(queue'[t]) = 0
    BY <2>1
  <2> QED BY <2>1, <2>2, <1>c DEF Lined, Working
<1>2. CASE Answer(t) \/ StreamDelta(t) \/ Ask(t)
  <2>1. UNCHANGED <<phase, emitted, queue, actor, where>>
    BY <1>2 DEF Answer, StreamDelta, Ask, workerVars, actorVars
  <2> QED BY <2>1 DEF Lined, Waits
<1>3. CASE WorkerStarts(t)
  <2>1. queue[t] = <<>> /\ UNCHANGED <<actor, where, emitted>>
    BY <1>3 DEF WorkerStarts, Thread, actorVars
  <2>2. CASE cancelled[t]
    <3>1. phase'[t] = "done" /\ queue' = queue
      BY <1>3, <2>2, <1>t DEF WorkerStarts
    <3> QED BY <2>1, <3>1, <1>c, <1>e DEF Lined, Working
  <2>3. CASE ~cancelled[t]
    <3> DEFINE one == <<Plain("turn")>>
    <3>1. phase'[t] = "attempt" /\ queue'[t] = Append(queue[t], Plain("turn"))
      BY <1>3, <2>3, <1>t DEF WorkerStarts
    <3>2. queue'[t] = one
      BY <3>1, <2>1
    <3>3. one # <<>> /\ Len(one) = 1 /\ one[1].kind = "turn"
      BY DEF Plain
    <3> HIDE DEF one
    <3>4. actor[t]
      BY <1>3 DEF WorkerStarts, Thread
    <3> QED BY <2>1, <3>1, <3>2, <3>3, <3>4, <1>c DEF Lined, Waits
  <2> QED BY <2>2, <2>3
<1>4. CASE Produces(t)
  BY <1>4, LinedWhenItProduces
<1>5. CASE ProviderFailsEarly(t) \/ NextAttempt(t) \/ RetryCancelled(t)
  <2>1. UNCHANGED <<emitted, queue, actor, where>>
    BY <1>5 DEF ProviderFailsEarly, NextAttempt, RetryCancelled, actorVars
  <2>2. phase[t] \in {"attempt", "retry"} /\ phase'[t] \in {"attempt", "retry", "ending"}
    BY <1>5, <1>t DEF ProviderFailsEarly, NextAttempt, RetryCancelled, Streaming
  <2> QED BY <2>1, <2>2 DEF Lined, Waits, Working
<1>6. CASE SendFlush(t)
  <2>1. phase[t] = "ending" /\ UNCHANGED <<actor, where, emitted>>
    BY <1>6 DEF SendFlush, actorVars
  <2>2. CASE ~actor[t]
    <3>1. phase'[t] = "flushed" /\ queue' = queue /\ queue[t] = <<>>
      BY <1>6, <2>2, <1>t DEF SendFlush, Lined
    <3> QED BY <2>1, <2>2, <3>1, <1>c, <1>e DEF Lined
  <2>3. CASE actor[t]
    <3> DEFINE more == Append(queue[t], Plain("flush"))
    <3>1. Plain("flush") \in Commands /\ Plain("flush").kind = "flush"
      BY DeltaType
    <3>2. phase'[t] = "flushing" /\ queue'[t] = more /\ Len(queue[t]) < Capacity
      BY <1>6, <2>3, <1>t DEF SendFlush
    <3>3. /\ Len(more) = Len(queue[t]) + 1 /\ more[Len(queue[t]) + 1].kind = "flush" /\ more # <<>>
          /\ \A n \in 1..Len(queue[t]) : more[n] = queue[t][n]
      <4> DEFINE e == Plain("flush")
      <4> HIDE DEF e
      <4>1. e \in Commands /\ e.kind = "flush" /\ more = Append(queue[t], e)
        BY <3>1 DEF e
      <4> DEFINE s == queue[t]
      <4>2. s \in Seq(Commands)
        BY <1>t
      <4> HIDE DEF s
      <4> DEFINE se == Append(s, e)
      <4>3. /\ Len(se) = Len(s) + 1 /\ se[Len(s) + 1] = e
            /\ \A n \in 1..Len(s) : se[n] = s[n]
        BY <4>1, <4>2
      <4>4. se # <<>>
        BY <4>1, <4>2
      <4> HIDE DEF se
      <4>5. more = se
        BY <4>1 DEF se, s
      <4> QED BY <4>1, <4>3, <4>4, <4>5 DEF s
    <3> HIDE DEF more
    <3>4. \A n \in 1..Len(more) : n \in 1..Len(queue[t]) \/ n = Len(queue[t]) + 1
      BY <3>3, <1>t
    <3>5. ASSUME Waits(t) PROVE Waits(t)'
      <4>1. queue[t] # <<>> /\ queue[t][1].kind = "turn"
        BY <3>5 DEF Waits
      <4>2. 1 \in 1..Len(queue[t])
        BY <4>1, <1>t
      <4> QED BY <4>1, <4>2, <3>2, <3>3 DEF Waits
    <3>6. ~Waits(t)' => where'[t] # None
      BY <3>5, <2>1, <2>3 DEF Lined, Working
    <3>7. ASSUME NEW n \in 1..Len(more)
          PROVE  /\ more[n].kind = "flush" => n = Len(more)
                 /\ more[n].kind = "turn" => n = 1
                 /\ more[n].kind = "item" =>
                      \E k \in 1..Len(emitted[t]) : emitted[t][k] = more[n].item
      <4>1. CASE n \in 1..Len(queue[t])
        <5>1. more[n] = queue[t][n]
          BY <4>1, <3>3
        <5> QED BY <4>1, <5>1, <2>1 DEF Lined
      <4>2. CASE n = Len(queue[t]) + 1
        BY <4>2, <3>3
      <4> QED BY <3>4, <4>1, <4>2
    <3>8. Len(more) <= Capacity
      BY <3>2, <3>3, <1>c, <1>t
    <3>9. more[Len(more)].kind = "flush"
      BY <3>3
    <3> QED BY <2>1, <2>3, <3>2, <3>3, <3>6, <3>7, <3>8, <3>9 DEF Lined
  <2> QED BY <2>2, <2>3
<1>7. CASE SendVerdict(t)
  <2>1. queue[t] = <<>> /\ UNCHANGED <<actor, where, emitted, queue>> /\ phase'[t] = "done"
    BY <1>7, <1>t DEF SendVerdict, actorVars, Lined
  <2> QED BY <2>1, <1>c, <1>e DEF Lined, Working
<1>8. CASE WorkerPanics(t)
  <2>1. queue'[t] = <<>> /\ phase'[t] = "done"
    BY <1>8, <1>t DEF WorkerPanics
  <2> QED BY <2>1, <1>c, <1>e DEF Lined, Working
<1>9. CASE PersistFails(t)
  <2>1. /\ queue' = [queue EXCEPT ![t] = <<>>] /\ actor' = [actor EXCEPT ![t] = FALSE]
        /\ (phase[t] = "flushing" /\ phase' = [phase EXCEPT ![t] = "flushed"])
           \/ (phase[t] # "flushing" /\ phase' = phase)
    BY <1>9, PersistFailsShape
  <2>2. queue'[t] = <<>> /\ ~actor'[t] /\ phase'[t] # "flushing"
    BY <2>1, <1>t
  <2> QED BY <2>2, <1>c, <1>e DEF Lined
<1>10. CASE Persist(t)
  <2> DEFINE q == queue[t]  rest == Tail(queue[t])
  <2>1. actor[t] /\ q # <<>> /\ queue' = [queue EXCEPT ![t] = Tail(@)] /\ UNCHANGED <<actor, emitted>>
    BY <1>10, PersistShape
  <2>2. /\ Len(q) \in Nat \ {0} /\ rest \in Seq(Commands) /\ Len(rest) = Len(q) - 1
        /\ \A k \in 1..(Len(q) - 1) : rest[k] = q[k + 1]
    BY <2>1, FirstCommand
  <2>3. queue'[t] = rest
    BY <2>1, <1>t
  <2>4. /\ phase[t] \in {"attempt", "retry", "ending", "flushing"}
        /\ Home(t) \in Turns
        /\ q[1].kind # "turn" => where[t] \in Turns
        /\ q[1].kind = "flush" => phase[t] = "flushing" /\ rest = <<>>
    BY <2>1, CommandIsTaken
  <2>5. where'[t] # None
    <3>1. (q[1].kind = "turn" /\ where' = [where EXCEPT ![t] = Home(t)])
          \/ (q[1].kind # "turn" /\ where' = where)
      BY <1>10, PersistShape DEF TakesTurn, TakesItem
    <3> QED BY <3>1, <2>4, <1>t, NoneIsNoTurn
  <2>6. \/ q[1].kind # "flush" /\ phase' = phase
        \/ q[1].kind = "flush" /\ phase' = [phase EXCEPT ![t] = "flushed"]
    BY <1>10, PersistShape
  <2>o. /\ Len(q) <= Capacity
        /\ phase[t] = "flushing" => q # <<>> /\ q[Len(q)].kind = "flush"
        /\ \A i \in 1..Len(q) :
             /\ q[i].kind = "flush" => i = Len(q) /\ phase[t] = "flushing"
             /\ q[i].kind = "turn" => i = 1
             /\ q[i].kind = "item" => \E k \in 1..Len(emitted[t]) : emitted[t][k] = q[i].item
    BY DEF Lined
  <2> HIDE DEF q, rest
  <2>7. ASSUME NEW k \in 1..Len(rest) PROVE k + 1 \in 1..Len(q) /\ rest[k] = q[k + 1] /\ k + 1 # 1
    BY <2>2
  <2>8. Len(rest) <= Capacity
    BY <2>2, <2>o, <1>c
  <2>9. CASE q[1].kind = "flush"
    <3>1. phase'[t] = "flushed" /\ rest = <<>>
      BY <2>4, <2>6, <2>9, <1>t
    <3> QED BY <2>3, <2>5, <2>8, <3>1 DEF Lined
  <2>10. CASE q[1].kind # "flush"
    <3>1. phase' = phase
      BY <2>6, <2>10
    <3>2. ASSUME phase[t] = "flushing" PROVE rest # <<>> /\ rest[Len(rest)].kind = "flush"
      <4>1. Len(q) # 1
        BY <3>2, <2>o, <2>10
      <4>2. Len(rest) \in 1..Len(rest) /\ Len(rest) + 1 = Len(q) /\ Len(rest) # 0
        BY <2>2, <4>1
      <4>3. rest[Len(rest)] = q[Len(q)]
        BY <4>2, <2>7
      <4> QED BY <4>2, <4>3, <3>2, <2>o
    <3>3. ASSUME NEW k \in 1..Len(rest)
          PROVE  /\ rest[k].kind = "flush" => k = Len(rest) /\ phase[t] = "flushing"
                 /\ rest[k].kind # "turn"
                 /\ rest[k].kind = "item" =>
                      \E n \in 1..Len(emitted[t]) : emitted[t][n] = rest[k].item
      <4>1. k + 1 \in 1..Len(q) /\ rest[k] = q[k + 1] /\ k + 1 # 1
        BY <2>7
      <4>2. k + 1 = Len(q) => k = Len(rest)
        BY <2>2
      <4> QED BY <4>1, <4>2, <2>o
    <3> QED BY <2>1, <2>3, <2>4, <2>5, <2>8, <3>1, <3>2, <3>3 DEF Lined
  <2> QED BY <2>9, <2>10
<1> QED BY <1>1, <1>2, <1>3, <1>4, <1>5, <1>6, <1>7, <1>8, <1>9, <1>10 DEF TurnStep

-----------------------------------------------------------------------------
(* What a turn produced *)

(* A sequence after one more element, position by position.                 *)
LEMMA AppendFacts ==
  ASSUME NEW T, NEW a \in Seq(T), NEW e \in T
  PROVE  /\ Append(a, e) \in Seq(T) /\ Len(a) \in Nat /\ Len(Append(a, e)) = Len(a) + 1
         /\ Append(a, e)[Len(a) + 1] = e
         /\ \A n \in 1..Len(a) : n \in 1..Len(Append(a, e)) /\ Append(a, e)[n] = a[n]
         /\ \A n \in 1..Len(Append(a, e)) : n \in 1..Len(a) \/ n = Len(a) + 1
OBVIOUS

(* Calls produced have their places for results still ahead.                *)
LEMMA ProducedByCalls ==
  ASSUME TypeInv, NEW t \in Turns, Produced(t), NEW n \in 1..MaxBatch, RespondWithCalls(t, n)
  PROVE  Produced(t)'
<1> DEFINE e == emitted[t]  L == Len(e)  calls == {L + i : i \in 1..n}
           item  == Item(t, "call", calls, attempt[t])
<1>1. e \in Seq(Items) /\ L \in Nat /\ n \in Nat /\ n > 0 /\ attempt[t] \in 0..MaxRetries
  <2>1. e \in Seq(Items) /\ attempt[t] \in 0..MaxRetries
    BY DEF TypeInv
  <2> QED BY <2>1, BoundsAssumption
<1>2. /\ ledger[t] = {}
      /\ emitted' = [emitted EXCEPT ![t] = Append(@, item)]
      /\ ledger'  = [ledger EXCEPT ![t] = calls] /\ attempt' = attempt
  BY DEF RespondWithCalls, Streaming
<1>3. calls = (L + 1)..(L + n) /\ calls # {} /\ calls \in SUBSET Nat
  <2> HIDE DEF e
  <2>1. calls = (L + 1)..(L + n)
    <3>1. \A c \in (L + 1)..(L + n) : c - L \in 1..n /\ L + (c - L) = c
      BY <1>1
    <3>2. \A i \in 1..n : L + i \in (L + 1)..(L + n)
      BY <1>1
    <3> QED BY <3>1, <3>2
  <2>2. L + 1 \in (L + 1)..(L + n)
    BY <1>1
  <2> QED BY <2>1, <2>2, <1>1
<1> HIDE DEF calls
<1>4. /\ item \in Items /\ item.turn = t /\ item.kind = "call" /\ item.calls = calls
      /\ item.try = attempt[t]
  BY <1>1, <1>3, ItemType
<1>5. emitted'[t] = Append(e, item) /\ ledger'[t] = calls
  BY <1>2 DEF TypeInv
<1> HIDE DEF item
<1> DEFINE more == Append(e, item)
<1>6. /\ Len(more) = L + 1 /\ more[L + 1] = item
      /\ \A k \in 1..L : more[k] = e[k]
      /\ \A k \in 1..Len(more) : k \in 1..L \/ k = L + 1
  BY <1>1, <1>4, AppendFacts
<1>7. \A k \in 1..L :
       LET i == e[k] IN
       /\ i.turn = t /\ i.kind # "user" /\ i.try = attempt[t]
       /\ i.kind = "result" => i.calls = {k - 1}
       /\ i.kind = "call" => \A c \in i.calls :
            c >= k /\ (c < L => e[c + 1].kind = "result") /\ ~(c >= L)
  BY <1>2 DEF Produced
<1>8. \A k \in 1..L : e[k].calls \subseteq Nat
  BY <1>1, ItemFields
<1> HIDE DEF e, more
<1>9. ASSUME NEW k \in 1..Len(more)
      PROVE  /\ more[k].turn = t /\ more[k].kind # "user" /\ more[k].try = attempt[t]
             /\ more[k].kind = "result" => more[k].calls = {k - 1}
             /\ more[k].kind = "call" => \A c \in more[k].calls :
                  /\ c >= k /\ (c < Len(more) => more[c + 1].kind = "result")
                  /\ c >= Len(more) => c \in calls
  <2>1. CASE k \in 1..L
    <3>1. more[k] = e[k]
      BY <2>1, <1>6
    <3>2. ASSUME e[k].kind = "call", NEW c \in e[k].calls
          PROVE  c >= k /\ more[c + 1].kind = "result" /\ ~(c >= Len(more))
      <4>1. c \in Nat /\ c >= k /\ ~(c >= L) /\ (c < L => e[c + 1].kind = "result")
        BY <2>1, <3>2, <1>7, <1>8
      <4>2. c < L /\ c + 1 \in 1..L
        BY <4>1, <1>1
      <4>3. more[c + 1] = e[c + 1]
        BY <4>2, <1>6
      <4> QED BY <4>1, <4>2, <4>3, <1>1, <1>6
    <3> QED BY <2>1, <3>1, <3>2, <1>7
  <2>2. CASE k = L + 1
    <3>1. more[k] = item /\ \A c \in calls : c >= k /\ ~(c < Len(more))
      BY <2>2, <1>1, <1>3, <1>6
    <3> QED BY <3>1, <1>4
  <2> QED BY <2>1, <2>2, <1>6
<1>10. Len(more) > 0 /\ calls = Len(more)..(Len(more) + n - 1)
  BY <1>1, <1>3, <1>6
<1>11. emitted'[t] = more /\ ledger'[t] = calls /\ attempt'[t] = attempt[t]
  BY <1>2, <1>5 DEF more
<1> HIDE DEF L
<1> QED BY <1>9, <1>10, <1>11 DEF Produced

(* A turn that ends with every call answered has produced what it should.   *)
LEMMA AllAnswered ==
  ASSUME NEW t \in Turns, NEW more, emitted'[t] = more, ledger'[t] = {}, attempt'[t] = attempt[t],
         \A k \in 1..Len(more) :
           /\ more[k].turn = t /\ more[k].kind # "user" /\ more[k].try = attempt[t]
           /\ more[k].kind = "result" => more[k].calls = {k - 1}
           /\ more[k].kind = "call" => \A c \in more[k].calls :
                /\ c >= k /\ (c < Len(more) => more[c + 1].kind = "result")
                /\ ~(c >= Len(more))
  PROVE  Produced(t)'
BY DEF Produced

(* An answer leaves the earlier calls answered.                             *)
LEMMA ProducedByAnswer ==
  ASSUME TypeInv, NEW t \in Turns, Produced(t), RespondFinal(t)
  PROVE  Produced(t)'
<1> DEFINE e == emitted[t]  L == Len(e)  none == {}
           item  == Item(t, "answer", none, attempt[t])
<1>1. e \in Seq(Items) /\ L \in Nat /\ attempt[t] \in 0..MaxRetries
  BY DEF TypeInv
<1>2. /\ ledger[t] = {}
      /\ emitted' = [emitted EXCEPT ![t] = Append(@, item)]
      /\ ledger'  = ledger /\ attempt' = attempt
  BY DEF RespondFinal, Streaming
<1>4. item \in Items /\ item.turn = t /\ item.kind = "answer" /\ item.try = attempt[t]
  BY <1>1, ItemType
<1>5. emitted'[t] = Append(e, item) /\ ledger'[t] = {}
  BY <1>2 DEF TypeInv
<1> HIDE DEF item
<1> DEFINE more == Append(e, item)
<1>6. /\ Len(more) = L + 1 /\ more[L + 1] = item
      /\ \A k \in 1..L : more[k] = e[k]
      /\ \A k \in 1..Len(more) : k \in 1..L \/ k = L + 1
  BY <1>1, <1>4, AppendFacts
<1>7. \A k \in 1..L :
       LET i == e[k] IN
       /\ i.turn = t /\ i.kind # "user" /\ i.try = attempt[t]
       /\ i.kind = "result" => i.calls = {k - 1}
       /\ i.kind = "call" => \A c \in i.calls :
            c >= k /\ (c < L => e[c + 1].kind = "result") /\ ~(c >= L)
  BY <1>2 DEF Produced
<1>8. \A k \in 1..L : e[k].calls \subseteq Nat
  BY <1>1, ItemFields
<1> HIDE DEF e, more
<1>9. ASSUME NEW k \in 1..Len(more)
      PROVE  /\ more[k].turn = t /\ more[k].kind # "user" /\ more[k].try = attempt[t]
             /\ more[k].kind = "result" => more[k].calls = {k - 1}
             /\ more[k].kind = "call" => \A c \in more[k].calls :
                  /\ c >= k /\ (c < Len(more) => more[c + 1].kind = "result")
                  /\ ~(c >= Len(more))
  <2>1. CASE k \in 1..L
    <3>1. more[k] = e[k]
      BY <2>1, <1>6
    <3>2. ASSUME e[k].kind = "call", NEW c \in e[k].calls
          PROVE  c >= k /\ more[c + 1].kind = "result" /\ ~(c >= Len(more))
      <4>1. c \in Nat /\ c >= k /\ ~(c >= L) /\ (c < L => e[c + 1].kind = "result")
        BY <2>1, <3>2, <1>7, <1>8
      <4>2. c < L /\ c + 1 \in 1..L
        BY <4>1, <1>1
      <4>3. more[c + 1] = e[c + 1]
        BY <4>2, <1>6
      <4> QED BY <4>1, <4>2, <4>3, <1>1, <1>6
    <3> QED BY <2>1, <3>1, <3>2, <1>7
  <2>2. CASE k = L + 1
    <3>1. more[k] = item
      BY <2>2, <1>6
    <3> QED BY <3>1, <1>4
  <2> QED BY <2>1, <2>2, <1>6
<1>11. emitted'[t] = more /\ ledger'[t] = {} /\ attempt'[t] = attempt[t]
  BY <1>2, <1>5 DEF more
<1> QED BY <1>9, <1>11, AllAnswered

(* Results, or repairs, answer the open calls at their places.              *)
LEMMA ProducedByResults ==
  ASSUME TypeInv, NEW t \in Turns, Produced(t), emitted'[t] = emitted[t] \o Results(t),
         ledger'[t] = {}, attempt'[t] = attempt[t]
  PROVE  Produced(t)'
<1> DEFINE e == emitted[t]  L == Len(e)  r == Results(t)  m == Len(r)
<1>1. e \in Seq(Items) /\ L \in Nat
  BY DEF TypeInv
<1>2. /\ r \in Seq(Items) /\ m \in Nat
      /\ \A c \in ledger[t] : c \in L..(L + m - 1)
      /\ \A n \in 1..m : r[n] = Item(t, "result", {L + n - 1}, attempt[t])
  <2>1. /\ r \in Seq(Items)
        /\ ledger[t] # {} => ledger[t] = L..(L + m - 1)
        /\ \A n \in 1..m : r[n] = Item(t, "result", {L + n - 1}, attempt[t])
    BY ResultsShape
  <2> HIDE DEF r, e
  <2>2. m \in Nat
    BY <2>1
  <2> QED BY <2>1, <2>2
<1>3. ASSUME NEW n \in 1..m
      PROVE  r[n].turn = t /\ r[n].kind = "result" /\ r[n].calls = {L + n - 1} /\ r[n].try = attempt[t]
  <2> DEFINE id == {L + n - 1}
  <2>1. r[n] = Item(t, "result", id, attempt[t])
    BY <1>2
  <2> HIDE DEF r, id
  <2>2. r[n].turn = t /\ r[n].kind = "result" /\ r[n].calls = id /\ r[n].try = attempt[t]
    BY <2>1 DEF Item
  <2> QED BY <2>2 DEF id
<1>5. emitted'[t] = e \o r
  OBVIOUS
<1>7. \A k \in 1..L :
       LET i == e[k] IN
       /\ i.turn = t /\ i.kind # "user" /\ i.try = attempt[t]
       /\ i.kind = "result" => i.calls = {k - 1}
       /\ i.kind = "call" => \A c \in i.calls :
            c >= k /\ (c < L => e[c + 1].kind = "result") /\ (c >= L => c \in ledger[t])
  BY DEF Produced
<1>8. \A k \in 1..L : e[k].calls \subseteq Nat
  BY <1>1, ItemFields
<1> HIDE DEF r, e
<1> DEFINE more == e \o r
<1>6. /\ Len(more) = L + m
      /\ \A k \in 1..L : more[k] = e[k]
      /\ \A k \in 1..m : more[L + k] = r[k]
      /\ \A k \in 1..Len(more) : k \in 1..L \/ \E n \in 1..m : k = L + n
  <2>1. Joined(more, e, r)
    BY <1>1, <1>2, ConcatFacts
  <2> HIDE DEF more
  <2> QED BY <2>1, <1>1, <1>2 DEF Joined
<1> HIDE DEF more
<1>9. ASSUME NEW k \in 1..Len(more)
      PROVE  /\ more[k].turn = t /\ more[k].kind # "user" /\ more[k].try = attempt[t]
             /\ more[k].kind = "result" => more[k].calls = {k - 1}
             /\ more[k].kind = "call" => \A c \in more[k].calls :
                  /\ c >= k /\ (c < Len(more) => more[c + 1].kind = "result")
                  /\ ~(c >= Len(more))
  <2>1. CASE k \in 1..L
    <3>1. more[k] = e[k]
      BY <2>1, <1>6
    <3>2. ASSUME e[k].kind = "call", NEW c \in e[k].calls
          PROVE  c >= k /\ more[c + 1].kind = "result" /\ ~(c >= Len(more))
      <4>1. c \in Nat /\ c >= k /\ (c < L => e[c + 1].kind = "result") /\ (c >= L => c \in ledger[t])
        BY <2>1, <3>2, <1>7, <1>8
      <4>2. CASE c < L
        <5>1. c + 1 \in 1..L
          BY <4>1, <4>2, <1>1
        <5>2. more[c + 1] = e[c + 1]
          BY <5>1, <1>6
        <5> QED BY <4>1, <4>2, <5>2, <1>1, <1>2, <1>6
      <4>3. CASE c >= L
        <5>1. c \in L..(L + m - 1)
          BY <4>1, <4>3, <1>2
        <5>2. (c + 1) - L \in 1..m /\ L + ((c + 1) - L) = c + 1 /\ ~(c >= L + m)
          BY <5>1, <4>1, <1>1, <1>2
        <5>3. more[c + 1] = r[(c + 1) - L]
          BY <5>2, <1>6
        <5>4. more[c + 1].kind = "result"
          BY <5>2, <5>3, <1>3
        <5> QED BY <4>1, <5>2, <5>4, <1>6
      <4> QED BY <4>1, <4>2, <4>3, <1>1
    <3> QED BY <2>1, <3>1, <3>2, <1>7
  <2>2. CASE k \notin 1..L
    <3>1. PICK n \in 1..m : k = L + n
      BY <2>2, <1>6
    <3>2. more[k] = r[n] /\ L + n - 1 = k - 1
      BY <3>1, <1>1, <1>6
    <3> QED BY <3>2, <1>3
  <2> QED BY <2>1, <2>2
<1>11. emitted'[t] = more
  BY <1>5 DEF more
<1> QED BY <1>9, <1>11, AllAnswered

(* A turn's step changes nothing the others produced.                       *)
LEMMA ProducedOfAnother ==
  ASSUME TypeInv, NEW t \in Turns, Thread(t), Lined(t), Produced(t), TurnStep(t),
         NEW u \in Turns \ {t}, Produced(u)
  PROVE  Produced(u)'
<1>1. Alone(t)
  BY StepsAlone
<1>2. emitted'[u] = emitted[u] /\ ledger'[u] = ledger[u] /\ attempt'[u] = attempt[u]
  BY <1>1 DEF Alone
<1> QED BY <1>2 DEF Produced

(* The UI's steps change nothing that was produced.                         *)
LEMMA ProducedInUi ==
  ASSUME TypeInv, Interrupt \/ Reset \/ Reads \/ Closes, NEW u \in Turns, Produced(u)
  PROVE  Produced(u)'
<1>1. UNCHANGED <<attempt, ledger, emitted>>
  <2>1. CASE Interrupt
    BY <2>1, InterruptShape
  <2>2. CASE Reset
    BY <2>2, ResetShape
  <2>3. CASE Reads
    BY <2>3, ReadsShape
  <2>4. CASE Closes
    BY <2>4, ClosesShape
  <2> QED BY <2>1, <2>2, <2>3, <2>4
<1> QED BY <1>1 DEF Produced

(* A turn's step leaves its own items numbered and answered in order.       *)
LEMMA ProducedKept ==
  ASSUME TypeInv, NEW t \in Turns, Thread(t), Lined(t), Produced(t), TurnStep(t)
  PROVE  Produced(t)'
<1>1. ASSUME NEW n \in 1..MaxBatch, RespondWithCalls(t, n) PROVE Produced(t)'
  BY <1>1, ProducedByCalls
<1>2. CASE RespondFinal(t)
  BY <1>2, ProducedByAnswer
<1>3. CASE ToolsFinish(t)
  <2>1. emitted'[t] = emitted[t] \o Results(t) /\ ledger'[t] = {} /\ attempt'[t] = attempt[t]
    BY <1>3 DEF ToolsFinish, TypeInv
  <2> QED BY <2>1, ProducedByResults
<1>4. CASE ProviderFails(t) \/ AttemptCancelled(t) \/ GraceExpires(t)
  <2>1. AttemptEnds(t, "failed") \/ AttemptEnds(t, "interrupted")
    BY <1>4 DEF ProviderFails, AttemptCancelled, GraceExpires
  <2>2. emitted'[t] = emitted[t] \o Results(t) /\ ledger'[t] = {} /\ attempt'[t] = attempt[t]
    BY <2>1 DEF AttemptEnds, Repairs, TypeInv
  <2> QED BY <2>2, ProducedByResults
<1>5. CASE NextAttempt(t)
  <2>1. emitted[t] = <<>> /\ ledger[t] = {} /\ UNCHANGED <<emitted, ledger>>
    BY <1>5 DEF NextAttempt, Thread
  <2>2. Len(emitted[t]) = 0
    BY <2>1
  <2> QED BY <2>1, <2>2 DEF Produced
<1>6. CASE Submit(t) \/ Answer(t) \/ WorkerStarts(t) \/ StreamDelta(t) \/ Ask(t)
           \/ ProviderFailsEarly(t) \/ RetryCancelled(t) \/ SendFlush(t) \/ SendVerdict(t)
           \/ WorkerPanics(t)
  <2>1. UNCHANGED <<attempt, ledger, emitted>>
    BY <1>6 DEF Submit, Answer, WorkerStarts, StreamDelta, Ask, ProviderFailsEarly, RetryCancelled,
       SendFlush, SendVerdict, WorkerPanics, workerVars
  <2> QED BY <2>1 DEF Produced
<1>7. CASE Persist(t) \/ PersistFails(t)
  <2>1. UNCHANGED <<attempt, ledger, emitted>>
    BY <1>7, PersistShape, PersistFailsShape
  <2> QED BY <2>1 DEF Produced
<1> QED BY <1>1, <1>2, <1>3, <1>4, <1>5, <1>6, <1>7 DEF TurnStep, Produces

-----------------------------------------------------------------------------
(* What is stored stays *)

UiStep == Interrupt \/ Reset \/ Reads \/ Closes

(* The UI's steps touch no worker, queue or file.                           *)
LEMMA UiFrame ==
  ASSUME TypeInv, UiStep
  PROVE  UNCHANGED <<phase, attempt, ledger, outcome, emitted, attemptCancelled, queue, actor,
                     where, stored, era>>
<1>1. CASE Interrupt
  BY <1>1, InterruptShape
<1>2. CASE Reset
  BY <1>2, ResetShape
<1>3. CASE Reads
  BY <1>3, ReadsShape
<1>4. CASE Closes
  BY <1>4, ClosesShape
<1> QED BY <1>1, <1>2, <1>3, <1>4 DEF UiStep

(* What a turn's step files; only submitting it says where.                 *)
LEMMA StepsFile ==
  ASSUME TypeInv, NEW t \in Turns, Thread(t), Lined(t), Produced(t), TurnStep(t)
  PROVE  \/ Files(t) /\ (UNCHANGED stored \/ phase[t] # "unborn")
         \/ /\ phase[t] = "unborn" /\ phase'[t] = "start" /\ stored' = stored
            /\ where' = [where EXCEPT ![t] = session]
<1>1. CASE Persist(t) \/ PersistFails(t)
  <2>1. Files(t)
    BY <1>1, ActorFiles
  <2>2. actor[t] /\ queue[t] # <<>>
    BY <1>1, PersistShape, PersistFailsShape
  <2> QED BY <2>1, <2>2 DEF Thread
<1>2. CASE Submit(t)
  BY <1>2 DEF Submit, TypeInv
<1>3. CASE Produces(t)
  <2>1. Emission(t)
    BY <1>3, ProducesIsEmission
  <2> QED BY <2>1 DEF Emission, Attempts, actorVars, Files
<1>4. CASE ~(Persist(t) \/ PersistFails(t) \/ Submit(t) \/ Produces(t))
  <2>1. UNCHANGED <<where, stored>>
    BY <1>4 DEF TurnStep, Answer, WorkerStarts, StreamDelta, Ask, ProviderFailsEarly,
       NextAttempt, RetryCancelled, SendFlush, SendVerdict, WorkerPanics, actorVars
  <2> QED BY <2>1 DEF Files
<1> QED BY <1>1, <1>2, <1>3, <1>4

(* A turn is born once, a session never forgets, and a turn that has a      *)
(* session keeps it.                                                        *)
Grows ==
  /\ \A u \in Turns : phase[u] # "unborn" => phase'[u] # "unborn"
  /\ \A u \in Turns : \A i : In(i, emitted[u]) => In(i, emitted'[u])
  /\ \A s \in Turns : \A i : In(i, stored[s]) => In(i, stored'[s])
  /\ \A u \in Turns : phase[u] # "unborn" /\ where[u] # None => where'[u] = where[u]

(* A turn that was submitted stays so.                                      *)
LEMMA BornStays ==
  ASSUME TypeInv, NEW t \in Turns, Thread(t), Lined(t), Produced(t), TurnStep(t)
  PROVE  \A u \in Turns : phase[u] # "unborn" => phase'[u] # "unborn"
<1>1. \A u \in Turns \ {t} : phase'[u] = phase[u]
  BY StepsAlone DEF Alone
<1>t. phase \in [Turns -> Phases]
  BY DEF TypeInv
<1>2. phase[t] # "unborn" => phase'[t] # "unborn"
  <2>1. CASE Persist(t)
    BY <2>1, <1>t, PersistShape
  <2>2. CASE PersistFails(t)
    BY <2>2, <1>t, PersistFailsShape
  <2>3. CASE Produces(t)
    <3>1. Emission(t)
      BY <2>3, ProducesIsEmission
    <3> QED BY <3>1 DEF Emission, Attempts
  <2>4. CASE Submit(t) \/ Answer(t) \/ StreamDelta(t) \/ Ask(t)
    BY <2>4, <1>t DEF Submit, Answer, StreamDelta, Ask, workerVars
  <2>5. CASE WorkerStarts(t)
    BY <2>5, <1>t DEF WorkerStarts
  <2>6. CASE ProviderFailsEarly(t) \/ NextAttempt(t) \/ RetryCancelled(t) \/ SendVerdict(t)
             \/ WorkerPanics(t)
    BY <2>6, <1>t DEF ProviderFailsEarly, NextAttempt, RetryCancelled, SendVerdict, WorkerPanics
  <2>7. CASE SendFlush(t)
    BY <2>7, <1>t DEF SendFlush
  <2> QED BY <2>1, <2>2, <2>3, <2>4, <2>5, <2>6, <2>7 DEF TurnStep
<1> QED BY <1>1, <1>2

(* Files only grow, by items of the turn that writes.                       *)
LEMMA FilesGrow ==
  ASSUME TypeInv, NEW t \in Turns, Files(t)
  PROVE  /\ \A s \in Turns : \A i : In(i, stored[s]) => In(i, stored'[s])
         /\ \A s \in Turns : \A i : In(i, stored'[s]) =>
              In(i, stored[s]) \/ (i \in Items /\ i.turn = t /\ (i = User(t) \/ In(i, emitted[t])))
         /\ \A u \in Turns : where[u] # None => where'[u] = where[u]
<1>1. CASE UNCHANGED <<where, stored>>
  BY <1>1
<1>2. ASSUME NEW i \in Items, NEW s \in Turns,
             where[t] \in {None, s} /\ where' = [where EXCEPT ![t] = s],
             stored' = [stored EXCEPT ![s] = Append(@, i)],
             i.turn = t /\ (i = User(t) \/ In(i, emitted[t]))
      PROVE  /\ \A r \in Turns : \A j : In(j, stored[r]) => In(j, stored'[r])
             /\ \A r \in Turns : \A j : In(j, stored'[r]) =>
                  In(j, stored[r])
                  \/ (j \in Items /\ j.turn = t /\ (j = User(t) \/ In(j, emitted[t])))
             /\ \A u \in Turns : where[u] # None => where'[u] = where[u]
  <2>1. stored[s] \in Seq(Items) /\ stored'[s] = Append(stored[s], i)
        /\ \A r \in Turns \ {s} : stored'[r] = stored[r]
    BY <1>2 DEF TypeInv
  <2>2. \A j : In(j, stored'[s]) <=> In(j, stored[s]) \/ j = i
    BY <2>1, InAppend
  <2>3. \A u \in Turns : where[u] # None => where'[u] = where[u]
    BY <1>2 DEF TypeInv
  <2>4. \A r \in Turns : \A j : In(j, stored[r]) => In(j, stored'[r])
    BY <2>1, <2>2
  <2>5. \A r \in Turns : \A j : In(j, stored'[r]) => In(j, stored[r]) \/ j = i
    BY <2>1, <2>2
  <2> QED BY <1>2, <2>3, <2>4, <2>5
<1> QED BY <1>1, <1>2 DEF Files

(* A turn's step only adds to the files and to what was produced.           *)
LEMMA StepsGrow ==
  ASSUME TypeInv, NEW t \in Turns, Thread(t), Lined(t), Produced(t), TurnStep(t)
  PROVE  Grows
<1>1. /\ \A u \in Turns : phase[u] # "unborn" => phase'[u] # "unborn"
      /\ \A u \in Turns : \A i : In(i, emitted[u]) => In(i, emitted'[u])
  BY BornStays, EmittedGrows
<1>2. CASE Files(t)
  BY <1>1, <1>2, FilesGrow DEF Grows
<1>3. CASE phase[t] = "unborn" /\ stored' = stored /\ where' = [where EXCEPT ![t] = session]
  <2>1. \A u \in Turns : phase[u] # "unborn" => where'[u] = where[u]
    BY <1>3 DEF TypeInv
  <2> QED BY <1>1, <1>3, <2>1 DEF Grows
<1> QED BY <1>2, <1>3, StepsFile

-----------------------------------------------------------------------------
(* Of an item the file has the turn it came from has it too *)

(* A turn's step files only what was produced.                              *)
LEMMA FiledKept ==
  ASSUME TypeInv, NEW t \in Turns, Thread(t), Lined(t), Produced(t), TurnStep(t),
         NEW s \in Turns, Filed(s)
  PROVE  Filed(s)'
<1>1. Grows
  BY StepsGrow
<1>2. \A i : In(i, stored[s]) =>
         i \in Items /\ i.turn \in Turns /\ phase[i.turn] # "unborn"
         /\ (i = User(i.turn) \/ In(i, emitted[i.turn]))
  <2> SUFFICES ASSUME NEW i, In(i, stored[s])
               PROVE  i \in Items /\ i.turn \in Turns /\ phase[i.turn] # "unborn"
                      /\ (i = User(i.turn) \/ In(i, emitted[i.turn]))
    OBVIOUS
  <2>1. stored[s] \in Seq(Items)
    BY DEF TypeInv
  <2>2. PICK k \in 1..Len(stored[s]) : stored[s][k] = i
    BY DEF In
  <2>3. i \in Items
    BY <2>1, <2>2
  <2>4. i.turn \in Turns
    BY <2>3, ItemFields
  <2> QED BY <2>2, <2>3, <2>4 DEF Filed
<1>3. \A i : In(i, stored'[s]) => In(i, stored[s])
        \/ (i.turn = t /\ phase[t] # "unborn" /\ (i = User(t) \/ In(i, emitted[t])))
  <2>1. CASE UNCHANGED stored
    BY <2>1
  <2>2. CASE Files(t) /\ phase[t] # "unborn"
    BY <2>2, FilesGrow
  <2> QED BY <2>1, <2>2, StepsFile
<1>4. \A i : In(i, stored'[s]) =>
         i.turn \in Turns /\ phase'[i.turn] # "unborn" /\ (i = User(i.turn) \/ In(i, emitted'[i.turn]))
  BY <1>1, <1>2, <1>3 DEF Grows
<1>5. \A k \in 1..Len(stored'[s]) : In(stored'[s][k], stored'[s])
  BY DEF In
<1> QED BY <1>4, <1>5 DEF Filed, In

-----------------------------------------------------------------------------
(* What the history shows is stored *)

(* What a drain is about to add to the history is in the files.             *)
LEMMA NewItemsAreStored ==
  ASSUME TypeInv, Screen, active \in Turns
  PROVE  \A k \in 1..Len(NewItems) :
           /\ NewItems[k].turn = active /\ where[active] # None
           /\ In(NewItems[k], stored[where[active]])
<1> SUFFICES ASSUME NEW k \in 1..Len(NewItems)
             PROVE  /\ NewItems[k].turn = active /\ where[active] # None
                    /\ In(NewItems[k], stored[where[active]])
  OBVIOUS
<1>1. PICK i \in 1..Len(inbox) : inbox[i].kind = "item" /\ inbox[i].item = NewItems[k]
  BY TypeFetches DEF Fetches
<1>2. active # None
  BY NoneIsNoTurn
<1> QED BY <1>1, <1>2 DEF Screen

(* A turn's step leaves the history backed by the files.                    *)
LEMMA RememberedKept ==
  ASSUME TypeInv, NEW t \in Turns, Thread(t), Lined(t), Produced(t), TurnStep(t), Remembered
  PROVE  Remembered'
<1>1. Grows
  BY StepsGrow
<1>2. history' = history /\ spent'.resets = spent.resets /\ (Submit(t) \/ era' = era)
  BY StepsFrame
<1>3. \A u \in Turns : phase[u] # "unborn" => era'[u] = era[u]
  BY <1>2 DEF Submit, TypeInv
<1> SUFFICES ASSUME NEW k \in 1..Len(history'), NEW u, u = history'[k].turn
             PROVE  /\ Current(u)' /\ phase'[u] # "unborn" /\ where'[u] # None
                    /\ In(history'[k], stored'[where'[u]])
  BY DEF Remembered, In
<1>4. k \in 1..Len(history) /\ history'[k] = history[k] /\ u = history[k].turn
  BY <1>2
<1>5. u \in Turns /\ Current(u) /\ phase[u] # "unborn" /\ where[u] # None
      /\ In(history[k], stored[where[u]])
  BY <1>4, ItemFields DEF Remembered, TypeInv
<1>6. where[u] \in Turns
  BY <1>5 DEF TypeInv
<1> QED BY <1>1, <1>2, <1>3, <1>4, <1>5, <1>6 DEF Grows, Current

Shown(i) ==
  /\ Current(i.turn) /\ phase[i.turn] # "unborn"
  /\ where[i.turn] # None /\ In(i, stored[where[i.turn]])

(* The history is remembered when each of its items is.                     *)
LEMMA RememberedIsShown == Remembered <=> \A k \in 1..Len(history) : Shown(history[k])
BY DEF Remembered, Shown

(* What the UI adds to the history is in the files already.                 *)
LEMMA RememberedInUi ==
  ASSUME TypeInv, UiStep, \A u \in Turns : Thread(u), Screen, Remembered
  PROVE  Remembered'
<1>0. UNCHANGED <<phase, where, stored, era>>
  BY UiFrame
<1>1. CASE Interrupt
  <2>1. UNCHANGED <<history, spent>>
    BY <1>1, InterruptShape
  <2> QED BY <2>1, <1>0 DEF Remembered, Current, In
<1>2. CASE Reset
  <2>1. Len(history') = 0
    BY <1>2, ResetShape
  <2> QED BY <2>1 DEF Remembered
<1>3. \A k \in 1..Len(history) : Shown(history[k])
  BY RememberedIsShown
<1>4. ASSUME active \in Turns PROVE \A k \in 1..Len(NewItems) : Shown(NewItems[k])
  <2>1. phase[active] # "unborn" /\ Current(active)
    BY <1>4, NoneIsNoTurn DEF Screen, Thread
  <2> QED BY <2>1, <1>4, NewItemsAreStored DEF Shown
<1>5. ASSUME spent' = spent, \A k \in 1..Len(history') : Shown(history'[k])
      PROVE  Remembered'
  <2> SUFFICES ASSUME NEW k \in 1..Len(history'), NEW u, u = history'[k].turn
               PROVE  /\ Current(u)' /\ phase'[u] # "unborn" /\ where'[u] # None
                      /\ In(history'[k], stored'[where'[u]])
    BY DEF Remembered, In
  <2> DEFINE i == history'[k]
  <2>2. Shown(i) /\ u = i.turn
    BY <1>5
  <2> HIDE DEF i
  <2>3. Current(u) /\ phase[u] # "unborn" /\ where[u] # None /\ In(i, stored[where[u]])
    BY <2>2 DEF Shown
  <2> QED BY <1>0, <1>5, <2>3 DEF Current, i
<1>6. history \in Seq(Items) /\ NewItems \in Seq(Items)
  BY TypeFetches DEF Fetches, TypeInv
<1>7. CASE Reads
  <2>1. active \in Turns /\ spent' = spent /\ Reconcile
    BY <1>7, ReadsShape
  <2> DEFINE asked == IF Commits THEN <<User(pending)>> ELSE <<>>
  <2>2. ASSUME Commits PROVE User(pending) \in Items /\ Shown(User(pending))
    <3>1. pending = active /\ \E i \in 1..Len(inbox) : inbox[i].kind = "turn"
      BY <2>2, TurnDeltasAreRead DEF Commits, Screen
    <3>2. where[active] # None /\ In(User(active), stored[where[active]]) /\ Current(active)
      BY <3>1, <2>1, NoneIsNoTurn DEF Screen
    <3>3. phase[active] # "unborn"
      BY <2>1 DEF Thread
    <3>4. User(active) \in Items /\ User(active).turn = active
      BY <2>1, UserType
    <3> QED BY <3>1, <3>2, <3>3, <3>4 DEF Shown
  <2>3. asked \in Seq(Items) /\ \A k \in 1..Len(asked) : Shown(asked[k])
    <3>1. CASE Commits
      <4> DEFINE u == User(pending)
      <4>1. u \in Items /\ Shown(u) /\ asked = <<u>>
        BY <2>2, <3>1
      <4> HIDE DEF u, asked
      <4> QED BY <4>1
    <3>2. CASE ~Commits
      <4>1. asked = <<>>
        BY <3>2
      <4> HIDE DEF asked
      <4> QED BY <4>1
    <3> QED BY <3>1, <3>2
  <2>4. history' = (history \o asked) \o NewItems
    BY <2>1 DEF Reconcile, CommitPendingUser
  <2> HIDE DEF asked
  <2> DEFINE ha == history \o asked
  <2>5. ha \in Seq(Items) /\ \A k \in 1..Len(ha) : Shown(ha[k])
    <3>1. /\ ha \in Seq(Items)
          /\ \A n \in 1..Len(history) : ha[n] = history[n]
          /\ \A n \in 1..Len(asked) : ha[Len(history) + n] = asked[n]
          /\ \A n \in 1..Len(ha) : n \in 1..Len(history) \/ \E m \in 1..Len(asked) : n = Len(history) + m
      <4>1. ha \in Seq(Items) /\ Joined(ha, history, asked)
        BY <1>6, <2>3, ConcatFacts
      <4> HIDE DEF ha
      <4> QED BY <4>1 DEF Joined
    <3> HIDE DEF ha
    <3> QED BY <3>1, <1>3, <2>3
  <2> HIDE DEF ha
  <2> DEFINE hn == ha \o NewItems
  <2>6. \A k \in 1..Len(hn) : Shown(hn[k])
    <3>1. /\ \A n \in 1..Len(ha) : hn[n] = ha[n]
          /\ \A n \in 1..Len(NewItems) : hn[Len(ha) + n] = NewItems[n]
          /\ \A n \in 1..Len(hn) : n \in 1..Len(ha) \/ \E m \in 1..Len(NewItems) : n = Len(ha) + m
      <4> DEFINE new == NewItems
      <4>1. new \in Seq(Items)
        BY <1>6
      <4> HIDE DEF new
      <4> DEFINE both == ha \o new
      <4>2. Joined(both, ha, new)
        BY <4>1, <2>5, ConcatFacts
      <4>3. Joined(hn, ha, NewItems)
        BY <4>2 DEF both, new
      <4> HIDE DEF hn
      <4> QED BY <4>3 DEF Joined
    <3> HIDE DEF hn
    <3> QED BY <3>1, <1>4, <2>1, <2>5
  <2>7. \A k \in 1..Len(history') : Shown(history'[k])
    BY <2>4, <2>6 DEF ha
  <2> QED BY <1>5, <2>1, <2>7
<1>8. CASE Closes
  <2>1. active \in Turns /\ spent' = spent /\ history' = history \o NewItems
    BY <1>8, ClosesShape
  <2> DEFINE hn == history \o NewItems
  <2>2. \A k \in 1..Len(hn) : Shown(hn[k])
    <3>1. /\ \A n \in 1..Len(history) : hn[n] = history[n]
          /\ \A n \in 1..Len(NewItems) : hn[Len(history) + n] = NewItems[n]
          /\ \A n \in 1..Len(hn) : n \in 1..Len(history) \/
               \E m \in 1..Len(NewItems) : n = Len(history) + m
      <4> DEFINE h == history  new == NewItems
      <4>1. h \in Seq(Items) /\ new \in Seq(Items)
        BY <1>6
      <4> HIDE DEF h, new
      <4> DEFINE both == h \o new
      <4>2. Joined(both, h, new)
        BY <4>1, ConcatFacts
      <4>3. Joined(hn, history, NewItems)
        BY <4>2 DEF both, h, new
      <4> HIDE DEF hn
      <4> QED BY <4>3 DEF Joined
    <3> HIDE DEF hn
    <3> QED BY <3>1, <1>3, <1>4, <2>1
  <2>3. \A k \in 1..Len(history') : Shown(history'[k])
    BY <2>1, <2>2
  <2> QED BY <1>5, <2>1, <2>3
<1> QED BY <1>1, <1>2, <1>7, <1>8 DEF UiStep

-----------------------------------------------------------------------------
(* The screen *)

(* What a step of the turn on the screen has to say for itself.             *)
Tells(t, events) ==
  /\ inbox' = inbox \o events /\ phase[t] # "done"
  /\ Stopped(t) /\ Has(Terminal) => Stopped(t)' \/ phase'[t] = "done"
  /\ \A n \in 1..Len(events) : events[n].kind \in Terminal => Stopped(t)' \/ phase'[t] = "done"
  /\ phase'[t] = "done" =>
       spent'.panics > 0 \/ \E n \in 1..Len(events) : events[n].kind \in Terminal
  /\ \A n \in 1..Len(events) :
       /\ events[n].kind \in Verdicts =>
            n = Len(events) /\ phase'[t] = "done" /\ ledger'[t] = {}
       /\ events[n].kind = "turn" => where'[t] # None /\ In(User(t), stored'[where'[t]])
       /\ events[n].kind = "item" =>
            where'[t] # None /\ events[n].item.turn = t /\ In(events[n].item, stored'[where'[t]])

(* Telling the screen something keeps what the channel promises.            *)
LEMMA ScreenTold ==
  ASSUME TypeInv, NEW t \in Turns, Screen, Grows, Thread(t), active = t,
         UNCHANGED <<active, pending, era, verdict>>, spent'.resets = spent.resets,
         asking' \subseteq {active}, NEW events \in Seq(Event), Tells(t, events)
  PROVE  Screen'
<1> DEFINE all == inbox \o events
<1>1. inbox \in Seq(Event) /\ active # None /\ phase[t] # "unborn"
  BY NoneIsNoTurn DEF TypeInv, Thread
<1>2. /\ all \in Seq(Event) /\ Len(all) = Len(inbox) + Len(events)
      /\ \A n \in 1..Len(inbox) : n \in 1..Len(all) /\ all[n] = inbox[n]
      /\ \A n \in 1..Len(events) : Len(inbox) + n \in 1..Len(all) /\ all[Len(inbox) + n] = events[n]
      /\ \A n \in 1..Len(all) : n \in 1..Len(inbox) \/ \E m \in 1..Len(events) : n = Len(inbox) + m
  <2> DEFINE old == inbox
  <2>1. old \in Seq(Event) /\ events \in Seq(Event)
    BY <1>1
  <2> HIDE DEF old
  <2> DEFINE both == old \o events
  <2>2. both \in Seq(Event) /\ Joined(both, old, events)
    BY <2>1, ConcatFacts
  <2>3. all \in Seq(Event) /\ Joined(all, inbox, events)
    BY <2>2 DEF both, old
  <2> HIDE DEF all
  <2> QED BY <2>3 DEF Joined
<1>3. inbox' = all
  BY DEF Tells
<1> HIDE DEF all
<1>4. Current(active)' /\ verdict'[active] = "none"
  BY <1>1 DEF Screen, Current
<1>5. ASSUME Has(Terminal)' PROVE Stopped(t)' \/ phase'[t] = "done"
  <2>1. PICK n \in 1..Len(all) : all[n].kind \in Terminal
    BY <1>3, <1>5 DEF Has
  <2>2. CASE n \in 1..Len(inbox)
    <3>1. Has(Terminal)
      BY <2>1, <2>2, <1>2 DEF Has
    <3>2. Stopped(t)
      BY <3>1, <1>1 DEF Screen, Tells
    <3> QED BY <3>1, <3>2 DEF Tells
  <2>3. CASE n \notin 1..Len(inbox)
    <3>1. PICK m \in 1..Len(events) : n = Len(inbox) + m
      BY <2>3, <1>2
    <3>2. events[m].kind \in Terminal
      BY <2>1, <3>1, <1>2
    <3> QED BY <3>2 DEF Tells
  <2> QED BY <2>2, <2>3
<1>6. ASSUME phase'[t] = "done", ~Has(Terminal)' PROVE spent'.panics > 0
  <2>1. ~ \E n \in 1..Len(events) : events[n].kind \in Terminal
    BY <1>2, <1>3, <1>6 DEF Has
  <2> QED BY <2>1, <1>6 DEF Tells
<1>7. ASSUME NEW n \in 1..Len(all)
      PROVE  /\ all[n].kind \in Verdicts => n = Len(all) /\ phase'[t] = "done" /\ ledger'[t] = {}
             /\ all[n].kind = "turn" => where'[t] # None /\ In(User(t), stored'[where'[t]])
             /\ all[n].kind = "item" =>
                  where'[t] # None /\ all[n].item.turn = t /\ In(all[n].item, stored'[where'[t]])
  <2>1. CASE n \in 1..Len(inbox)
    <3>1. all[n] = inbox[n]
      BY <2>1, <1>2
    <3>2. all[n].kind \notin Verdicts
      BY <2>1, <3>1, <1>1 DEF Screen, Tells
    <3>3. ASSUME where[t] # None PROVE where[t] \in Turns /\ where'[t] = where[t]
      BY <3>3, <1>1 DEF Grows, TypeInv
    <3>4. all[n].kind = "turn" => where[t] # None /\ In(User(t), stored[where[t]])
      BY <2>1, <3>1, <1>1 DEF Screen
    <3>5. all[n].kind = "item" =>
            where[t] # None /\ all[n].item.turn = t /\ In(all[n].item, stored[where[t]])
      BY <2>1, <3>1, <1>1 DEF Screen
    <3> QED BY <3>2, <3>3, <3>4, <3>5 DEF Grows
  <2>2. CASE n \notin 1..Len(inbox)
    <3>1. PICK m \in 1..Len(events) : n = Len(inbox) + m
      BY <2>2, <1>2
    <3>2. all[n] = events[m] /\ (m = Len(events) => n = Len(all))
      BY <3>1, <1>2
    <3> QED BY <3>2 DEF Tells
  <2> QED BY <2>1, <2>2
<1>8. asking' \subseteq {active'} /\ pending' \in {None, active'}
      /\ \A u \in Turns : era'[u] <= spent'.resets
  BY DEF Screen
<1> QED BY <1>3, <1>4, <1>5, <1>6, <1>7, <1>8 DEF Screen, In

(* A step of another turn does not reach it.                                *)
LEMMA StepsSend ==
  ASSUME TypeInv, NEW t \in Turns, Thread(t), Lined(t), Produced(t), TurnStep(t), active # t
  PROVE  Submit(t) \/ inbox' = inbox
<1>1. CASE Persist(t)
  BY <1>1, PersistShape DEF Sent
<1>2. CASE PersistFails(t)
  BY <1>2, PersistFailsShape DEF Sent
<1>3. CASE Produces(t)
  <2>1. Emission(t)
    BY <1>3, ProducesIsEmission
  <2> QED BY <2>1 DEF Emission, Adds, Sent
<1>4. CASE ~(Persist(t) \/ PersistFails(t) \/ Submit(t) \/ Produces(t))
  BY <1>4 DEF TurnStep, Answer, WorkerStarts, StreamDelta, Ask, ProviderFailsEarly,
       NextAttempt, RetryCancelled, SendFlush, SendVerdict, WorkerPanics, Send, Sent
<1> QED BY <1>1, <1>2, <1>3, <1>4

(* Only the turn on the screen asks, and only a submission changes it.      *)
LEMMA AskingIsActive ==
  ASSUME TypeInv, NEW t \in Turns, Thread(t), Lined(t), Produced(t), TurnStep(t), Screen
  PROVE  asking' \subseteq {active} /\ (active' = active \/ Submit(t))
<1>1. CASE Ask(t)
  <2>1. active = t
    BY <1>1 DEF Ask, Thread
  <2> QED BY <1>1, <2>1 DEF Ask, Screen
<1>2. CASE ~Ask(t)
  <2>1. asking' \subseteq asking /\ (active' = active \/ Submit(t))
    BY <1>2, StepsFrame
  <2> QED BY <2>1 DEF Screen
<1> QED BY <1>1, <1>2

(* The step of a turn that left the screen changes nothing there.           *)
LEMMA ScreenOfAnother ==
  ASSUME TypeInv, \A u \in Turns : Thread(u), NEW t \in Turns, Lined(t), Produced(t), TurnStep(t),
         Screen, active # t, ~Submit(t)
  PROVE  Screen'
<1>1. Alone(t) /\ inbox' = inbox /\ Grows
  BY StepsAlone, StepsSend, StepsGrow
<1>2. /\ UNCHANGED <<active, pending, era, verdict>> /\ spent'.resets = spent.resets
      /\ spent'.panics >= spent.panics
  BY StepsFrame
<1>3. asking' \subseteq {active}
  BY AskingIsActive
<1>4. asking' \subseteq {active'} /\ pending' \in {None, active'}
      /\ \A u \in Turns : era'[u] <= spent'.resets
  BY <1>2, <1>3 DEF Screen
<1>5. CASE active = None
  BY <1>2, <1>4, <1>5 DEF Screen
<1>6. CASE active # None
  <2>1. active \in Turns \ {t}
    BY <1>6 DEF TypeInv
  <2>2. /\ phase'[active] = phase[active] /\ cancelled'[active] = cancelled[active]
        /\ attemptCancelled'[active] = attemptCancelled[active] /\ ledger'[active] = ledger[active]
        /\ where'[active] = where[active]
    BY <1>1, <2>1 DEF Alone
  <2>3. Current(active)' /\ verdict'[active] = "none"
    BY <1>2, <1>6 DEF Screen, Current
  <2>4. Stopped(active)' <=> Stopped(active)
    BY <1>2, <2>2 DEF Stopped
  <2>5. Has(Terminal)' <=> Has(Terminal)
    BY <1>1 DEF Has
  <2>6. spent.panics > 0 => spent'.panics > 0
    <3>1. spent.panics \in Nat
      BY SpendType, BoundsAssumption DEF TypeInv
    <3>2. spent'.panics \in Nat
      <4>1. TypeInv'
        BY <2>1, WorkerTypes, ActorTypes, ProducesIsEmission, ProducesTypes DEF TurnStep
      <4>2. spent' \in SpentType
        BY <4>1 DEF TypeInv
      <4> QED BY <4>2, BoundsAssumption DEF SpentType
    <3> QED BY <3>1, <3>2, <1>2
  <2>7. where[active] # None => where[active] \in Turns
    BY <2>1 DEF TypeInv
  <2>8. \A i \in 1..Len(inbox') :
            /\ inbox'[i].kind \in Verdicts =>
                 i = Len(inbox') /\ phase'[active] = "done" /\ ledger'[active] = {}
            /\ inbox'[i].kind = "turn" =>
                 where'[active] # None /\ In(User(active), stored'[where'[active]])
            /\ inbox'[i].kind = "item" =>
                 where'[active] # None /\ inbox'[i].item.turn = active
                 /\ In(inbox'[i].item, stored'[where'[active]])
    BY <1>1, <1>6, <2>2, <2>7 DEF Screen, Grows
  <2> QED BY <1>2, <1>4, <1>6, <2>2, <2>3, <2>4, <2>5, <2>6, <2>8 DEF Screen, In
<1> QED BY <1>5, <1>6

(* A step that sends nothing tells nothing.                                 *)
LEMMA TellsNothing ==
  ASSUME TypeInv, NEW t \in Turns, phase[t] # "done", inbox' = inbox,
         Stopped(t) /\ Has(Terminal) => Stopped(t)' \/ phase'[t] = "done",
         phase'[t] = "done" => spent'.panics > 0
  PROVE  \E events \in Seq(Event) : Tells(t, events)
<1> DEFINE none == <<>>
<1>1. none \in Seq(Event) /\ Len(none) = 0 /\ inbox \o none = inbox
  BY DEF TypeInv
<1> HIDE DEF none
<1>2. Tells(t, none)
  BY <1>1 DEF Tells
<1> QED BY <1>1, <1>2

(* A step that sends one event tells it.                                    *)
LEMMA TellsOne ==
  ASSUME TypeInv, NEW t \in Turns, phase[t] # "done", active = t,
         NEW e \in Event, inbox' = Sent(t, <<e>>),
         Stopped(t) /\ Has(Terminal) => Stopped(t)' \/ phase'[t] = "done",
         e.kind \in Terminal => Stopped(t)' \/ phase'[t] = "done",
         phase'[t] = "done" => e.kind \in Terminal,
         e.kind \in Verdicts => phase'[t] = "done" /\ ledger'[t] = {},
         e.kind = "turn" => where'[t] # None /\ In(User(t), stored'[where'[t]]),
         e.kind = "item" =>
            where'[t] # None /\ e.item.turn = t /\ In(e.item, stored'[where'[t]])
  PROVE  \E events \in Seq(Event) : Tells(t, events)
<1> DEFINE one == <<e>>
<1>1. one \in Seq(Event) /\ Len(one) = 1 /\ \A n \in 1..Len(one) : n = 1 /\ one[n] = e
  OBVIOUS
<1>2. inbox' = inbox \o one
  BY DEF Sent
<1> HIDE DEF one
<1>4. 1 \in 1..Len(one)
  BY <1>1
<1>3. Tells(t, one)
  BY <1>1, <1>2, <1>4 DEF Tells
<1> QED BY <1>1, <1>3

(* A step that sends an event without data tells it.                        *)
LEMMA TellsPlain ==
  ASSUME TypeInv, NEW t \in Turns, phase[t] # "done", active = t,
         NEW k \in Terminal \cup {"progress", "question"}, inbox' = Sent(t, <<Plain(k)>>),
         Stopped(t) => Stopped(t)' \/ phase'[t] = "done",
         k \in Terminal => Stopped(t)' \/ phase'[t] = "done",
         phase'[t] = "done" => k \in Terminal,
         k \in Verdicts => phase'[t] = "done" /\ ledger'[t] = {}
  PROVE  \E events \in Seq(Event) : Tells(t, events)
<1> DEFINE e == Plain(k)
<1>1. e \in Event /\ e.kind = k
  BY DeltaType
<1>2. k # "turn" /\ k # "item"
  BY DEF Terminal
<1>3. inbox' = Sent(t, <<e>>)
  OBVIOUS
<1> HIDE DEF e
<1> QED BY <1>1, <1>2, <1>3, TellsOne

(* Every step of the turn on the screen tells the screen something legal.   *)
LEMMA WhatIsTold ==
  ASSUME TypeInv, NEW t \in Turns, Thread(t), Lined(t), Produced(t), active = t, TurnStep(t), ~Answer(t)
  PROVE  \E events \in Seq(Event) : Tells(t, events)
<1>t. /\ phase \in [Turns -> Phases] /\ ledger \in [Turns -> SUBSET Nat]
      /\ cancelled \in [Turns -> BOOLEAN] /\ stored \in [Turns -> Seq(Items)]
      /\ where \in [Turns -> Turns \cup {None}] /\ spent \in SpentType
  BY DEF TypeInv
<1>k. /\ "interrupted" \in Terminal /\ "lost" \in Terminal /\ "lost" \notin Verdicts
      /\ "progress" \notin Terminal /\ "question" \notin Terminal /\ Verdicts \subseteq Terminal
  BY DEF Terminal, Verdicts
<1>1. CASE Submit(t)
  BY <1>1, NoneIsNoTurn DEF Submit
<1>2. CASE WorkerStarts(t)
  <2>1. phase[t] = "start" /\ ledger'[t] = {} /\ UNCHANGED tokens
    BY <1>2 DEF WorkerStarts, Thread
  <2>2. Stopped(t) => Stopped(t)'
    BY <2>1 DEF Stopped, tokens
  <2>3. CASE cancelled[t]
    <3>1. phase'[t] = "done" /\ inbox' = Sent(t, <<Plain("interrupted")>>)
      BY <1>2, <2>3, <1>t DEF WorkerStarts, Send
    <3> QED BY <2>1, <2>2, <3>1, <1>k, TellsPlain
  <2>4. CASE ~cancelled[t]
    <3>1. phase'[t] = "attempt" /\ inbox' = inbox
      BY <1>2, <2>4, <1>t DEF WorkerStarts
    <3> QED BY <2>1, <2>2, <3>1, TellsNothing
  <2> QED BY <2>3, <2>4
<1>3. CASE StreamDelta(t)
  <2>1. phase[t] = "attempt" /\ UNCHANGED <<tokens, phase>> /\ inbox' = Sent(t, <<Plain("progress")>>)
    BY <1>3 DEF StreamDelta, Streaming, Send, workerVars
  <2>2. Stopped(t) => Stopped(t)'
    BY <2>1 DEF Stopped, tokens
  <2> QED BY <2>1, <2>2, <1>k, TellsPlain
<1>4. CASE Ask(t)
  <2>1. phase[t] = "attempt" /\ UNCHANGED <<tokens, phase>> /\ inbox' = Sent(t, <<Plain("question")>>)
    BY <1>4 DEF Ask, Send, workerVars
  <2>2. Stopped(t) => Stopped(t)'
    BY <2>1 DEF Stopped, tokens
  <2> QED BY <2>1, <2>2, <1>k, TellsPlain
<1>5. CASE Produces(t)
  <2>1. PICK items, cmds, fits, events : Adds(t, items, cmds, fits, events) /\ Attempts(t, events)
    BY <1>5, ProducesIsEmission DEF Emission
  <2>2. events \in Seq(Quiet) /\ inbox' = inbox \o events
    BY <2>1 DEF Adds, Sent
  <2>3. \A n \in 1..Len(events) : events[n].kind \in {"lost", "progress"}
    <3>1. \A n \in 1..Len(events) : events[n] \in Quiet
      BY <2>2
    <3>2. \A e \in Quiet : e.kind \in {"lost", "progress"}
      BY DEF Quiet
    <3> QED BY <3>1, <3>2
  <2>4. Quiet \subseteq Event
    BY DEF Quiet, Event, Terminal
  <2>5. events \in Seq(Event)
    BY <2>2, <2>4
  <2>6. /\ phase[t] = "attempt" /\ phase'[t] \in {"attempt", "ending"} /\ (Stopped(t) => Stopped(t)')
        /\ (\E n \in 1..Len(events) : events[n].kind = "lost") => Stopped(t)'
    BY <2>1 DEF Attempts
  <2>7. \A n \in 1..Len(events) : events[n].kind \notin Verdicts /\ events[n].kind # "turn"
          /\ events[n].kind # "item" /\ (events[n].kind \in Terminal => events[n].kind = "lost")
    BY <2>3, <1>k DEF Verdicts
  <2>8. Tells(t, events)
    BY <2>2, <2>6, <2>7 DEF Tells
  <2> QED BY <2>5, <2>8
<1>6. CASE ProviderFailsEarly(t)
  <2>1. phase[t] = "attempt" /\ UNCHANGED tokens /\ inbox' = Sent(t, <<Plain("progress")>>)
        /\ phase'[t] = "retry"
    BY <1>6, <1>t DEF ProviderFailsEarly, Streaming, Send
  <2>2. Stopped(t) => Stopped(t)'
    BY <2>1 DEF Stopped, tokens
  <2> QED BY <2>1, <2>2, <1>k, TellsPlain
<1>7. CASE NextAttempt(t)
  <2>1. phase[t] = "retry" /\ ~cancelled[t] /\ inbox' = inbox /\ phase'[t] = "attempt"
    BY <1>7, <1>t DEF NextAttempt
  <2>2. ~Stopped(t)
    BY <2>1 DEF Stopped, Thread
  <2> QED BY <2>1, <2>2, TellsNothing
<1>8. CASE RetryCancelled(t) \/ SendFlush(t)
  <2>1. phase[t] \in {"retry", "ending"} /\ UNCHANGED tokens /\ inbox' = inbox
        /\ phase'[t] # "done"
    BY <1>8, <1>t DEF RetryCancelled, SendFlush
  <2>2. Stopped(t) => Stopped(t)'
    BY <2>1 DEF Stopped, tokens
  <2> QED BY <2>1, <2>2, TellsNothing
<1>9. CASE SendVerdict(t)
  <2>1. phase[t] = "flushed" /\ UNCHANGED <<tokens, ledger>> /\ inbox' = Sent(t, <<Plain(outcome[t])>>)
        /\ phase'[t] = "done"
    BY <1>9, <1>t DEF SendVerdict, Send
  <2>2. outcome[t] \in Terminal /\ ledger[t] = {}
    BY <2>1 DEF Thread
  <2> QED BY <2>1, <2>2, TellsPlain
<1>10. CASE WorkerPanics(t)
  <2>1. phase[t] = "attempt" /\ inbox' = inbox /\ phase'[t] = "done" /\ Spend("panics")
    BY <1>10, <1>t DEF WorkerPanics
  <2>2. spent'.panics = spent.panics + 1 /\ spent.panics \in Nat
    BY <2>1, <1>t, SpendType, BoundsAssumption DEF Spend
  <2>3. spent'.panics > 0
    BY <2>2
  <2> QED BY <2>1, <2>3, TellsNothing
<1>11. CASE Persist(t)
  <2>1. /\ actor[t] /\ queue[t] # <<>> /\ UNCHANGED <<cancelled, attemptCancelled>>
        /\ \/ /\ queue[t][1].kind = "turn" /\ TakesTurn(t) /\ phase' = phase
              /\ inbox' = Sent(t, <<TurnDelta(Home(t))>>)
           \/ /\ queue[t][1].kind = "item" /\ TakesItem(t) /\ phase' = phase
              /\ inbox' = Sent(t, <<ItemDelta(queue[t][1].item)>>)
           \/ queue[t][1].kind = "replay" /\ UNCHANGED <<where, stored, inbox, phase>>
           \/ /\ queue[t][1].kind = "flush" /\ UNCHANGED <<where, stored, inbox>>
              /\ phase' = [phase EXCEPT ![t] = "flushed"]
    BY <1>11, PersistShape
  <2>2. /\ phase[t] \in {"attempt", "retry", "ending", "flushing"}
        /\ Home(t) \in Turns
        /\ queue[t][1].kind = "item" => /\ queue[t][1].item \in Items
                                        /\ In(queue[t][1].item, emitted[t]) /\ where[t] \in Turns
    BY <2>1, CommandIsTaken
  <2>3. Stopped(t) => Stopped(t)'
    BY <2>1 DEF Stopped
  <2>4. CASE queue[t][1].kind = "turn" /\ TakesTurn(t) /\ phase' = phase
             /\ inbox' = Sent(t, <<TurnDelta(Home(t))>>)
    <3> DEFINE e == TurnDelta(Home(t))
    <3>1. e \in Event /\ e.kind = "turn"
      BY <2>2, DeltaType
    <3>2. where'[t] = Home(t) /\ stored'[Home(t)] = Append(stored[Home(t)], User(t))
      BY <2>2, <2>4, <1>t DEF TakesTurn
    <3>3. stored[Home(t)] \in Seq(Items) /\ User(t) \in Items
      BY <2>2, <1>t, UserType
    <3>4. In(User(t), stored'[where'[t]]) /\ where'[t] # None
      BY <3>2, <3>3, <2>2, InAppend, NoneIsNoTurn
    <3>5. inbox' = Sent(t, <<e>>)
      BY <2>4
    <3> HIDE DEF e
    <3>6. e.kind \notin Terminal /\ e.kind # "item"
      BY <3>1 DEF Terminal
    <3>7. phase[t] # "done" /\ phase'[t] # "done"
      BY <2>2, <2>4
    <3> QED BY <2>3, <3>1, <3>4, <3>5, <3>6, <3>7, <1>k, TellsOne
  <2>5. CASE queue[t][1].kind = "item" /\ TakesItem(t) /\ phase' = phase
             /\ inbox' = Sent(t, <<ItemDelta(queue[t][1].item)>>)
    <3> DEFINE i == queue[t][1].item  e == ItemDelta(i)
    <3>1. i \in Items /\ In(i, emitted[t]) /\ where[t] \in Turns
      BY <2>2, <2>5
    <3>2. where' = where /\ stored' = [stored EXCEPT ![where[t]] = Append(@, i)]
      BY <2>5 DEF TakesItem
    <3>3. inbox' = Sent(t, <<e>>)
      BY <2>5
    <3> HIDE DEF i
    <3>4. e \in Event /\ e.kind = "item" /\ e.item = i
      BY <3>1, DeltaType
    <3> HIDE DEF e
    <3>5. i.turn = t
      BY <3>1 DEF In, Produced
    <3>6. stored'[where[t]] = Append(stored[where[t]], i) /\ stored[where[t]] \in Seq(Items)
      BY <3>1, <3>2, <1>t
    <3>7. In(i, stored'[where'[t]]) /\ where'[t] # None
      BY <3>1, <3>2, <3>6, InAppend, NoneIsNoTurn
    <3>8. e.kind \notin Terminal /\ e.kind # "turn"
      BY <3>4 DEF Terminal
    <3>9. phase[t] # "done" /\ phase'[t] # "done"
      BY <2>2, <2>5
    <3> QED BY <2>3, <3>3, <3>4, <3>5, <3>7, <3>8, <3>9, <1>k, TellsOne
  <2>6. CASE inbox' = inbox /\ phase'[t] # "done"
    BY <2>2, <2>3, <2>6, TellsNothing
  <2> QED BY <2>1, <2>2, <2>4, <2>5, <2>6, <1>t
<1>12. CASE PersistFails(t)
  <2>1. /\ actor[t] /\ queue[t] # <<>> /\ cancelled' = [cancelled EXCEPT ![t] = TRUE]
        /\ inbox' = Sent(t, <<Plain("lost")>>)
        /\ phase' = phase \/ phase' = [phase EXCEPT ![t] = "flushed"]
    BY <1>12, PersistFailsShape
  <2>2. phase[t] \in {"attempt", "retry", "ending", "flushing"}
    BY <2>1, CommandIsTaken
  <2>3. Stopped(t)'
    BY <2>1, <1>t DEF Stopped
  <2>4. phase'[t] # "done"
    BY <2>1, <2>2, <1>t
  <2> QED BY <2>1, <2>2, <2>3, <2>4, <1>k, TellsPlain
<1> QED BY <1>1, <1>2, <1>3, <1>4, <1>5, <1>6, <1>7, <1>8, <1>9, <1>10, <1>11, <1>12 DEF TurnStep

(* A turn's step keeps what the channel promises.                           *)
LEMMA ScreenKept ==
  ASSUME TypeInv, \A u \in Turns : Thread(u), NEW t \in Turns, Lined(t), Produced(t), TurnStep(t), Screen
  PROVE  Screen'
<1>1. CASE Submit(t)
  <2>1. /\ active' = t /\ pending' = t /\ inbox' = <<>> /\ era' = [era EXCEPT ![t] = spent.resets]
        /\ spent' = spent /\ verdict' = verdict /\ phase'[t] = "start" /\ phase[t] = "unborn"
        /\ active = None /\ asking' = asking
    BY <1>1 DEF Submit, TypeInv
  <2>2. asking' = {}
    BY <2>1, NoneIsNoTurn DEF Screen, TypeInv
  <2>3. era'[t] = spent.resets /\ \A u \in Turns \ {t} : era'[u] = era[u]
    BY <2>1 DEF TypeInv
  <2>4. spent.resets \in Nat
    BY SpendType, BoundsAssumption DEF TypeInv
  <2>5. \A u \in Turns : era'[u] <= spent'.resets
    BY <2>1, <2>3, <2>4 DEF Screen
  <2>6. Current(active)' /\ verdict'[active'] = "none"
    BY <2>1, <2>3 DEF Current, Thread
  <2>7. Len(inbox') = 0
    BY <2>1
  <2>8. ~Has(Terminal)'
    BY <2>7 DEF Has
  <2> QED BY <2>1, <2>2, <2>5, <2>6, <2>7, <2>8 DEF Screen
<1>2. CASE Answer(t)
  <2>1. asking' = asking \ {t} /\ UNCHANGED <<active, inbox, pending, phase, ledger, cancelled,
          attemptCancelled, where, stored, spent, verdict, era>>
    BY <1>2 DEF Answer, uiVars, workerVars, tokens, actorVars, ghostVars
  <2> QED BY <2>1 DEF Screen, Has, Stopped, Current, In
<1>3. CASE active = t /\ ~Submit(t) /\ ~Answer(t)
  <2>1. PICK events \in Seq(Event) : Tells(t, events)
    BY <1>3, WhatIsTold
  <2>2. Grows /\ UNCHANGED <<active, pending, era, verdict>> /\ spent'.resets = spent.resets
    BY <1>3, StepsGrow, StepsFrame
  <2>3. asking' \subseteq {active}
    BY AskingIsActive
  <2> QED BY <1>3, <2>1, <2>2, <2>3, ScreenTold
<1>4. CASE active # t /\ ~Submit(t)
  BY <1>4, ScreenOfAnother
<1> QED BY <1>1, <1>2, <1>3, <1>4

(* The UI's steps keep what the channel promises.                           *)
LEMMA ScreenInUi ==
  ASSUME TypeInv, UiStep, Screen
  PROVE  Screen'
<1>0. UNCHANGED <<phase, ledger, attemptCancelled, where, stored, era>>
  BY UiFrame
<1>1. CASE Interrupt
  <2>1. /\ active \in Turns /\ cancelled' = [cancelled EXCEPT ![active] = TRUE]
        /\ asking' = {} /\ UNCHANGED <<active, inbox, pending, spent, verdict>>
    BY <1>1, InterruptShape
  <2>2. Stopped(active)'
    BY <2>1 DEF Stopped, TypeInv
  <2>3. (Has(Terminal)' <=> Has(Terminal)) /\ (Current(active)' <=> Current(active))
    BY <1>0, <2>1 DEF Has, Current
  <2> QED BY <1>0, <2>1, <2>2, <2>3 DEF Screen, In
<1>2. CASE Reset
  <2>1. active' = None /\ asking' = {} /\ pending' = None /\ spent'.resets = spent.resets + 1
    BY <1>2, ResetShape
  <2>2. \A u \in Turns : era'[u] <= spent'.resets
    <3>1. spent.resets \in Nat /\ MaxResets \in Nat
      BY SpendType, BoundsAssumption DEF TypeInv
    <3>2. \A u \in Turns : era[u] \in Nat /\ era[u] <= spent.resets
      BY <3>1 DEF Screen, TypeInv
    <3> QED BY <1>0, <2>1, <3>1, <3>2
  <2> QED BY <2>1, <2>2 DEF Screen
<1>3. CASE Closes
  <2>1. active' = None /\ asking' = {} /\ pending' = None /\ spent' = spent
    BY <1>3, ClosesShape
  <2> QED BY <1>0, <2>1 DEF Screen
<1>4. CASE Reads
  <2> DEFINE d == Len(inbox) - Len(inbox')
  <2>1. /\ active \in Turns
        /\ inbox' \in Seq(Event) /\ d \in Nat
        /\ \A i \in 1..Len(inbox') : i + d \in 1..Len(inbox) /\ inbox'[i] = inbox[i + d]
        /\ \A i \in 1..Len(inbox) : i <= d => inbox[i].kind \notin Terminal
        /\ \A i \in 1..Len(inbox) : i > d => i - d \in 1..Len(inbox') /\ inbox'[i - d] = inbox[i]
        /\ Reconcile
        /\ UNCHANGED <<active, asking, verdict, cancelled, spent>>
    BY <1>4, ReadsShape
  <2>2. Len(inbox) \in Nat /\ Len(inbox') \in Nat
    <3>1. inbox \in Seq(Event)
      BY DEF TypeInv
    <3>2. inbox' \in Seq(Event)
      BY <2>1
    <3>3. Len(inbox) \in Nat
      BY <3>1
    <3>4. Len(inbox') \in Nat
      BY <3>2
    <3> QED BY <3>3, <3>4
  <2>3. pending' \in {None, active'}
    BY <2>1 DEF Reconcile, CommitPendingUser, Screen
  <2>4. \A i \in 1..Len(inbox') : i + d = Len(inbox) => i = Len(inbox')
    BY <2>2
  <2> HIDE DEF d
  <2>5. Has(Terminal)' <=> Has(Terminal)
    <3>1. ASSUME Has(Terminal) PROVE Has(Terminal)'
      <4>1. PICK i \in 1..Len(inbox) : inbox[i].kind \in Terminal
        BY <3>1 DEF Has
      <4>2. i > d
        BY <2>1, <2>2, <4>1
      <4> QED BY <2>1, <4>1, <4>2 DEF Has
    <3>2. ASSUME Has(Terminal)' PROVE Has(Terminal)
      BY <2>1, <3>2 DEF Has
    <3> QED BY <3>1, <3>2
  <2>6. active # None /\ Current(active)' /\ verdict'[active'] = "none"
    BY <1>0, <2>1, NoneIsNoTurn DEF Screen, Current
  <2>7. Stopped(active)' <=> Stopped(active)
    BY <1>0, <2>1 DEF Stopped
  <2>8. ASSUME NEW i \in 1..Len(inbox')
        PROVE  /\ inbox'[i].kind \in Verdicts =>
                    i = Len(inbox') /\ phase[active] = "done" /\ ledger[active] = {}
               /\ inbox'[i].kind = "turn" =>
                    where[active] # None /\ In(User(active), stored[where[active]])
               /\ inbox'[i].kind = "item" =>
                    where[active] # None /\ inbox'[i].item.turn = active
                    /\ In(inbox'[i].item, stored[where[active]])
    <3>1. i + d \in 1..Len(inbox) /\ inbox'[i] = inbox[i + d]
      BY <2>1
    <3> HIDE <2>1
    <3> QED BY <3>1, <2>4, <2>6 DEF Screen
  <2>9. asking' \subseteq {active'} /\ \A u \in Turns : era'[u] <= spent'.resets
    BY <1>0, <2>1 DEF Screen
  <2> QED BY <1>0, <2>1, <2>3, <2>5, <2>6, <2>7, <2>8, <2>9 DEF Screen, In
<1> QED BY <1>1, <1>2, <1>3, <1>4 DEF UiStep

-----------------------------------------------------------------------------
(* The turn on the screen is followed *)

(* How a concatenation of three runs of items is grouped does not matter.   *)
LEMMA ConcatGroups ==
  ASSUME NEW a \in Seq(Items), NEW b \in Seq(Items), NEW c \in Seq(Items)
  PROVE  (a \o b) \o c = a \o (b \o c)
BY ConcatAssociative

(* Concatenation is associative, and nothing is its unit.                   *)
LEMMA ConcatAssoc ==
  ASSUME NEW T, NEW a \in Seq(T), NEW b \in Seq(T), NEW c \in Seq(T)
  PROVE  /\ (a \o b) \o c = a \o (b \o c) /\ a \o b \in Seq(T)
         /\ a \o <<>> = a /\ <<>> \o a = a
BY ConcatAssociative, ConcatEmptySeq

(* Each share of the turn's items is a sequence of items.                   *)
LEMMA SaidType ==
  ASSUME TypeInv, NEW t \in Turns
  PROVE  /\ Said(t, history) \in Seq(Items) /\ ItemsIn(inbox) \in Seq(Items)
         /\ ItemsIn(queue[t]) \in Seq(Items) /\ emitted[t] \in Seq(Items)
         /\ \A s \in Turns : stored[s] \in Seq(Items) /\ Of(t, stored[s]) \in Seq(Items)
<1>1. history \in Seq(Items) /\ inbox \in Seq(Event) /\ queue[t] \in Seq(Commands)
      /\ emitted[t] \in Seq(Items) /\ \A s \in Turns : stored[s] \in Seq(Items)
  BY DEF TypeInv
<1>2. ItemsIn(inbox) \in Seq(Items)
  BY <1>1, ItemsInType
<1>3. ItemsIn(queue[t]) \in Seq(Items)
  <2> DEFINE q == queue[t]
  <2>1. q \in Seq(Commands)
    BY <1>1
  <2> HIDE DEF q
  <2>2. ItemsIn(q) \in Seq(Items)
    BY <2>1, ItemsInType
  <2> QED BY <2>2 DEF q
<1> QED BY <1>1, <1>2, <1>3, OfSelects

(* What the channel holds once something is told.                           *)
LEMMA AllTold ==
  ASSUME TypeInv, NEW events \in Seq(Event), inbox' = inbox \o events
  PROVE  /\ ItemsIn(inbox') = ItemsIn(inbox) \o ItemsIn(events)
         /\ \A kinds : Has(kinds)' <=> Has(kinds) \/ \E n \in 1..Len(events) : events[n].kind \in kinds
<1> DEFINE old == inbox
<1>1. old \in Seq(Event) /\ events \in Seq(Event)
  BY DEF TypeInv
<1> HIDE DEF old
<1> DEFINE both == old \o events
<1>2. ItemsIn(both) = ItemsIn(old) \o ItemsIn(events)
  BY <1>1, ItemsInConcat
<1>3. /\ Len(both) = Len(old) + Len(events)
      /\ \A n \in 1..Len(old) : n \in 1..Len(both) /\ both[n] = old[n]
      /\ \A n \in 1..Len(events) : Len(old) + n \in 1..Len(both) /\ both[Len(old) + n] = events[n]
      /\ \A n \in 1..Len(both) : n \in 1..Len(old) \/ \E m \in 1..Len(events) : n = Len(old) + m
  <2>1. Joined(both, old, events)
    BY <1>1, ConcatFacts
  <2> HIDE DEF both
  <2> QED BY <2>1 DEF Joined
<1>4. inbox' = both
  BY DEF old
<1> HIDE DEF both
<1>5. ASSUME NEW kinds
      PROVE  Has(kinds)' <=> Has(kinds) \/ \E n \in 1..Len(events) : events[n].kind \in kinds
  <2>1. Has(kinds)' <=> \E n \in 1..Len(both) : both[n].kind \in kinds
    BY <1>4 DEF Has
  <2>2. Has(kinds) <=> \E n \in 1..Len(old) : old[n].kind \in kinds
    BY DEF Has, old
  <2>3. ASSUME NEW n \in 1..Len(both), both[n].kind \in kinds
        PROVE  (\E m \in 1..Len(old) : old[m].kind \in kinds)
               \/ \E m \in 1..Len(events) : events[m].kind \in kinds
    BY <1>3, <2>3
  <2>4. ASSUME NEW n \in 1..Len(old), old[n].kind \in kinds
        PROVE  \E m \in 1..Len(both) : both[m].kind \in kinds
    BY <1>3, <2>4
  <2>5. ASSUME NEW n \in 1..Len(events), events[n].kind \in kinds
        PROVE  \E m \in 1..Len(both) : both[m].kind \in kinds
    BY <1>3, <2>5
  <2> QED BY <2>1, <2>2, <2>3, <2>4, <2>5
<1> QED BY <1>2, <1>4, <1>5 DEF old

(* A turn followed after a step of its worker was followed before.          *)
LEMMA FollowedBefore ==
  ASSUME TypeInv, NEW t \in Turns, active = t, active' = t, NEW events \in Seq(Event),
         inbox' = inbox \o events, phase[t] # "done", Followed'
  PROVE  Followed /\ \A n \in 1..Len(events) : events[n].kind # "lost"
<1>1. Has({"lost"})' <=> Has({"lost"}) \/ \E n \in 1..Len(events) : events[n].kind \in {"lost"}
  BY AllTold
<1>2. ~Has({"lost"})'
  BY DEF Followed
<1>3. \A n \in 1..Len(events) : events[n].kind \in {"lost"} <=> events[n].kind = "lost"
  OBVIOUS
<1> QED BY <1>1, <1>2, <1>3, NoneIsNoTurn DEF Followed

(* A step that moves none of the turn's items.                              *)
LEMMA WholeKept ==
  ASSUME TypeInv, NEW t \in Turns, Whole(t),
         Said(t, history') \o ItemsIn(inbox') = Said(t, history) \o ItemsIn(inbox),
         ItemsIn(queue'[t]) = ItemsIn(queue[t]), Waits(t)' <=> Waits(t), emitted'[t] = emitted[t],
         where'[t] = where[t], \A s \in Turns : Of(t, stored'[s]) = Of(t, stored[s]),
         phase'[t] = "start" <=> phase[t] = "start", phase[t] = "done" => phase'[t] = "done",
         phase'[t] \in Working => actor'[t],
         Stopped(t)' => Stopped(t) \/ t \in stopped', stopped \subseteq stopped',
         Has({"interrupted"})' => Has({"interrupted"}) \/ t \in stopped',
         phase'[t] \in {"ending", "flushing", "flushed"} /\ outcome'[t] = "interrupted" => t \in stopped'
  PROVE  Whole(t)'
<1>1. WrittenSoFar(t)'
  <2>1. Unwritten(t) => Unwritten(t)'
    BY DEF Unwritten, Untouched
  <2>2. Written(t) => Written(t)'
    <3>1. where[t] # None => where[t] \in Turns
      BY DEF TypeInv
    <3> QED BY <3>1 DEF Written
  <2>3. WrittenSoFar(t)
    BY DEF Whole
  <2> QED BY <2>1, <2>2, <2>3 DEF WrittenSoFar
<1>2. Said(t, history') \o ItemsIn(inbox') \o ItemsIn(queue'[t]) = emitted'[t]
  BY DEF Whole
<1> QED BY <1>1, <1>2 DEF Whole

(* It may tell events that carry no item.                                   *)
LEMMA WholeTold ==
  ASSUME TypeInv, NEW t \in Turns, Whole(t), NEW events \in Seq(Event), inbox' = inbox \o events,
         ItemsIn(events) = <<>>, history' = history, stopped' = stopped, stored' = stored,
         ItemsIn(queue'[t]) = ItemsIn(queue[t]), Waits(t)' <=> Waits(t), emitted'[t] = emitted[t],
         where'[t] = where[t],
         phase'[t] = "start" <=> phase[t] = "start", phase[t] = "done" => phase'[t] = "done",
         phase'[t] \in Working => actor'[t], Stopped(t)' => Stopped(t),
         (\E n \in 1..Len(events) : events[n].kind = "interrupted") => t \in stopped,
         phase'[t] \in {"ending", "flushing", "flushed"} /\ outcome'[t] = "interrupted" => t \in stopped
  PROVE  Whole(t)'
<1>1. ItemsIn(inbox') = ItemsIn(inbox)
  <2>1. ItemsIn(inbox') = ItemsIn(inbox) \o ItemsIn(events)
    BY AllTold
  <2>2. ItemsIn(inbox) \in Seq(Items)
    BY SaidType
  <2> QED BY <2>1, <2>2, ConcatAssoc
<1>2. Has({"interrupted"})' => Has({"interrupted"}) \/ t \in stopped'
  <2>1. Has({"interrupted"})' <=>
          Has({"interrupted"}) \/ \E n \in 1..Len(events) : events[n].kind \in {"interrupted"}
    BY AllTold
  <2> QED BY <2>1
<1>3. Said(t, history') \o ItemsIn(inbox') = Said(t, history) \o ItemsIn(inbox)
  BY <1>1
<1>4. \A s \in Turns : Of(t, stored'[s]) = Of(t, stored[s])
  OBVIOUS
<1> QED BY <1>2, <1>3, <1>4, WholeKept

(* Telling something without items leaves the turn whole.                   *)
LEMMA WholeTells ==
  ASSUME TypeInv, NEW t \in Turns, Whole(t), active = t,
         NEW k \in Terminal \cup {"progress", "question"}, inbox' = Sent(t, <<Plain(k)>>),
         history' = history, stopped' = stopped, stored' = stored,
         ItemsIn(queue'[t]) = ItemsIn(queue[t]), Waits(t)' <=> Waits(t), emitted'[t] = emitted[t],
         where'[t] = where[t],
         phase'[t] = "start" <=> phase[t] = "start", phase[t] = "done" => phase'[t] = "done",
         phase'[t] \in Working => actor'[t], Stopped(t)' => Stopped(t),
         k = "interrupted" => t \in stopped,
         phase'[t] \in {"ending", "flushing", "flushed"} /\ outcome'[t] = "interrupted" => t \in stopped
  PROVE  Whole(t)'
<1> DEFINE events == <<Plain(k)>>
<1>1. Plain(k) \in Event /\ Plain(k).kind = k /\ k # "item"
  BY DeltaType DEF Terminal
<1>2. events \in Seq(Event) /\ \A n \in 1..Len(events) : events[n] = Plain(k)
  BY <1>1, Singleton
<1>3. ItemsIn(events) = <<>>
  BY <1>1, ItemsInOne
<1>4. inbox' = inbox \o events
  BY DEF Sent
<1> HIDE DEF events
<1>5. (\E n \in 1..Len(events) : events[n].kind = "interrupted") => t \in stopped
  BY <1>1, <1>2
<1> QED BY <1>2, <1>3, <1>4, <1>5, WholeTold

(* A step that tells nothing and moves no item leaves the turn whole.       *)
LEMMA WholeUntold ==
  ASSUME TypeInv, NEW t \in Turns, Whole(t), inbox' = inbox,
         history' = history, stopped' = stopped, stored' = stored,
         ItemsIn(queue'[t]) = ItemsIn(queue[t]), Waits(t)' <=> Waits(t), emitted'[t] = emitted[t],
         where'[t] = where[t],
         phase'[t] = "start" <=> phase[t] = "start", phase[t] = "done" => phase'[t] = "done",
         phase'[t] \in Working => actor'[t], Stopped(t)' => Stopped(t),
         phase'[t] \in {"ending", "flushing", "flushed"} /\ outcome'[t] = "interrupted" => t \in stopped
  PROVE  Whole(t)'
<1>1. Has({"interrupted"})' => Has({"interrupted"}) \/ t \in stopped'
  BY DEF Has
<1>2. Said(t, history') \o ItemsIn(inbox') = Said(t, history) \o ItemsIn(inbox)
  OBVIOUS
<1>3. \A s \in Turns : Of(t, stored'[s]) = Of(t, stored[s])
  OBVIOUS
<1> QED BY <1>1, <1>2, <1>3, WholeKept

(* A request to stop loses nothing.                                         *)
LEMMA CompleteWhenInterrupted ==
  ASSUME TypeInv, Interrupt, Complete
  PROVE  Complete'
<1>1. /\ active \in Turns /\ cancelled' = [cancelled EXCEPT ![active] = TRUE]
      /\ stopped' = stopped \cup {active}
      /\ UNCHANGED <<active, inbox, history, phase, outcome, emitted, attemptCancelled, queue, actor,
                     where, stored>>
  BY InterruptShape
<1>2. SUFFICES ASSUME Followed' PROVE Whole(active)'
  BY DEF Complete
<1>3. Followed
  BY <1>1, <1>2 DEF Followed, Has
<1>0. PICK t \in Turns : t = active
  BY <1>1
<1>4. t \in Turns /\ Whole(t) /\ t \in stopped' /\ stopped \subseteq stopped' /\ active' = t
  BY <1>0, <1>1, <1>3 DEF Complete
<1>5. /\ Said(t, history') \o ItemsIn(inbox') = Said(t, history) \o ItemsIn(inbox)
      /\ ItemsIn(queue'[t]) = ItemsIn(queue[t]) /\ emitted'[t] = emitted[t] /\ where'[t] = where[t]
      /\ \A s \in Turns : Of(t, stored'[s]) = Of(t, stored[s])
      /\ phase'[t] = phase[t] /\ actor'[t] = actor[t]
  BY <1>1
<1>6. Waits(t)' <=> Waits(t)
  BY <1>1 DEF Waits
<1>7. phase[t] \in Working => actor[t]
  BY <1>4 DEF Whole
<1>8. Whole(t)'
  BY <1>4, <1>5, <1>6, <1>7, WholeKept
<1> QED BY <1>4, <1>8

(* What is read is the turn's, and none of it is its message.               *)
LEMMA OwnItems ==
  ASSUME TypeInv, NEW t \in Turns, active = t, Screen, Produced(t), Whole(t),
         NEW rest \in Seq(Items), ItemsIn(inbox) = NewItems \o rest
  PROVE  NewItems \in Seq(Items) /\ Said(t, NewItems) = NewItems
<1> DEFINE said == Said(t, history)  waiting == ItemsIn(inbox)  lined == ItemsIn(queue[t])
<1>1. NewItems \in Seq(Items) /\ \A k \in 1..Len(NewItems) : NewItems[k].turn = t
  <2>1. NewItems \in Seq(Items)
    BY TypeFetches DEF Fetches
  <2> QED BY <2>1, NewItemsAreStored
<1>2. said \in Seq(Items) /\ waiting \in Seq(Items) /\ lined \in Seq(Items) /\ emitted[t] \in Seq(Items)
  BY SaidType
<1>3. waiting = NewItems \o rest
  OBVIOUS
<1>4. (said \o waiting) \o lined = emitted[t]
  BY DEF Whole
<1> HIDE DEF said, waiting, lined
<1>5. \A i : In(i, NewItems) => In(i, emitted[t])
  <2>1. \A i : In(i, NewItems) => In(i, waiting)
    BY <1>1, <1>3, InConcat
  <2>2. said \o waiting \in Seq(Items)
    BY <1>2
  <2>3. \A i : In(i, waiting) => In(i, said \o waiting)
    BY <1>2, InConcat
  <2>4. \A i : In(i, said \o waiting) => In(i, (said \o waiting) \o lined)
    BY <1>2, <2>2, InConcat
  <2> QED BY <2>1, <2>3, <2>4, <1>4
<1>6. \A k \in 1..Len(NewItems) : NewItems[k].kind # "user"
  <2>1. ASSUME NEW k \in 1..Len(NewItems) PROVE NewItems[k].kind # "user"
    <3>1. In(NewItems[k], NewItems)
      BY DEF In
    <3>2. In(NewItems[k], emitted[t])
      BY <3>1, <1>5
    <3> QED BY <3>2 DEF In, Produced
  <2> QED BY <2>1
<1> QED BY <1>1, <1>6, OfOwn

(* What is said of a turn grows by what is read of it.                      *)
LEMMA SaidGrows ==
  ASSUME TypeInv, Screen, Reads \/ Closes, NEW t \in Turns
  PROVE  Said(t, history') = Said(t, history) \o Said(t, NewItems)
<1> DEFINE old == history  asked == IF Commits THEN <<User(pending)>> ELSE <<>>
<1>1. NewItems \in Seq(Items)
  BY TypeFetches DEF Fetches
<1>2. old \in Seq(Items)
  BY DEF TypeInv
<1>3. CASE Reads
  <2>1. asked \in Seq(Items) /\ Said(t, asked) = <<>>
    <3>0. active \in Turns
      BY <1>3, ReadsShape
    <3>1. Commits => pending \in Turns
      BY <3>0 DEF Commits, Screen
    <3>2. CASE Commits
      <4>1. User(pending) \in Items /\ Said(t, <<User(pending)>>) = <<>>
        BY <3>1, <3>2, UserType, OfUser
      <4> QED BY <4>1, <3>2
    <3>3. CASE ~Commits
      BY <3>3, OfSelects
    <3> QED BY <3>2, <3>3
  <2>2. history' = (old \o asked) \o NewItems
    <3>1. Reconcile
      BY <1>3, ReadsShape
    <3> QED BY <3>1 DEF Reconcile, CommitPendingUser
  <2>3. Said(t, old) \in Seq(Items)
    BY <1>2, OfSelects
  <2> HIDE DEF old, asked
  <2>4. old \o asked \in Seq(Items)
    BY <1>2, <2>1
  <2>5. Said(t, old \o asked) = Said(t, old)
    <3>1. Said(t, old \o asked) = Said(t, old) \o Said(t, asked)
      BY <1>2, <2>1, OfSelects
    <3> QED BY <2>1, <2>3, <3>1, ConcatAssoc
  <2>6. Said(t, (old \o asked) \o NewItems) = Said(t, old \o asked) \o Said(t, NewItems)
    BY <1>1, <2>4, OfSelects
  <2> QED BY <2>2, <2>5, <2>6 DEF old
<1>4. CASE Closes
  <2>1. history' = old \o NewItems
    BY <1>4, ClosesShape
  <2> HIDE DEF old
  <2>2. Said(t, old \o NewItems) = Said(t, old) \o Said(t, NewItems)
    BY <1>1, <1>2, OfSelects
  <2> QED BY <2>1, <2>2 DEF old
<1> QED BY <1>3, <1>4

(* What a drain adds to the history is the turn's own.                      *)
LEMMA ReadsOwnItems ==
  ASSUME TypeInv, NEW t \in Turns, active = t, Reads, Screen, Produced(t), Whole(t)
  PROVE  Said(t, history') = Said(t, history) \o NewItems
<1> DEFINE rest == ItemsIn(inbox')
<1>1. inbox' \in Seq(Event) /\ ItemsIn(inbox) = NewItems \o rest
  BY ReadsShape
<1>2. rest \in Seq(Items)
  BY <1>1, ItemsInType
<1> HIDE DEF rest
<1>3. Said(t, NewItems) = NewItems
  BY <1>1, <1>2, OwnItems
<1> QED BY <1>3, SaidGrows

(* A drain moves items to the history and loses none.                       *)
LEMMA CompleteWhenRead ==
  ASSUME TypeInv, Reads, Screen, \A t \in Turns : Produced(t), Complete
  PROVE  Complete'
<1> DEFINE d == Len(inbox) - Len(inbox')
<1>1. /\ active \in Turns
      /\ inbox' \in Seq(Event) /\ d \in Nat
      /\ \A i \in 1..Len(inbox') : i + d \in 1..Len(inbox) /\ inbox'[i] = inbox[i + d]
      /\ \A i \in 1..Len(inbox) : i <= d => inbox[i].kind \notin Terminal
      /\ \A i \in 1..Len(inbox) : i > d => i - d \in 1..Len(inbox') /\ inbox'[i - d] = inbox[i]
      /\ ItemsIn(inbox) = NewItems \o ItemsIn(inbox')
      /\ UNCHANGED <<active, phase, outcome, emitted, cancelled, attemptCancelled, queue, actor,
                     where, stored, stopped>>
  BY ReadsShape
<1>2. SUFFICES ASSUME Followed' PROVE Whole(active)'
  BY DEF Complete
<1> HIDE DEF d
<1>3. \A kinds : Has(kinds)' => Has(kinds)
  BY <1>1 DEF Has
<1>4. \A kinds \in SUBSET Terminal : Has(kinds) => Has(kinds)'
  <2>1. ASSUME NEW kinds \in SUBSET Terminal, Has(kinds) PROVE Has(kinds)'
    <3>1. PICK i \in 1..Len(inbox) : inbox[i].kind \in kinds
      BY <2>1 DEF Has
    <3>2. i \in Nat /\ i > d
      BY <1>1, <3>1
    <3>3. i - d \in 1..Len(inbox') /\ inbox'[i - d].kind \in kinds
      BY <1>1, <3>1, <3>2
    <3> QED BY <3>3 DEF Has
  <2> QED BY <2>1
<1>5. {"lost"} \in SUBSET Terminal
  BY DEF Terminal
<1>6. ~Has({"lost"})' /\ active' = active /\ active # None /\ (phase[active] = "done" => Has(Terminal)')
  BY <1>1, <1>2 DEF Followed
<1>7. Followed
  BY <1>3, <1>4, <1>5, <1>6 DEF Followed
<1>0. PICK t \in Turns : t = active
  BY <1>1
<1>8. t \in Turns /\ active = t /\ Whole(t)
  BY <1>0, <1>1, <1>7 DEF Complete
<1>9. /\ ItemsIn(queue'[t]) = ItemsIn(queue[t]) /\ emitted'[t] = emitted[t] /\ where'[t] = where[t]
      /\ \A s \in Turns : Of(t, stored'[s]) = Of(t, stored[s])
      /\ phase'[t] = phase[t] /\ actor'[t] = actor[t] /\ outcome'[t] = outcome[t] /\ stopped' = stopped
  BY <1>1
<1>10. (Waits(t)' <=> Waits(t)) /\ (Stopped(t)' <=> Stopped(t))
  BY <1>1 DEF Waits, Stopped
<1>11. phase[t] \in Working => actor[t]
  BY <1>8 DEF Whole
<1>12. active' = t
  BY <1>0, <1>1
<1>13. Said(t, history') \o ItemsIn(inbox') = Said(t, history) \o ItemsIn(inbox)
  <2>1. Said(t, history') = Said(t, history) \o NewItems
    BY <1>8, ReadsOwnItems
  <2>2. Said(t, history) \in Seq(Items)
    BY <1>8, SaidType
  <2>3. ItemsIn(inbox') \in Seq(Items)
    BY <1>1, ItemsInType
  <2>4. NewItems \in Seq(Items)
    BY TypeFetches DEF Fetches
  <2> HIDE DEF Said, NewItems, ItemsIn
  <2>5. (Said(t, history) \o NewItems) \o ItemsIn(inbox') = Said(t, history) \o (NewItems \o ItemsIn(inbox'))
    BY <2>2, <2>3, <2>4, ConcatAssoc
  <2> QED BY <2>1, <2>5, <1>1
<1>14. phase[t] \in {"ending", "flushing", "flushed"} /\ outcome[t] = "interrupted" => t \in stopped
  BY <1>8 DEF Whole
<1>15. Has({"interrupted"})' => Has({"interrupted"})
  BY <1>3
<1>16. Whole(t)'
  BY <1>8, <1>9, <1>10, <1>11, <1>13, <1>14, <1>15, WholeKept
<1> QED BY <1>12, <1>16

(* The UI's steps lose nothing of the turn they show.                       *)
LEMMA CompleteInUi ==
  ASSUME TypeInv, UiStep, Screen, \A t \in Turns : Produced(t), Complete
  PROVE  Complete'
<1>1. CASE Interrupt
  BY <1>1, CompleteWhenInterrupted
<1>2. CASE Reads
  BY <1>2, CompleteWhenRead
<1>3. CASE Reset
  <2>1. active' = None
    BY <1>3, ResetShape
  <2> QED BY <2>1 DEF Complete, Followed
<1>4. CASE Closes
  <2>1. active' = None
    BY <1>4, ClosesShape
  <2> QED BY <2>1 DEF Complete, Followed
<1> QED BY <1>1, <1>2, <1>3, <1>4 DEF UiStep

(* A file that gets one more item.                                          *)
LEMMA OfAppend ==
  ASSUME NEW t \in Turns, NEW file \in Seq(Items), NEW i \in Items
  PROVE  Of(t, Append(file, i)) = IF i.turn = t THEN Append(Of(t, file), i) ELSE Of(t, file)
<1> DEFINE one == <<i>>  kept == Of(t, file)
<1>1. one \in Seq(Items) /\ Of(t, one) = IF i.turn = t THEN <<i>> ELSE <<>>
  BY Singleton, OneOf
<1>2. kept \in Seq(Items)
  BY OfSelects
<1>3. Append(file, i) = file \o <<i>> /\ Append(kept, i) = kept \o <<i>>
  BY <1>2, AppendIsConcat
<1> HIDE DEF one
<1>4. Of(t, file \o one) = kept \o Of(t, one)
  BY <1>1, OfSelects
<1> HIDE DEF kept
<1>5. kept \o <<>> = kept
  BY <1>2, ConcatAssoc
<1> QED BY <1>1, <1>3, <1>4, <1>5 DEF one, kept

(* A turn's step files nothing for another turn.                            *)
LEMMA FilesOf ==
  ASSUME TypeInv, NEW t \in Turns, Files(t), NEW u \in Turns \ {t}
  PROVE  \A s \in Turns : Of(u, stored'[s]) = Of(u, stored[s])
<1>1. CASE UNCHANGED <<where, stored>>
  BY <1>1
<1>2. ASSUME NEW i \in Items, NEW s \in Turns,
             stored' = [stored EXCEPT ![s] = Append(@, i)], i.turn = t
      PROVE  \A r \in Turns : Of(u, stored'[r]) = Of(u, stored[r])
  <2>1. stored[s] \in Seq(Items) /\ stored'[s] = Append(stored[s], i)
        /\ \A r \in Turns \ {s} : stored'[r] = stored[r]
    BY <1>2 DEF TypeInv
  <2> DEFINE file == stored[s]
  <2>2. file \in Seq(Items)
    BY <2>1
  <2> HIDE DEF file
  <2>3. Of(u, Append(file, i)) = Of(u, file)
    BY <2>2, <1>2, OfAppend
  <2>4. Of(u, stored'[s]) = Of(u, stored[s])
    BY <2>1, <2>3 DEF file
  <2>5. ASSUME NEW r \in Turns PROVE Of(u, stored'[r]) = Of(u, stored[r])
    BY <2>1, <2>4
  <2> QED BY <2>5
<1> QED BY <1>1, <1>2 DEF Files

(* The step of a turn that left the screen loses nothing of the one shown.  *)
LEMMA CompleteOfAnother ==
  ASSUME TypeInv, NEW t \in Turns, Thread(t), Lined(t), Produced(t), TurnStep(t), ~Submit(t),
         active # t, Complete
  PROVE  Complete'
<1>1. active' = active /\ history' = history /\ stopped' = stopped /\ inbox' = inbox
  BY StepsFrame, StepsSend
<1>2. SUFFICES ASSUME Followed' PROVE Whole(active)'
  BY DEF Complete
<1>3. active \in Turns
  BY <1>1, <1>2 DEF Followed, TypeInv
<1>4. PICK u \in Turns \ {t} : u = active
  BY <1>3
<1>5. /\ phase'[u] = phase[u] /\ cancelled'[u] = cancelled[u]
      /\ attemptCancelled'[u] = attemptCancelled[u]
      /\ outcome'[u] = outcome[u] /\ queue'[u] = queue[u] /\ actor'[u] = actor[u]
      /\ where'[u] = where[u] /\ emitted'[u] = emitted[u]
  BY StepsAlone DEF Alone
<1>6. Followed
  BY <1>1, <1>2, <1>4, <1>5 DEF Followed, Has
<1>7. Whole(u)
  BY <1>4, <1>6 DEF Complete
<1>8. \A s \in Turns : Of(u, stored'[s]) = Of(u, stored[s])
  <2>1. Files(t) \/ stored' = stored
    BY StepsFile
  <2> QED BY <2>1, FilesOf
<1>9. /\ Said(u, history') \o ItemsIn(inbox') = Said(u, history) \o ItemsIn(inbox)
      /\ ItemsIn(queue'[u]) = ItemsIn(queue[u])
  BY <1>1, <1>5
<1>10. (Waits(u)' <=> Waits(u)) /\ (Stopped(u)' <=> Stopped(u)) /\ (Has({"interrupted"})' <=> Has({"interrupted"}))
  BY <1>1, <1>5 DEF Waits, Stopped, Has
<1>11. /\ phase[u] \in Working => actor[u]
       /\ phase[u] \in {"ending", "flushing", "flushed"} /\ outcome[u] = "interrupted" => u \in stopped
  BY <1>7 DEF Whole
<1>12. Whole(u)'
  BY <1>1, <1>5, <1>7, <1>8, <1>9, <1>10, <1>11, WholeKept
<1> QED BY <1>1, <1>4, <1>12

(* A turn that was just submitted has left no trace yet.                    *)
LEMMA CompleteWhenSubmitted ==
  ASSUME TypeInv, NEW t \in Turns, Thread(t), Submit(t), \A s \in Turns : Filed(s), Remembered
  PROVE  Complete'
<1>1. /\ phase[t] = "unborn" /\ active' = t /\ inbox' = <<>> /\ phase'[t] = "start"
      /\ UNCHANGED <<history, emitted, tokens, queue, stored, stopped>>
  BY DEF Submit, TypeInv
<1>2. queue[t] = <<>> /\ emitted[t] = <<>> /\ ~cancelled[t] /\ ~attemptCancelled[t]
  BY <1>1 DEF Thread
<1>3. \A s \in Turns : Of(t, stored[s]) = <<>>
  <2>1. ASSUME NEW s \in Turns PROVE Of(t, stored[s]) = <<>>
    <3>1. stored[s] \in Seq(Items) /\ \A n \in 1..Len(stored[s]) : stored[s][n].turn # t
      BY <1>1 DEF Filed, TypeInv
    <3> DEFINE file == stored[s]
    <3>2. file \in Seq(Items) /\ \A n \in 1..Len(file) : file[n].turn # t
      BY <3>1
    <3> HIDE DEF file
    <3>3. Of(t, file) = <<>>
      BY <3>2, OfOthers
    <3> QED BY <3>3 DEF file
  <2> QED BY <2>1
<1>4. Said(t, history) = <<>>
  <2>1. history \in Seq(Items) /\ \A n \in 1..Len(history) : history[n].turn # t
    BY <1>1 DEF Remembered, TypeInv
  <2> QED BY <2>1, OfOthers
<1>5. ItemsIn(<<>>) = <<>> /\ <<>> \o <<>> = <<>>
  BY ItemsInNothing
<1>6. Said(t, history') \o ItemsIn(inbox') \o ItemsIn(queue'[t]) = emitted'[t]
  BY <1>1, <1>2, <1>4, <1>5
<1>7. WrittenSoFar(t)'
  BY <1>1, <1>2, <1>3, <1>5 DEF WrittenSoFar, Unwritten, Untouched
<1>8. ~Stopped(t)'
  BY <1>1, <1>2 DEF tokens, Stopped
<1>9. ~Has({"interrupted"})'
  BY <1>1 DEF Has
<1>10. Whole(t)'
  BY <1>1, <1>6, <1>7, <1>8, <1>9 DEF Whole, Working
<1> QED BY <1>1, <1>10 DEF Complete

(* A turn's own step.                                                       *)
LEMMA OwnStep ==
  ASSUME TypeInv, NEW t \in Turns, Thread(t), Lined(t), Produced(t), TurnStep(t), ~Answer(t),
         active = t, Complete, Followed'
  PROVE  /\ active' = t /\ history' = history /\ stopped' = stopped
         /\ Whole(t) /\ phase[t] # "done" /\ ~Has({"lost"})
         /\ inbox' # Sent(t, <<Plain("lost")>>)
<1>1. ~Submit(t)
  BY NoneIsNoTurn DEF Submit
<1>2. active' = t /\ history' = history /\ stopped' = stopped
  BY <1>1, StepsFrame
<1>3. PICK events \in Seq(Event) : Tells(t, events)
  BY WhatIsTold
<1>4. inbox' = inbox \o events /\ phase[t] # "done"
  BY <1>3 DEF Tells
<1>5. Followed
  BY <1>2, <1>4, FollowedBefore
<1>6. Whole(t) /\ ~Has({"lost"})
  BY <1>5 DEF Complete, Followed
<1>7. ASSUME inbox' = Sent(t, <<Plain("lost")>>) PROVE FALSE
  <2> DEFINE one == <<Plain("lost")>>
  <2>1. Plain("lost") \in Event /\ Plain("lost").kind = "lost"
    BY DeltaType DEF Terminal
  <2>2. one \in Seq(Event) /\ 1 \in 1..Len(one) /\ one[1].kind = "lost"
    BY <2>1, Singleton
  <2>3. inbox' = inbox \o one
    BY <1>7 DEF Sent
  <2> HIDE DEF one
  <2>4. Has({"lost"})' <=> Has({"lost"}) \/ \E n \in 1..Len(one) : one[n].kind \in {"lost"}
    BY <2>2, <2>3, AllTold
  <2>5. Has({"lost"})'
    BY <2>2, <2>4
  <2> QED BY <2>5 DEF Followed
<1> QED BY <1>2, <1>4, <1>6, <1>7

(* A command that moves no item.                                            *)
LEMMA LinedUp ==
  ASSUME NEW q \in Seq(Commands), NEW c \in Commands, c.kind \in {"replay", "flush"}
  PROVE  /\ ItemsIn(Append(q, c)) = ItemsIn(q)
         /\ (Append(q, c) # <<>> /\ Append(q, c)[1].kind = "turn") <=> (q # <<>> /\ q[1].kind = "turn")
<1> DEFINE one == <<c>>
<1>1. one \in Seq(Commands) /\ \A n \in 1..Len(one) : one[n] = c
  BY Singleton
<1>2. c \notin ItemDeltas
  BY CommandKinds
<1> HIDE DEF one
<1>3. ItemsIn(one) = <<>>
  BY <1>1, <1>2, ItemsInNone
<1>4. ItemsIn(q \o one) = ItemsIn(q) \o ItemsIn(one) /\ ItemsIn(q) \in Seq(Items)
  BY <1>1, ItemsInConcat, ItemsInType
<1>5. ItemsIn(q \o one) = ItemsIn(q)
  BY <1>3, <1>4, ConcatAssoc
<1>6. Append(q, c) = q \o one
  BY AppendIsConcat DEF one
<1>7. CASE q = <<>>
  <2>1. Append(q, c) = <<c>>
    BY <1>7
  <2> QED BY <1>5, <1>6, <1>7, <2>1
<1>8. CASE q # <<>>
  <2>1. 1 \in 1..Len(q) /\ Append(q, c) # <<>>
    BY <1>8
  <2>2. Append(q, c)[1] = q[1]
    BY <2>1, AppendFacts
  <2> QED BY <1>5, <1>6, <1>8, <2>1, <2>2
<1> QED BY <1>7, <1>8

(* Steps of the worker that produce nothing lose nothing.                   *)
LEMMA WholeWhenItSpeaks ==
  ASSUME TypeInv, NEW t \in Turns, Thread(t), active = t, Whole(t), history' = history, stopped' = stopped,
         Answer(t) \/ StreamDelta(t) \/ Ask(t) \/ ProviderFailsEarly(t) \/ NextAttempt(t)
         \/ RetryCancelled(t)
  PROVE  Whole(t)'
<1>t. phase \in [Turns -> Phases] /\ outcome \in [Turns -> Terminal \cup {"none"}]
      /\ attemptCancelled \in [Turns -> BOOLEAN]
  BY DEF TypeInv
<1>w. /\ phase[t] \in Working => actor[t]
      /\ Stopped(t) => t \in stopped
      /\ phase[t] \in {"ending", "flushing", "flushed"} /\ outcome[t] = "interrupted" => t \in stopped
  BY DEF Whole
<1>1. CASE Answer(t)
  <2>1. UNCHANGED <<inbox, stored, queue, emitted, where, phase, actor, outcome, tokens>>
    BY <1>1 DEF Answer, workerVars, actorVars
  <2>2. (Waits(t)' <=> Waits(t)) /\ (Stopped(t)' <=> Stopped(t))
    BY <2>1 DEF Waits, Stopped, tokens
  <2> QED BY <2>1, <2>2, <1>w, WholeUntold
<1>2. CASE StreamDelta(t) \/ Ask(t)
  <2>1. /\ UNCHANGED <<stored, queue, emitted, where, phase, actor, outcome, tokens>>
        /\ phase[t] = "attempt"
        /\ \E k \in {"progress", "question"} : inbox' = Sent(t, <<Plain(k)>>)
    BY <1>2 DEF StreamDelta, Streaming, Ask, Send, workerVars, actorVars
  <2>2. (Waits(t)' <=> Waits(t)) /\ (Stopped(t)' <=> Stopped(t))
    BY <2>1 DEF Waits, Stopped, tokens
  <2> QED BY <2>1, <2>2, <1>w, WholeTells
<1>3. CASE ProviderFailsEarly(t)
  <2>1. /\ UNCHANGED <<stored, queue, emitted, where, actor, outcome, tokens>>
        /\ phase[t] = "attempt" /\ phase'[t] = "retry" /\ inbox' = Sent(t, <<Plain("progress")>>)
    BY <1>3, <1>t DEF ProviderFailsEarly, Streaming, Send, actorVars
  <2>2. (Waits(t)' <=> Waits(t)) /\ (Stopped(t)' <=> Stopped(t))
    BY <2>1 DEF Waits, Stopped, tokens
  <2>3. actor'[t]
    BY <2>1, <1>w DEF Working
  <2> QED BY <2>1, <2>2, <2>3, <1>w, WholeTells
<1>4. CASE NextAttempt(t)
  <2>1. /\ UNCHANGED <<inbox, stored, queue, emitted, where, actor, outcome, cancelled>>
        /\ phase[t] = "retry" /\ phase'[t] = "attempt" /\ attemptCancelled'[t] = FALSE
    BY <1>4, <1>t DEF NextAttempt, actorVars
  <2>2. (Waits(t)' <=> Waits(t)) /\ (Stopped(t)' => Stopped(t))
    BY <2>1 DEF Waits, Stopped
  <2>3. actor'[t]
    BY <2>1, <1>w DEF Working
  <2> QED BY <2>1, <2>2, <2>3, <1>w, WholeUntold
<1>5. CASE RetryCancelled(t)
  <2>1. /\ UNCHANGED <<inbox, stored, queue, emitted, where, actor, tokens>>
        /\ phase[t] = "retry" /\ phase'[t] = "ending" /\ cancelled[t]
    BY <1>5, <1>t DEF RetryCancelled, actorVars
  <2>2. (Waits(t)' <=> Waits(t)) /\ (Stopped(t)' <=> Stopped(t)) /\ Stopped(t)
    BY <2>1 DEF Waits, Stopped, tokens
  <2>3. actor'[t] /\ t \in stopped
    BY <2>1, <2>2, <1>w DEF Working
  <2> QED BY <2>1, <2>2, <2>3, WholeUntold
<1> QED BY <1>1, <1>2, <1>3, <1>4, <1>5

(* The flush and the verdict lose nothing.                                  *)
LEMMA WholeWhenItEnds ==
  ASSUME TypeInv, NEW t \in Turns, Lined(t), active = t, Whole(t), history' = history,
         stopped' = stopped, ~(inbox' = Sent(t, <<Plain("lost")>>)),
         SendFlush(t) \/ (SendVerdict(t) /\ Thread(t))
  PROVE  Whole(t)'
<1>t. phase \in [Turns -> Phases] /\ outcome \in [Turns -> Terminal \cup {"none"}]
      /\ queue \in [Turns -> Seq(Commands)]
  BY DEF TypeInv
<1>w. /\ phase[t] \in Working => actor[t]
      /\ Stopped(t) => t \in stopped
      /\ phase[t] \in {"ending", "flushing", "flushed"} /\ outcome[t] = "interrupted" => t \in stopped
  BY DEF Whole
<1>1. CASE SendFlush(t)
  <2>1. phase[t] = "ending" /\ UNCHANGED <<inbox, stored, emitted, where, actor, tokens>>
    BY <1>1 DEF SendFlush, actorVars
  <2>2. actor[t]
    BY <2>1, <1>w DEF Working
  <2>3. queue' = [queue EXCEPT ![t] = Append(@, Plain("flush"))] /\ outcome' = outcome
        /\ phase'[t] = "flushing"
    BY <1>1, <1>t, <2>2 DEF SendFlush
  <2> DEFINE q == queue[t]
  <2>4. q \in Seq(Commands) /\ queue'[t] = Append(q, Plain("flush"))
    BY <2>3, <1>t
  <2>5. Plain("flush") \in Commands /\ Plain("flush").kind = "flush"
    BY DeltaType
  <2> HIDE DEF q
  <2>6. /\ ItemsIn(Append(q, Plain("flush"))) = ItemsIn(q)
        /\ (Append(q, Plain("flush")) # <<>> /\ Append(q, Plain("flush"))[1].kind = "turn")
             <=> (q # <<>> /\ q[1].kind = "turn")
    BY <2>4, <2>5, LinedUp
  <2>7. ItemsIn(queue'[t]) = ItemsIn(queue[t]) /\ (Waits(t)' <=> Waits(t))
    BY <2>4, <2>6 DEF q, Waits
  <2>8. Stopped(t)' <=> Stopped(t)
    BY <2>1 DEF Stopped, tokens
  <2> QED BY <2>1, <2>2, <2>3, <2>7, <2>8, <1>w, WholeUntold
<1>2. CASE SendVerdict(t) /\ Thread(t)
  <2>1. /\ phase[t] = "flushed" /\ phase'[t] = "done" /\ inbox' = Sent(t, <<Plain(outcome[t])>>)
        /\ UNCHANGED <<stored, emitted, where, tokens, queue, outcome>>
    BY <1>2, <1>t DEF SendVerdict, Send, actorVars
  <2>2. outcome[t] \in Terminal
    BY <1>2, <2>1 DEF Thread
  <2>3. (Waits(t)' <=> Waits(t)) /\ (Stopped(t)' <=> Stopped(t))
    BY <2>1 DEF Waits, Stopped, tokens
  <2>4. phase'[t] \notin Working
    BY <2>1 DEF Working
  <2> DEFINE k == outcome[t]
  <2>5. k \in Terminal /\ inbox' = Sent(t, <<Plain(k)>>) /\ (k = "interrupted" => t \in stopped)
    BY <2>1, <2>2, <1>w
  <2> HIDE DEF k
  <2> QED BY <2>1, <2>3, <2>4, <2>5, WholeTells
<1> QED BY <1>1, <1>2

(* A worker that starts lines its message up before all it produces.        *)
LEMMA WholeWhenItStarts ==
  ASSUME TypeInv, NEW t \in Turns, Thread(t), active = t, Whole(t), history' = history,
         stopped' = stopped, WorkerStarts(t)
  PROVE  Whole(t)'
<1>t. phase \in [Turns -> Phases] /\ queue \in [Turns -> Seq(Commands)]
  BY DEF TypeInv
<1>1. /\ phase[t] = "start" /\ queue[t] = <<>> /\ emitted[t] = <<>> /\ actor[t]
      /\ UNCHANGED <<stored, emitted, where, actor, tokens, outcome>>
  BY DEF WorkerStarts, Thread, actorVars
<1>2. Said(t, history) \o ItemsIn(inbox) \o ItemsIn(queue[t]) = emitted[t]
      /\ (Stopped(t) => t \in stopped) /\ (Has({"interrupted"}) => t \in stopped)
  BY DEF Whole
<1>3. Untouched(t)
  BY <1>1 DEF Whole, WrittenSoFar, Unwritten
<1>4. Stopped(t)' <=> Stopped(t)
  BY <1>1 DEF Stopped, tokens
<1>5. CASE cancelled[t]
  <2>1. phase'[t] = "done" /\ inbox' = Sent(t, <<Plain("interrupted")>>) /\ queue' = queue
    BY <1>5, <1>t DEF WorkerStarts, Send
  <2>2. t \in stopped
    BY <1>2, <1>5 DEF Stopped
  <2> DEFINE one == <<Plain("interrupted")>>
  <2>3. Plain("interrupted") \in Event
    BY DeltaType DEF Terminal
  <2>4. one \in Seq(Event) /\ ItemsIn(one) = <<>>
    BY <2>3, Singleton, ItemsInOne
  <2>5. inbox' = inbox \o one
    BY <2>1 DEF Sent
  <2> HIDE DEF one
  <2>6. ItemsIn(inbox') = ItemsIn(inbox) \o ItemsIn(one)
    BY <2>4, <2>5, AllTold
  <2>7. ItemsIn(inbox') = ItemsIn(inbox)
    BY <2>4, <2>6, SaidType, ConcatAssoc
  <2>8. ~Waits(t)'
    BY <1>1, <2>1 DEF Waits
  <2>9. WrittenSoFar(t)'
    BY <1>1, <2>1, <2>8 DEF WrittenSoFar
  <2>10. Said(t, history') \o ItemsIn(inbox') \o ItemsIn(queue'[t]) = emitted'[t]
    BY <1>1, <1>2, <2>1, <2>7
  <2> QED BY <2>1, <2>2, <2>9, <2>10 DEF Whole, Working
<1>6. CASE ~cancelled[t]
  <2>1. /\ phase'[t] = "attempt" /\ inbox' = inbox
        /\ queue' = [queue EXCEPT ![t] = Append(@, Plain("turn"))]
    BY <1>6, <1>t DEF WorkerStarts
  <2>2. queue'[t] = <<Plain("turn")>>
    BY <1>1, <1>t, <2>1
  <2>3. ItemsIn(<<Plain("turn")>>) = <<>> /\ Plain("turn").kind = "turn"
    BY ItemsInOne, DeltaType
  <2>4. Waits(t)' /\ ItemsIn(queue'[t]) = <<>>
    BY <2>2, <2>3 DEF Waits
  <2>5. ItemsIn(queue[t]) = <<>>
    BY <1>1, ItemsInNothing
  <2>6. Untouched(t)'
    BY <1>1, <1>3 DEF Untouched
  <2>7. WrittenSoFar(t)'
    BY <1>1, <2>4, <2>6 DEF WrittenSoFar, Unwritten
  <2>8. Said(t, history') \o ItemsIn(inbox') \o ItemsIn(queue'[t]) = emitted'[t]
    BY <1>1, <1>2, <2>1, <2>4, <2>5
  <2>9. ~Has({"interrupted"})' \/ t \in stopped
    BY <1>2, <2>1 DEF Has
  <2> QED BY <1>1, <1>2, <1>4, <2>1, <2>7, <2>8, <2>9 DEF Whole
<1> QED BY <1>5, <1>6

(* What was produced is in the queue, unless the loss was told.             *)
LEMMA WholeWhenItProduces ==
  ASSUME TypeInv, NEW t \in Turns, Lined(t), Produced(t), Produces(t), active = t, Whole(t),
         history' = history, stopped' = stopped, ~Has({"lost"})'
  PROVE  Whole(t)'
<1>1. PICK items, cmds, fits, events : Adds(t, items, cmds, fits, events) /\ Attempts(t, events)
  BY ProducesIsEmission DEF Emission
<1>2. events \in Seq(Quiet) /\ inbox' = inbox \o events
  BY <1>1 DEF Adds, Sent
<1>3. Quiet \subseteq Event /\ \A e \in Quiet : e.kind \in {"lost", "progress"}
  BY DEF Quiet, Event, Terminal
<1>4. events \in Seq(Event) /\ \A n \in 1..Len(events) : events[n] \in Event /\ events[n].kind \in {"lost", "progress"}
  <2>1. \A n \in 1..Len(events) : events[n] \in Quiet
    BY <1>2
  <2> QED BY <2>1, <1>2, <1>3
<1>5. ItemsIn(events) = <<>>
  <2>1. \A n \in 1..Len(events) : events[n] \notin ItemDeltas
    BY <1>4, EventKinds
  <2> QED BY <1>4, <2>1, ItemsInNone
<1>6. \A kinds : Has(kinds)' <=> Has(kinds) \/ \E n \in 1..Len(events) : events[n].kind \in kinds
  BY <1>2, <1>4, AllTold
<1>7. \A n \in 1..Len(events) : events[n].kind # "lost"
  BY <1>6
<1>8. Has({"interrupted"})' => Has({"interrupted"})
  BY <1>4, <1>6
<1>9. ItemsIn(inbox') = ItemsIn(inbox)
  <2>1. ItemsIn(inbox') = ItemsIn(inbox) \o ItemsIn(events)
    BY <1>2, <1>4, AllTold
  <2> QED BY <1>5, <2>1, SaidType, ConcatAssoc
<1> DEFINE q == queue[t]  more == emitted[t]
<1>10. /\ items \in Seq(Items) /\ emitted'[t] = more \o items
       /\ cmds \in Seq(Commands) /\ ItemsIn(cmds) = items
       /\ \A n \in 1..Len(cmds) : cmds[n].kind \in {"item", "replay"}
       /\ queue'[t] = q \o cmds /\ q \in Seq(Commands) /\ more \in Seq(Items)
  <2>1. /\ items \in Seq(Items) /\ emitted' = [emitted EXCEPT ![t] = @ \o items]
        /\ cmds \in Seq(Commands) /\ ItemsIn(cmds) = items
        /\ \A n \in 1..Len(cmds) : cmds[n].kind \in {"item", "replay"}
        /\ queue' = [queue EXCEPT ![t] = @ \o SubSeq(cmds, 1, fits)]
    BY <1>1 DEF Adds
  <2>2. fits \in 0..Len(cmds) /\ ~(fits < Len(cmds))
    BY <1>1, <1>7 DEF Adds
  <2>3. SubSeq(cmds, 1, fits) = cmds
    BY <2>1, <2>2
  <2> QED BY <2>1, <2>3 DEF TypeInv
<1>11. /\ UNCHANGED <<active, where, stored, actor, tokens>> /\ phase[t] = "attempt"
       /\ phase'[t] \in {"attempt", "ending"}
       /\ phase'[t] = "ending" /\ outcome'[t] = "interrupted" => Stopped(t)'
  <2>1. UNCHANGED tokens
    BY <1>1, <1>7 DEF Attempts
  <2> QED BY <1>1, <2>1 DEF Attempts, actorVars
<1>12. Stopped(t)' <=> Stopped(t)
  BY <1>11 DEF tokens, Stopped
<1>13. /\ Said(t, history) \o ItemsIn(inbox) \o ItemsIn(q) = more
       /\ (Stopped(t) => t \in stopped) /\ (Has({"interrupted"}) => t \in stopped)
       /\ actor[t] /\ WrittenSoFar(t)
  BY <1>11 DEF Whole, Working
<1> DEFINE said == Said(t, history) \o ItemsIn(inbox)  lined == ItemsIn(q)
<1>14. said \in Seq(Items) /\ lined \in Seq(Items)
  BY SaidType
<1>15. (q # <<>> /\ q[1].kind = "turn") <=> (q \o cmds # <<>> /\ (q \o cmds)[1].kind = "turn")
  <2> HIDE DEF q
  <2>1. CASE q # <<>>
    <3>1. 1 \in 1..Len(q)
      BY <2>1, <1>10
    <3>2. 1 \in 1..Len(q \o cmds) /\ (q \o cmds)[1] = q[1]
      <4>1. q \in Seq(Commands) /\ cmds \in Seq(Commands)
        BY <1>10
      <4> DEFINE both == q \o cmds
      <4>2. Joined(both, q, cmds)
        BY <4>1, ConcatFacts
      <4> HIDE DEF both
      <4>3. 1 \in 1..Len(both) /\ both[1] = q[1]
        BY <4>2, <3>1 DEF Joined
      <4> QED BY <4>3 DEF both
    <3>3. q \o cmds # <<>>
      BY <3>2
    <3> QED BY <2>1, <3>2, <3>3
  <2>2. CASE q = <<>>
    <3>1. q \o cmds = cmds
      BY <2>2, <1>10, ConcatAssoc
    <3>2. cmds # <<>> => 1 \in 1..Len(cmds)
      BY <1>10
    <3>3. cmds # <<>> => cmds[1].kind # "turn"
      BY <1>10, <3>2
    <3> QED BY <2>2, <3>1, <3>3
  <2> QED BY <2>1, <2>2
<1>16. Waits(t)' <=> Waits(t)
  BY <1>10, <1>15 DEF Waits
<1> HIDE DEF said
<1>17. ItemsIn(queue'[t]) = lined \o items
  <2> HIDE DEF q
  <2> QED BY <1>10, ItemsInConcat DEF lined
<1>18. (said \o lined) \o items = said \o (lined \o items) /\ said \o lined = more
  <2>1. said \o lined = more
    BY <1>13 DEF said
  <2> HIDE DEF lined, q, more
  <2>2. items \in Seq(Items)
    BY <1>10
  <2>3. (said \o lined) \o items = said \o (lined \o items)
    BY <1>14, <2>2, ConcatAssoc
  <2> QED BY <2>1, <2>3
<1>19. Unwritten(t) => Unwritten(t)'
  BY <1>10, <1>11, <1>17 DEF Unwritten, Untouched
<1>20. Written(t) => Written(t)'
  <2>1. SUFFICES ASSUME Written(t) PROVE Written(t)'
    OBVIOUS
  <2> DEFINE file == Of(t, stored[where[t]])  user == <<User(t)>>
  <2>2. where[t] \in Turns /\ file \o lined = user \o more
    BY <2>1 DEF Written, TypeInv
  <2>3. file \in Seq(Items)
    BY <2>2, SaidType
  <2>4. user \in Seq(Items)
    BY UserType, Singleton
  <2>5. Of(t, stored'[where'[t]]) = file
    BY <1>11
  <2> HIDE DEF file, user, lined, more
  <2>6. file \o (lined \o items) = user \o (more \o items)
    <3>1. lined \in Seq(Items) /\ items \in Seq(Items) /\ more \in Seq(Items)
      BY <1>10, <1>14
    <3>2. (file \o lined) \o items = file \o (lined \o items)
      BY <3>1, <2>3, ConcatGroups
    <3>3. (user \o more) \o items = user \o (more \o items)
      BY <3>1, <2>4, ConcatGroups
    <3>4. file \o lined = user \o more
      BY <2>2
    <3> QED BY <3>2, <3>3, <3>4
  <2>7. where'[t] # None
    BY <2>2, <1>11, NoneIsNoTurn
  <2> QED BY <2>5, <2>6, <2>7, <1>10, <1>17 DEF Written, user
<1>21. WrittenSoFar(t)'
  BY <1>11, <1>13, <1>16, <1>19, <1>20 DEF WrittenSoFar
<1>22. Said(t, history') \o ItemsIn(inbox') \o ItemsIn(queue'[t]) = emitted'[t]
  <2>1. Said(t, history') \o ItemsIn(inbox') = said
    BY <1>9 DEF said
  <2> QED BY <1>10, <1>17, <1>18, <2>1
<1> QED BY <1>8, <1>11, <1>12, <1>13, <1>21, <1>22 DEF Whole

(* Behind the first command none is a turn.                                 *)
LEMMA LinedTail ==
  ASSUME TypeInv, NEW t \in Turns, Lined(t), queue[t] # <<>>, queue'[t] = Tail(queue[t])
  PROVE  ~Waits(t)'
<1>1. \A k \in 1..(Len(queue[t]) - 1) : Tail(queue[t])[k] = queue[t][k + 1]
  BY FirstCommand
<1>2. Len(Tail(queue[t])) = Len(queue[t]) - 1 /\ Len(queue[t]) \in Nat \ {0}
      /\ Tail(queue[t]) \in Seq(Commands)
  BY FirstCommand
<1>3. ASSUME Waits(t)' PROVE FALSE
  <2> DEFINE tail == Tail(queue[t])
  <2>1. tail # <<>> /\ tail[1].kind = "turn"
    BY <1>3 DEF Waits
  <2>2. tail \in Seq(Commands)
    BY <1>2
  <2>7. Len(tail) = Len(queue[t]) - 1
    BY <1>2
  <2> HIDE DEF tail
  <2>3. Len(tail) \in Nat /\ Len(tail) # 0
    BY <2>1, <2>2
  <2> DEFINE n == Len(queue[t])
  <2>8. n \in Nat \ {0} /\ n - 1 # 0
    BY <1>2, <2>3, <2>7
  <2> HIDE DEF n
  <2>9. 1 \in 1..(n - 1) /\ 2 \in 1..n
    BY <2>8
  <2>4. 1 \in 1..(Len(queue[t]) - 1) /\ 2 \in 1..Len(queue[t]) /\ 2 = 1 + 1
    BY <2>9 DEF n
  <2>5. tail[1] = queue[t][2]
    BY <1>1, <2>4 DEF tail
  <2>6. queue[t][2].kind # "turn"
    BY <2>4 DEF Lined
  <2> QED BY <2>1, <2>5, <2>6
<1> QED BY <1>3

(* The message is filed first.                                              *)
LEMMA WholeWhenAsked ==
  ASSUME TypeInv, NEW t \in Turns, Thread(t), Lined(t), Whole(t), actor[t], queue[t] # <<>>,
         queue[t][1].kind = "turn", TakesTurn(t), queue'[t] = Tail(queue[t]),
         active = t, inbox' = Sent(t, <<TurnDelta(Home(t))>>), history' = history, stopped' = stopped,
         UNCHANGED <<phase, emitted, outcome, cancelled, attemptCancelled, actor>>
  PROVE  Whole(t)'
<1> DEFINE home == Home(t)  one == <<TurnDelta(home)>>
<1>1. home \in Turns /\ phase[t] \in {"attempt", "retry", "ending", "flushing"}
  BY CommandIsTaken
<1> HIDE DEF home
<1>2. TurnDelta(home) \in Event /\ TurnDelta(home).kind = "turn" /\ ItemsIn(one) = <<>>
  BY <1>1, DeltaType, ItemsInOne
<1>3. one \in Seq(Event) /\ \A n \in 1..Len(one) : one[n] = TurnDelta(home)
  BY <1>2, Singleton
<1>4. inbox' = inbox \o one
  BY DEF Sent, home
<1> HIDE DEF one
<1>5. ItemsIn(inbox') = ItemsIn(inbox)
  <2>1. ItemsIn(inbox') = ItemsIn(inbox) \o ItemsIn(one)
    BY <1>3, <1>4, AllTold
  <2> QED BY <1>2, <2>1, SaidType, ConcatAssoc
<1>6. Has({"interrupted"})' => Has({"interrupted"})
  <2>1. Has({"interrupted"})' <=> Has({"interrupted"}) \/ \E n \in 1..Len(one) : one[n].kind \in {"interrupted"}
    BY <1>3, <1>4, AllTold
  <2> QED BY <1>2, <1>3, <2>1
<1>7. ItemsIn(queue'[t]) = ItemsIn(queue[t])
  BY FirstCommand
<1>8. ~Waits(t)'
  BY LinedTail
<1>9. Unwritten(t)
  BY DEF Whole, WrittenSoFar, Waits
<1>10. where'[t] = home /\ stored'[home] = Append(stored[home], User(t))
  BY <1>1 DEF TakesTurn, TypeInv, home
<1>11. Of(t, stored'[home]) = <<User(t)>>
  <2> DEFINE file == stored[home]
  <2>1. file \in Seq(Items) /\ Of(t, file) = <<>> /\ stored'[home] = Append(file, User(t))
    BY <1>1, <1>9, <1>10 DEF Unwritten, Untouched, TypeInv
  <2>2. User(t) \in Items /\ User(t).turn = t
    BY UserType
  <2> HIDE DEF file
  <2>3. Of(t, Append(file, User(t))) = Append(Of(t, file), User(t))
    BY <2>1, <2>2, OfAppend
  <2> QED BY <2>1, <2>3
<1>12. Written(t)'
  BY <1>1, <1>7, <1>9, <1>10, <1>11, NoneIsNoTurn DEF Written, Unwritten
<1>13. WrittenSoFar(t)'
  BY <1>1, <1>8, <1>12 DEF WrittenSoFar
<1>14. Stopped(t)' <=> Stopped(t)
  BY DEF Stopped
<1>15. Said(t, history') \o ItemsIn(inbox') \o ItemsIn(queue'[t]) = emitted'[t]
  BY <1>5, <1>7 DEF Whole
<1> QED BY <1>6, <1>13, <1>14, <1>15 DEF Whole

(* Then an item at a time goes from the queue to the file and the channel.  *)
LEMMA WholeWhenItemIsFiled ==
  ASSUME TypeInv, NEW t \in Turns, Thread(t), Lined(t), Produced(t), Whole(t), actor[t], queue[t] # <<>>,
         queue[t][1].kind = "item", TakesItem(t), queue'[t] = Tail(queue[t]),
         active = t, inbox' = Sent(t, <<ItemDelta(queue[t][1].item)>>), history' = history,
         stopped' = stopped,
         UNCHANGED <<phase, emitted, outcome, cancelled, attemptCancelled, actor>>
  PROVE  Whole(t)'
<1> DEFINE i == queue[t][1].item  one == <<ItemDelta(i)>>  home == where[t]
           said == Said(t, history)  waiting == ItemsIn(inbox)  rest == ItemsIn(queue'[t])
<1>1. /\ i \in Items /\ In(i, emitted[t]) /\ home \in Turns
      /\ phase[t] \in {"attempt", "retry", "ending", "flushing"}
  BY CommandIsTaken
<1>2. ItemsIn(queue[t]) = <<i>> \o rest /\ Tail(queue[t]) \in Seq(Commands)
  BY FirstCommand
<1>3. rest \in Seq(Items)
  <2> DEFINE tail == Tail(queue[t])
  <2>1. tail \in Seq(Commands)
    BY <1>2
  <2> HIDE DEF tail
  <2>2. ItemsIn(tail) \in Seq(Items)
    BY <2>1, ItemsInType
  <2> QED BY <2>2 DEF tail
<1>4. ~Waits(t)
  BY DEF Waits
<1>5. ~Waits(t)'
  BY LinedTail
<1> HIDE DEF i
<1>6. i.turn = t
  BY <1>1 DEF In, Produced
<1>7. ItemDelta(i) \in Event /\ ItemDelta(i).kind = "item" /\ ItemsIn(one) = <<i>>
  BY <1>1, DeltaType, ItemsInOne
<1>8. one \in Seq(Event) /\ \A n \in 1..Len(one) : one[n] = ItemDelta(i)
  BY <1>7, Singleton
<1>9. inbox' = inbox \o one
  BY DEF Sent, i
<1> HIDE DEF one
<1>10. ItemsIn(inbox') = waiting \o <<i>>
  BY <1>7, <1>8, <1>9, AllTold
<1>11. Has({"interrupted"})' => Has({"interrupted"})
  <2>1. Has({"interrupted"})' <=> Has({"interrupted"}) \/ \E n \in 1..Len(one) : one[n].kind \in {"interrupted"}
    BY <1>8, <1>9, AllTold
  <2> QED BY <1>7, <1>8, <2>1
<1>12. said \in Seq(Items) /\ waiting \in Seq(Items)
  BY SaidType
<1>13. <<i>> \in Seq(Items)
  BY <1>1, Singleton
<1>14. (said \o waiting) \o (<<i>> \o rest) = emitted[t]
  BY <1>2 DEF Whole
<1> HIDE DEF said, waiting, rest
<1>15. (said \o (waiting \o <<i>>)) \o rest = emitted[t]
  <2> DEFINE item == <<i>>  before == said \o waiting
  <2>1. item \in Seq(Items) /\ before \in Seq(Items)
    BY <1>12, <1>13
  <2> HIDE DEF item, before
  <2>2. (before \o item) \o rest = before \o (item \o rest)
    BY <2>1, <1>3, ConcatAssoc
  <2>3. (said \o waiting) \o item = said \o (waiting \o item)
    BY <2>1, <1>12, ConcatAssoc
  <2> QED BY <1>14, <2>2, <2>3 DEF item, before
<1>16. Said(t, history') \o ItemsIn(inbox') \o ItemsIn(queue'[t]) = emitted'[t]
  BY <1>10, <1>15 DEF said, rest
<1>17. where'[t] = home /\ stored'[home] = Append(stored[home], i)
  BY <1>1 DEF TakesItem, TypeInv, i
<1>18. Written(t)
  BY <1>1, <1>4 DEF Whole, WrittenSoFar
<1>19. Written(t)'
  <2> DEFINE file == stored[home]  kept == Of(t, file)  item == <<i>>
  <2>1. file \in Seq(Items) /\ stored'[home] = Append(file, i)
    BY <1>1, <1>17 DEF TypeInv
  <2>2. kept \o (item \o rest) = <<User(t)>> \o emitted[t]
    BY <1>2, <1>18 DEF Written
  <2> HIDE DEF file
  <2>3. kept \in Seq(Items) /\ Of(t, Append(file, i)) = Append(kept, i)
    <3>1. kept \in Seq(Items)
      BY <2>1, OfSelects
    <3>2. Of(t, Append(file, i)) = Append(Of(t, file), i)
      BY <1>1, <1>6, <2>1, OfAppend
    <3> QED BY <3>1, <3>2
  <2>4. Append(kept, i) = kept \o item
    BY <2>3, <1>1, AppendIsConcat
  <2>5. item \in Seq(Items)
    BY <1>13
  <2> HIDE DEF kept, item
  <2>6. (kept \o item) \o rest = kept \o (item \o rest)
    BY <1>3, <2>3, <2>5, ConcatAssoc
  <2>7. Of(t, stored'[home]) = kept \o item
    BY <2>1, <2>3, <2>4
  <2> QED BY <1>1, <1>17, <2>2, <2>6, <2>7, NoneIsNoTurn DEF Written, rest
<1>20. WrittenSoFar(t)'
  BY <1>1, <1>5, <1>19 DEF WrittenSoFar
<1>21. Stopped(t)' <=> Stopped(t)
  BY DEF Stopped
<1> QED BY <1>11, <1>16, <1>20, <1>21 DEF Whole

(* The actor moves an item from the queue to the file and the channel.      *)
LEMMA WholeWhenPersisted ==
  ASSUME TypeInv, NEW t \in Turns, Thread(t), Lined(t), Produced(t), Persist(t), active = t, Whole(t)
  PROVE  Whole(t)'
<1>1. /\ actor[t] /\ queue[t] # <<>> /\ queue' = [queue EXCEPT ![t] = Tail(@)]
      /\ \/ /\ queue[t][1].kind = "turn" /\ TakesTurn(t) /\ phase' = phase
            /\ inbox' = Sent(t, <<TurnDelta(Home(t))>>)
         \/ /\ queue[t][1].kind = "item" /\ TakesItem(t) /\ phase' = phase
            /\ inbox' = Sent(t, <<ItemDelta(queue[t][1].item)>>)
         \/ queue[t][1].kind = "replay" /\ UNCHANGED <<where, stored, inbox, phase>>
         \/ /\ queue[t][1].kind = "flush" /\ UNCHANGED <<where, stored, inbox>>
            /\ phase' = [phase EXCEPT ![t] = "flushed"]
      /\ UNCHANGED <<active, history, outcome, emitted, cancelled, attemptCancelled, actor, stopped>>
  BY PersistShape
<1>2. queue'[t] = Tail(queue[t])
  BY <1>1 DEF TypeInv
<1>3. CASE queue[t][1].kind = "turn" /\ TakesTurn(t) /\ phase' = phase
           /\ inbox' = Sent(t, <<TurnDelta(Home(t))>>)
  BY <1>1, <1>2, <1>3, WholeWhenAsked
<1>4. CASE queue[t][1].kind = "item" /\ TakesItem(t) /\ phase' = phase
            /\ inbox' = Sent(t, <<ItemDelta(queue[t][1].item)>>)
  BY <1>1, <1>2, <1>4, WholeWhenItemIsFiled
<1>5. CASE /\ queue[t][1].kind \in {"replay", "flush"} /\ UNCHANGED <<where, stored, inbox>>
           /\ phase'[t] \in {phase[t], "flushed"}
  <2>1. ItemsIn(queue'[t]) = ItemsIn(queue[t])
    BY <1>1, <1>2, <1>5, FirstCommand
  <2>2. phase[t] \in {"attempt", "retry", "ending", "flushing"}
    BY <1>1, CommandIsTaken
  <2>3. ~Waits(t)
    BY <1>5 DEF Waits
  <2>4. ~Waits(t)'
    BY <1>1, <1>2, LinedTail
  <2>5. Stopped(t)' <=> Stopped(t)
    BY <1>1 DEF Stopped
  <2>6. phase'[t] \in {"ending", "flushing", "flushed"} /\ outcome'[t] = "interrupted" => t \in stopped
    <3>1. phase[t] \in {"ending", "flushing", "flushed"} /\ outcome[t] = "interrupted" => t \in stopped
      BY DEF Whole
    <3>2. CASE queue[t][1].kind = "flush"
      <4>1. phase[t] = "flushing"
        BY <1>1, <3>2, CommandIsTaken
      <4> QED BY <1>1, <3>1, <4>1
    <3>3. CASE queue[t][1].kind # "flush"
      BY <1>1, <1>5, <3>1, <3>3
    <3> QED BY <3>2, <3>3
  <2> QED BY <1>1, <1>5, <2>1, <2>2, <2>3, <2>4, <2>5, <2>6, WholeUntold
<1>6. phase' = [phase EXCEPT ![t] = "flushed"] => phase'[t] = "flushed"
  BY DEF TypeInv
<1> QED BY <1>1, <1>3, <1>4, <1>5, <1>6

(* A turn's step loses nothing of the turn shown.                           *)
LEMMA CompleteKept ==
  ASSUME TypeInv, \A u \in Turns : Thread(u) /\ Produced(u), \A s \in Turns : Filed(s), Remembered,
         Screen, Complete, NEW t \in Turns, Lined(t), TurnStep(t)
  PROVE  Complete'
<1>0. Thread(t) /\ Produced(t)
  OBVIOUS
<1>1. CASE Submit(t)
  BY <1>0, <1>1, CompleteWhenSubmitted
<1>2. CASE ~Submit(t) /\ active # t
  BY <1>0, <1>2, CompleteOfAnother
<1>3. CASE active = t
  <2>1. SUFFICES ASSUME Followed' PROVE Whole(active)'
    BY DEF Complete
  <2>2. CASE Answer(t)
    <3>1. UNCHANGED <<active, inbox, phase, history, stopped>>
      BY <2>2 DEF Answer, uiVars, workerVars, ghostVars
    <3>2. Followed
      BY <2>1, <3>1 DEF Followed, Has
    <3>3. Whole(t)
      BY <1>3, <3>2 DEF Complete
    <3>4. Whole(t)'
      BY <1>0, <1>3, <2>2, <3>1, <3>3, WholeWhenItSpeaks
    <3> QED BY <1>3, <3>1, <3>4
  <2>3. CASE ~Answer(t)
    <3>1. /\ active' = t /\ history' = history /\ stopped' = stopped
          /\ Whole(t) /\ phase[t] # "done" /\ ~Has({"lost"})
          /\ inbox' # Sent(t, <<Plain("lost")>>)
      BY <1>0, <1>3, <2>1, <2>3, OwnStep
    <3>2. ~Has({"lost"})' /\ (phase'[t] = "done" => Has(Terminal)')
      BY <2>1, <3>1 DEF Followed
    <3>3. ~Submit(t)
      BY <1>3, NoneIsNoTurn DEF Submit
    <3>4. ~PersistFails(t)
      BY <3>1, PersistFailsShape
    <3>5. ~WorkerPanics(t)
      <4>1. SUFFICES ASSUME WorkerPanics(t) PROVE FALSE
        OBVIOUS
      <4>2. phase[t] = "attempt" /\ phase'[t] = "done" /\ inbox' = inbox
        BY <4>1 DEF WorkerPanics, TypeInv
      <4>3. Has(Terminal)
        BY <3>2, <4>2 DEF Has
      <4>4. Has(Verdicts)
        BY <3>1, <4>3 DEF Has, Terminal, Verdicts
      <4>5. phase[t] = "done"
        BY <1>3, <4>4, NoneIsNoTurn DEF Has, Screen
      <4> QED BY <4>2, <4>5
    <3>6. CASE Produces(t)
      BY <1>0, <1>3, <3>1, <3>2, <3>6, WholeWhenItProduces
    <3>7. CASE Persist(t)
      BY <1>0, <1>3, <3>1, <3>7, WholeWhenPersisted
    <3>8. CASE WorkerStarts(t)
      BY <1>0, <1>3, <3>1, <3>8, WholeWhenItStarts
    <3>9. CASE StreamDelta(t) \/ Ask(t) \/ ProviderFailsEarly(t) \/ NextAttempt(t) \/ RetryCancelled(t)
      BY <1>0, <1>3, <3>1, <3>9, WholeWhenItSpeaks
    <3>10. CASE SendFlush(t) \/ SendVerdict(t)
      BY <1>0, <1>3, <3>1, <3>10, WholeWhenItEnds
    <3> QED BY <2>3, <3>3, <3>4, <3>5, <3>6, <3>7, <3>8, <3>9, <3>10 DEF TurnStep
  <2> QED BY <2>2, <2>3
<1> QED BY <1>1, <1>2, <1>3

-----------------------------------------------------------------------------
(* What was judged stays *)

(* All that a turn that is done still does is to answer a question.         *)
LEMMA DoneIsStill ==
  ASSUME TypeInv, NEW t \in Turns, Lined(t), phase[t] = "done", TurnStep(t)
  PROVE  Answer(t)
<1>1. queue[t] = <<>>
  BY DEF Lined
<1>2. ~Persist(t) /\ ~PersistFails(t)
  BY <1>1 DEF Persist, PersistFails
<1>3. ~Produces(t)
  BY DEF Produces, RespondWithCalls, ToolsFinish, RespondFinal, ProviderFails, AttemptCancelled,
         GraceExpires, Streaming
<1>4. ~(Submit(t) \/ WorkerStarts(t) \/ StreamDelta(t) \/ Ask(t) \/ ProviderFailsEarly(t) \/ NextAttempt(t)
        \/ RetryCancelled(t) \/ SendFlush(t) \/ SendVerdict(t) \/ WorkerPanics(t))
  BY DEF Submit, WorkerStarts, StreamDelta, Ask, ProviderFailsEarly, NextAttempt, RetryCancelled, SendFlush,
         SendVerdict, WorkerPanics, Streaming
<1> QED BY <1>2, <1>3, <1>4 DEF TurnStep

(* What a judged turn needs to stay as it was judged.                       *)
LEMMA SettledStays ==
  ASSUME TypeInv, NEW t \in Turns, Settled(t), verdict'[t] = verdict[t],
         verdict[t] # "none" => active' # t,
         stopped \subseteq stopped', spent.panics > 0 => spent'.panics > 0,
         Judged(t) =>
           /\ phase'[t] = phase[t] /\ ledger'[t] = ledger[t] /\ emitted'[t] = emitted[t]
           /\ where'[t] = where[t]
           /\ \A s \in Turns : Of(t, stored'[s]) = Of(t, stored[s])
           /\ Current(t)' => Current(t) /\ Said(t, history') = Said(t, history)
  PROVE  Settled(t)'
<1>2. verdict'[t] = "vanished" => spent'.panics > 0
  BY DEF Settled
<1>3. Judged(t)' <=> Judged(t)
  BY DEF Judged
<1>4. ASSUME Judged(t), emitted'[t] # <<>>
      PROVE  where'[t] # None /\ Of(t, stored'[where'[t]]) = <<User(t)>> \o emitted'[t]
  <2>1. where[t] # None /\ Of(t, stored[where[t]]) = <<User(t)>> \o emitted[t]
    BY <1>4 DEF Settled
  <2>2. where[t] \in Turns
    BY <2>1 DEF TypeInv
  <2> QED BY <1>4, <2>1, <2>2
<1>5. ASSUME Judged(t), Current(t)' PROVE Said(t, history') = emitted'[t]
  BY <1>5 DEF Settled
<1>6. Judged(t) => phase'[t] = "done" /\ ledger'[t] = {}
  BY DEF Settled
<1>7. verdict'[t] = "interrupted" => t \in stopped'
  BY DEF Settled
<1> QED BY <1>2, <1>3, <1>4, <1>5, <1>6, <1>7 DEF Settled

(* A turn's step leaves past verdicts true.                                 *)
LEMMA SettledKept ==
  ASSUME TypeInv, NEW t \in Turns, Thread(t), Lined(t), Produced(t), TurnStep(t), Screen,
         NEW u \in Turns, Settled(u), TypeInv'
  PROVE  Settled(u)'
<1>0. spent.panics > 0 => spent'.panics > 0
  <2>1. spent.panics \in 0..MaxPanics
    BY DEF TypeInv, SpentType
  <2>2. spent'.panics \in 0..MaxPanics
    BY DEF TypeInv, SpentType
  <2>3. spent'.panics >= spent.panics
    BY StepsFrame
  <2> QED BY <2>1, <2>2, <2>3, BoundsAssumption
<1>1. /\ Submit(t) \/ UNCHANGED <<active, pending, era>>
      /\ UNCHANGED <<session, history, verdict, stopped>>
      /\ spent'.resets = spent.resets
  BY StepsFrame
<1>2. verdict[u] # "none" => active' # u
  <2>1. CASE Submit(t)
    <3>1. active' = t /\ verdict[t] = "none"
      BY <2>1 DEF Submit, Thread
    <3> QED BY <3>1
  <2>2. CASE ~Submit(t)
    BY <1>1, <2>2 DEF Settled
  <2> QED BY <2>1, <2>2
<1>3. CASE u = t
  <2>1. ~Judged(t)
    <3>1. SUFFICES ASSUME Judged(t) PROVE FALSE
      OBVIOUS
    <3>2. phase[t] = "done" /\ verdict[t] # "none" /\ active # t
      BY <1>3, <3>1 DEF Settled, Judged
    <3>3. Answer(t)
      BY <3>2, DoneIsStill
    <3>4. t \in asking
      BY <3>3 DEF Answer
    <3> QED BY <3>2, <3>4 DEF Screen
  <2> QED BY <1>0, <1>1, <1>2, <1>3, <2>1, SettledStays
<1>4. CASE u # t
  <2>1. /\ phase'[u] = phase[u] /\ ledger'[u] = ledger[u] /\ emitted'[u] = emitted[u]
        /\ where'[u] = where[u] /\ era'[u] = era[u]
    BY <1>4, StepsAlone DEF Alone
  <2>2. \A s \in Turns : Of(u, stored'[s]) = Of(u, stored[s])
    <3>1. Files(t) \/ stored' = stored
      BY StepsFile
    <3> QED BY <1>4, <3>1, FilesOf
  <2>3. Current(u)' <=> Current(u)
    BY <1>1, <2>1 DEF Current
  <2> QED BY <1>0, <1>1, <1>2, <2>1, <2>2, <2>3, SettledStays
<1> QED BY <1>3, <1>4

(* Only the turn on the screen is read.                                     *)
LEMMA SaidOfAnother ==
  ASSUME TypeInv, Reads \/ Closes, Screen, active \in Turns, NEW t \in Turns, active # t
  PROVE  Said(t, history') = Said(t, history)
<1>1. NewItems \in Seq(Items)
  BY TypeFetches DEF Fetches
<1>2. \A k \in 1..Len(NewItems) : NewItems[k].turn # t
  BY NewItemsAreStored
<1>3. Said(t, NewItems) = <<>>
  BY <1>1, <1>2, OfOthers
<1> DEFINE said == Said(t, history)
<1>4. said \in Seq(Items) /\ Said(t, history') = said \o <<>>
  BY <1>3, SaidType, SaidGrows
<1> HIDE DEF said
<1>5. said \o <<>> = said
  BY <1>4, ConcatAssoc
<1> QED BY <1>4, <1>5 DEF said

(* The UI's steps that close no turn leave past verdicts true.              *)
LEMMA SettledInUi ==
  ASSUME TypeInv, Interrupt \/ Reset \/ Reads, Screen, NEW t \in Turns, Settled(t)
  PROVE  Settled(t)'
<1>1. CASE Interrupt
  <2>1. /\ active' = active /\ stopped \subseteq stopped'
        /\ UNCHANGED <<verdict, spent, phase, ledger, emitted, where, stored, history, era>>
    BY <1>1, InterruptShape
  <2>2. (Current(t)' <=> Current(t)) /\ (verdict[t] # "none" => active' # t)
    BY <2>1 DEF Current, Settled
  <2> QED BY <2>1, <2>2, SettledStays
<1>2. CASE Reset
  <2>1. /\ active' = None /\ spent'.resets = spent.resets + 1 /\ spent'.panics = spent.panics
        /\ spent.resets \in Nat
        /\ UNCHANGED <<verdict, stopped, phase, ledger, emitted, where, stored, era>>
    BY <1>2, ResetShape
  <2>2. ~Current(t)'
    <3>1. era[t] <= spent.resets /\ era[t] \in 0..MaxResets
      BY DEF Screen, TypeInv
    <3>2. era[t] # spent.resets + 1
      BY <2>1, <3>1, BoundsAssumption
    <3> QED BY <2>1, <3>2 DEF Current
  <2>3. active' # t
    BY <2>1, NoneIsNoTurn
  <2> QED BY <2>1, <2>2, <2>3, SettledStays
<1>3. CASE Reads
  <2>1. /\ active \in Turns
        /\ UNCHANGED <<active, verdict, stopped, spent, phase, ledger, emitted, where, stored, era>>
    BY <1>3, ReadsShape
  <2>2. (Current(t)' <=> Current(t)) /\ (verdict[t] # "none" => active' # t)
    BY <2>1 DEF Current, Settled
  <2>3. verdict[t] # "none" => Said(t, history') = Said(t, history)
    BY <1>3, <2>1, SaidOfAnother DEF Settled
  <2>4. Judged(t) => verdict[t] # "none"
    BY DEF Judged
  <2> QED BY <2>1, <2>2, <2>3, <2>4, SettledStays
<1> QED BY <1>1, <1>2, <1>3

(* The verdict comes last, when all that was produced has been read.        *)
LEMMA SettledWhenClosed ==
  ASSUME TypeInv, Closes, Screen, Complete, NEW t \in Turns, active = t, Lined(t), Produced(t)
  PROVE  Settled(t)'
<1>1. PICK event \in Terminal \cup {"vanished"} :
         /\ active' = None
         /\ verdict' = [verdict EXCEPT ![active] = event]
         /\ event = "vanished" => phase[active] = "done" /\ ~Has(Terminal)
         /\ event # "vanished" => \E i \in 1..Len(inbox) :
              /\ inbox[i].kind = event
              /\ \A j \in 1..(i - 1) : inbox[j].kind \in Delta
              /\ i = Len(inbox) => NewItems = ItemsIn(inbox)
         /\ UNCHANGED <<phase, ledger, emitted, where, stored, spent, stopped>>
  BY ClosesShape
<1>2. verdict'[t] = event
  BY <1>1 DEF TypeInv
<1>3. active # None /\ active' # t
  BY <1>1, NoneIsNoTurn
<1>4. ASSUME event = "vanished" PROVE spent'.panics > 0
  BY <1>1, <1>3, <1>4 DEF Screen
<1>5. CASE event \notin Verdicts
  <2>1. ~Judged(t)' /\ verdict'[t] # "interrupted"
    BY <1>2, <1>5 DEF Judged, Verdicts
  <2> QED BY <1>2, <1>3, <1>4, <2>1 DEF Settled
<1>6. CASE event \in Verdicts
  <2>0. event # "vanished" /\ event # "lost"
    BY <1>6 DEF Verdicts
  <2>1. PICK i \in 1..Len(inbox) :
              /\ inbox[i].kind = event
              /\ \A j \in 1..(i - 1) : inbox[j].kind \in Delta
              /\ i = Len(inbox) => NewItems = ItemsIn(inbox)
    BY <1>1, <2>0
  <2>2. i = Len(inbox) /\ phase[t] = "done" /\ ledger[t] = {}
    BY <1>3, <1>6, <2>1 DEF Screen
  <2>3. NewItems = ItemsIn(inbox)
    BY <2>1, <2>2
  <2>4. Has(Terminal)
    BY <1>6, <2>1 DEF Has, Terminal, Verdicts
  <2>5. ~Has({"lost"})
    <3>1. SUFFICES ASSUME NEW j \in 1..Len(inbox), inbox[j].kind = "lost" PROVE FALSE
      BY DEF Has
    <3>2. j \in 1..(i - 1) \/ j = i
      BY <2>2
    <3> QED BY <2>0, <2>1, <3>1, <3>2 DEF Delta
  <2>6. Whole(t)
    BY <1>3, <2>4, <2>5 DEF Complete, Followed
  <2>7. queue[t] = <<>> /\ ItemsIn(queue[t]) = <<>>
    <3>1. queue[t] = <<>>
      BY <2>2 DEF Lined
    <3> QED BY <3>1, ItemsInNothing
  <2>8. NewItems \in Seq(Items) /\ Said(t, NewItems) = NewItems
    <3> DEFINE none == <<>>
    <3>1. NewItems \in Seq(Items)
      BY TypeFetches DEF Fetches
    <3>2. ItemsIn(inbox) = NewItems \o <<>> /\ <<>> \in Seq(Items)
      BY <2>3, <3>1, ConcatAssoc
    <3>3. none \in Seq(Items) /\ ItemsIn(inbox) = NewItems \o none
      BY <3>2
    <3> HIDE DEF none
    <3> QED BY <2>6, <3>3, OwnItems
  <2>9. Said(t, history') = emitted'[t]
    <3> DEFINE said == Said(t, history)
    <3>1. Said(t, history') = said \o NewItems
      BY <2>8, SaidGrows
    <3>2. said \in Seq(Items)
      BY SaidType
    <3>3. (said \o NewItems) \o <<>> = emitted[t]
      BY <2>3, <2>6, <2>7 DEF Whole
    <3> HIDE DEF said
    <3>4. said \o NewItems \in Seq(Items)
      BY <2>8, <3>2
    <3>5. (said \o NewItems) \o <<>> = said \o NewItems
      BY <3>4, ConcatAssoc
    <3> QED BY <1>1, <3>1, <3>3, <3>5
  <2>10. emitted'[t] # <<>> =>
           where'[t] # None /\ Of(t, stored'[where'[t]]) = <<User(t)>> \o emitted'[t]
    <3>1. SUFFICES ASSUME emitted[t] # <<>>
                   PROVE  where[t] # None /\ Of(t, stored[where[t]]) = <<User(t)>> \o emitted[t]
      BY <1>1
    <3>2. Written(t)
      BY <2>2, <2>6, <2>7, <3>1 DEF Whole, WrittenSoFar, Waits
    <3> DEFINE file == Of(t, stored[where[t]])
    <3>3. where[t] \in Turns
      BY <3>2 DEF Written, TypeInv
    <3>4. file \in Seq(Items)
      BY <3>3, SaidType
    <3>5. file \o <<>> = <<User(t)>> \o emitted[t]
      BY <2>7, <3>2 DEF Written
    <3> HIDE DEF file
    <3>6. file \o <<>> = file
      BY <3>4, ConcatAssoc
    <3> QED BY <3>2, <3>5, <3>6 DEF Written, file
  <2>11. event = "interrupted" => t \in stopped'
    <3>1. event = "interrupted" => Has({"interrupted"})
      BY <2>1 DEF Has
    <3> QED BY <1>1, <2>6, <3>1 DEF Whole
  <2> QED BY <1>1, <1>2, <1>3, <2>0, <2>2, <2>9, <2>10, <2>11 DEF Settled
<1> QED BY <1>5, <1>6

(* The verdict of one turn leaves those of the others true.                 *)
LEMMA SettledWhenAnotherCloses ==
  ASSUME TypeInv, Closes, Screen, NEW t \in Turns, active # t, Settled(t)
  PROVE  Settled(t)'
<1>1. /\ active \in Turns /\ active' = None
      /\ \E event \in Terminal \cup {"vanished"} : verdict' = [verdict EXCEPT ![active] = event]
      /\ UNCHANGED <<phase, ledger, emitted, where, stored, spent, stopped, era>>
  BY ClosesShape
<1>2. verdict'[t] = verdict[t] /\ active' # t
  BY <1>1, NoneIsNoTurn DEF TypeInv
<1>3. Said(t, history') = Said(t, history)
  BY <1>1, SaidOfAnother
<1>4. Current(t)' <=> Current(t)
  BY <1>1 DEF Current
<1> QED BY <1>1, <1>2, <1>3, <1>4, SettledStays

-----------------------------------------------------------------------------
(* The invariant is inductive *)

(* The invariant holds at the start.                                        *)
LEMMA InitInvariant == Init => IInv
<1> SUFFICES ASSUME Init PROVE IInv
  OBVIOUS
<1>0. None \notin Turns /\ 0 \in 0..MaxRetries /\ 0 \in 0..MaxFailures /\ 0 \in 0..MaxPanics
      /\ 0 \in 0..MaxResets /\ None \in Turns \cup {None}
  BY NoneIsNoTurn, BoundsAssumption
<1>1. TypeInv
  <2>1. inbox \in Seq(Event) /\ history \in Seq(Items)
    BY DEF Init
  <2>2. queue \in [Turns -> Seq(Commands)] /\ stored \in [Turns -> Seq(Items)]
        /\ emitted \in [Turns -> Seq(Items)]
    BY DEF Init
  <2>3. spent \in SpentType
    BY <1>0 DEF Init, SpentType
  <2>4. phase \in [Turns -> Phases]
    BY DEF Init, Phases
  <2> QED BY <1>0, <2>1, <2>2, <2>3, <2>4 DEF Init, TypeInv
<1>2. ASSUME NEW t \in Turns
      PROVE  /\ phase[t] = "unborn" /\ queue[t] = <<>> /\ emitted[t] = <<>> /\ ledger[t] = {}
             /\ actor[t] /\ verdict[t] = "none" /\ ~cancelled[t] /\ ~attemptCancelled[t]
             /\ stored[t] = <<>> /\ era[t] = 0
  BY DEF Init
<1>3. active = None /\ inbox = <<>> /\ history = <<>> /\ pending = None /\ asking = {}
      /\ spent.resets = 0
  BY DEF Init
<1>4. ASSUME NEW t \in Turns PROVE Thread(t)
  BY <1>0, <1>2, <1>3 DEF Thread
<1>5. ASSUME NEW t \in Turns PROVE Lined(t)
  <2>1. Len(queue[t]) = 0
    BY <1>2
  <2> QED BY <1>2, <2>1, BoundsAssumption DEF Lined, Working
<1>6. ASSUME NEW t \in Turns PROVE Produced(t)
  <2>1. Len(emitted[t]) = 0
    BY <1>2
  <2> QED BY <1>2, <2>1 DEF Produced
<1>7. ASSUME NEW s \in Turns PROVE Filed(s)
  <2>1. Len(stored[s]) = 0
    BY <1>2
  <2> QED BY <2>1 DEF Filed
<1>8. Remembered /\ Screen /\ Complete
  BY <1>2, <1>3 DEF Remembered, Screen, Complete, Followed
<1>9. ASSUME NEW t \in Turns PROVE Settled(t)
  BY <1>2 DEF Settled, Judged
<1> QED BY <1>1, <1>4, <1>5, <1>6, <1>7, <1>8, <1>9 DEF IInv

(* A turn's step keeps the invariant.                                       *)
LEMMA TurnStepKeepsInvariant ==
  ASSUME IInv, NEW t \in Turns, TurnStep(t)
  PROVE  IInv'
<1>1. /\ TypeInv /\ \A u \in Turns : Thread(u) /\ Lined(u) /\ Produced(u) /\ Filed(u) /\ Settled(u)
      /\ Remembered /\ Screen /\ Complete
  BY DEF IInv
<1>2. TypeInv /\ Thread(t) /\ Lined(t) /\ Produced(t)
  BY <1>1
<1>3. TypeInv'
  <2>1. CASE Produces(t)
    <3>1. Emission(t)
      BY <1>2, <2>1, ProducesIsEmission
    <3> QED BY <1>2, <3>1, ProducesTypes
  <2>2. CASE Persist(t) \/ PersistFails(t)
    BY <1>2, <2>2, ActorTypes
  <2>3. CASE Submit(t) \/ Answer(t) \/ WorkerStarts(t) \/ StreamDelta(t) \/ Ask(t)
             \/ ProviderFailsEarly(t) \/ NextAttempt(t) \/ RetryCancelled(t) \/ SendFlush(t)
             \/ SendVerdict(t) \/ WorkerPanics(t)
    BY <1>2, <2>3, WorkerTypes
  <2> QED BY <2>1, <2>2, <2>3 DEF TurnStep
<1>4. ASSUME NEW u \in Turns PROVE Thread(u)'
  BY <1>1, <1>2, ThreadKept, ThreadOfAnother
<1>5. ASSUME NEW u \in Turns PROVE Lined(u)'
  BY <1>1, <1>2, LinedKept, LinedOfAnother
<1>6. ASSUME NEW u \in Turns PROVE Produced(u)'
  BY <1>1, <1>2, ProducedKept, ProducedOfAnother
<1>7. ASSUME NEW s \in Turns PROVE Filed(s)'
  BY <1>1, <1>2, FiledKept
<1>8. Remembered'
  BY <1>1, <1>2, RememberedKept
<1>9. Screen'
  BY <1>1, <1>2, ScreenKept
<1>10. Complete'
  BY <1>1, <1>2, CompleteKept
<1>11. ASSUME NEW u \in Turns PROVE Settled(u)'
  BY <1>1, <1>2, <1>3, SettledKept
<1> QED BY <1>3, <1>4, <1>5, <1>6, <1>7, <1>8, <1>9, <1>10, <1>11 DEF IInv

(* The UI's steps keep the invariant.                                       *)
LEMMA UiStepKeepsInvariant ==
  ASSUME IInv, UiStep
  PROVE  IInv'
<1>1. /\ TypeInv /\ \A u \in Turns : Thread(u) /\ Lined(u) /\ Produced(u) /\ Filed(u) /\ Settled(u)
      /\ Remembered /\ Screen /\ Complete
  BY DEF IInv
<1>2. Interrupt \/ Reset \/ Reads \/ Closes
  BY DEF UiStep
<1>3. TypeInv'
  BY <1>1, <1>2, UiTypes
<1>4. ASSUME NEW u \in Turns PROVE Thread(u)' /\ Lined(u)' /\ Produced(u)'
  BY <1>1, <1>2, ThreadInUi, LinedInUi, ProducedInUi
<1>5. ASSUME NEW s \in Turns PROVE Filed(s)'
  <2>1. UNCHANGED <<phase, emitted, stored>>
    BY <1>1, UiFrame
  <2>2. Filed(s)
    BY <1>1
  <2> QED BY <2>1, <2>2 DEF Filed, In
<1>6. Remembered' /\ Screen' /\ Complete'
  BY <1>1, RememberedInUi, ScreenInUi, CompleteInUi
<1>7. ASSUME NEW u \in Turns PROVE Settled(u)'
  <2>1. TypeInv /\ Screen /\ Complete /\ Lined(u) /\ Produced(u) /\ Settled(u)
    BY <1>1
  <2>2. CASE Closes /\ active = u
    BY <2>1, <2>2, SettledWhenClosed
  <2>3. CASE Closes /\ active # u
    BY <2>1, <2>3, SettledWhenAnotherCloses
  <2>4. CASE Interrupt \/ Reset \/ Reads
    BY <2>1, <2>4, SettledInUi
  <2> QED BY <1>2, <2>2, <2>3, <2>4
<1> QED BY <1>3, <1>4, <1>5, <1>6, <1>7 DEF IInv

(* A step that changes nothing keeps the invariant.                         *)
LEMMA StutterKeepsInvariant ==
  ASSUME IInv, UNCHANGED vars
  PROVE  IInv'
<1>1. UNCHANGED <<active, inbox, session, history, pending, phase, attempt, cancelled, attemptCancelled,
                  ledger, outcome, queue, actor, where, stored, asking, spent, emitted, verdict,
                  stopped, era>>
  BY DEF vars, uiVars, workerVars, tokens, actorVars, ghostVars
<1>2. TypeInv'
  BY <1>1 DEF IInv, TypeInv
<1>3. ASSUME NEW t \in Turns PROVE Thread(t)' /\ Lined(t)' /\ Produced(t)' /\ Filed(t)'
  <2>1. Thread(t) /\ Lined(t) /\ Produced(t) /\ Filed(t)
    BY DEF IInv
  <2>2. Thread(t)'
    BY <1>1, <2>1 DEF Thread, Stopped
  <2>3. Lined(t)'
    BY <1>1, <2>1 DEF Lined, Waits
  <2>4. Produced(t)'
    BY <1>1, <2>1 DEF Produced
  <2>5. Filed(t)'
    BY <1>1, <2>1 DEF Filed, In
  <2> QED BY <2>2, <2>3, <2>4, <2>5
<1>4. Remembered'
  BY <1>1 DEF IInv, Remembered, Current, In
<1>5. Screen'
  BY <1>1 DEF IInv, Screen, Current, Has, Stopped, In
<1>6. Complete'
  <2>1. Followed' <=> Followed
    BY <1>1 DEF Followed, Has
  <2>2. Whole(active)' <=> Whole(active)
    BY <1>1 DEF Whole, WrittenSoFar, Written, Unwritten, Untouched, Waits, Stopped, Has
  <2> QED BY <2>1, <2>2 DEF IInv, Complete
<1>7. ASSUME NEW t \in Turns PROVE Settled(t)'
  <2>1. Settled(t)
    BY DEF IInv
  <2> QED BY <1>1, <2>1 DEF Settled, Judged, Current
<1> QED BY <1>2, <1>3, <1>4, <1>5, <1>6, <1>7 DEF IInv

(* Every reachable state satisfies the inductive invariant: what a turn     *)
(* produced is in its queue, in the file it was submitted to, in the        *)
(* channel or in the history, in this order, until a verdict, a loss or a   *)
(* panic ends it (conversation_runtime.rs, persistence.rs, event_apply.rs). *)
THEOREM Invariant == Spec => []IInv
<1>1. Init => IInv
  BY InitInvariant
<1>2. IInv /\ [Next]_vars => IInv'
  <2>1. ASSUME IInv, Next PROVE IInv'
    BY <2>1, NextCases, TurnStepKeepsInvariant, UiStepKeepsInvariant DEF UiStep
  <2>2. ASSUME IInv, UNCHANGED vars PROVE IInv'
    BY <2>2, StutterKeepsInvariant
  <2> QED BY <2>1, <2>2
<1> QED BY <1>1, <1>2, PTL DEF Spec

-----------------------------------------------------------------------------
(* What it promises *)

(* The types of the proof are those the model checks.                       *)
LEMMA InvariantIsTypeOK == IInv => TypeOK
<1> SUFFICES ASSUME IInv PROVE TypeOK
  OBVIOUS
<1>1. TypeInv /\ \A t \in Turns : Lined(t)
  BY DEF IInv
<1>2. \A i \in DOMAIN inbox : inbox[i].kind \in Delta \cup Terminal \cup {"progress", "question"}
  <2>1. inbox \in Seq(Event)
    BY <1>1 DEF TypeInv
  <2>2. \A i \in DOMAIN inbox : inbox[i] \in Event
    BY <2>1
  <2> QED BY <2>2, EventKinds
<1>3. \A t \in Turns : Len(queue[t]) <= Capacity
  BY <1>1 DEF Lined
<1>4. \A t \in Turns : stored[t] \in Seq(Items) /\ emitted[t] \in Seq(Items)
  BY <1>1 DEF TypeInv
<1>5. spent \in [failures : 0..MaxFailures, panics : 0..MaxPanics, resets : 0..MaxResets]
  BY <1>1 DEF TypeInv, SpentType
<1>6. phase \in [Turns -> {"unborn", "start", "attempt", "retry", "ending", "flushing",
                          "flushed", "done"}]
  BY <1>1 DEF TypeInv, Phases
<1> QED BY <1>1, <1>2, <1>3, <1>4, <1>5, <1>6 DEF TypeInv, TypeOK

(* Only the turn on the screen asks, no message stays pending once no turn  *)
(* runs, and every variable keeps its type (terminal-ui event_apply.rs,     *)
(* prepare_turn).                                                           *)
THEOREM NothingOutlives == Spec => []NothingOutlivesItsTurn
<1>1. IInv => NothingOutlivesItsTurn
  <2>1. IInv => asking \subseteq {active} /\ (active = None => pending = None)
    BY DEF IInv, Screen
  <2> QED BY <2>1, InvariantIsTypeOK DEF NothingOutlivesItsTurn
<1> QED BY <1>1, Invariant, PTL

(* Every item the conversation shows is of one of its own turns and in the  *)
(* session file that turn was persisted to (event_apply.rs reads only what  *)
(* the actor stored).                                                       *)
THEOREM HistoryStored == Spec => []HistoryIsStored
<1>1. IInv => HistoryIsStored
  <2> SUFFICES ASSUME IInv, NEW i \in DOMAIN history
               PROVE  LET t == history[i].turn IN
                      /\ Current(t)
                      /\ where[t] # None /\ history[i] \in ToSet(stored[where[t]])
    BY DEF HistoryIsStored
  <2> DEFINE t == history[i].turn
  <2>1. TypeInv /\ Remembered
    BY DEF IInv
  <2>2. i \in 1..Len(history) /\ history[i] \in Items
    <3>1. history \in Seq(Items)
      BY <2>1 DEF TypeInv
    <3> QED BY <3>1
  <2>3. t \in Turns /\ Current(t) /\ where[t] # None /\ In(history[i], stored[where[t]])
    BY <2>1, <2>2, ItemFields DEF Remembered
  <2> HIDE DEF t
  <2>4. where[t] \in Turns
    BY <2>1, <2>3 DEF TypeInv
  <2> DEFINE file == stored[where[t]]
  <2>5. file \in Seq(Items)
    BY <2>1, <2>4 DEF TypeInv
  <2>6. In(history[i], file)
    BY <2>3
  <2> HIDE DEF file
  <2>7. DOMAIN file = 1..Len(file)
    BY <2>5
  <2>8. history[i] \in ToSet(file)
    BY <2>6, <2>7 DEF In, ToSet
  <2> QED BY <2>3, <2>8 DEF t, file
<1> QED BY <1>1, Invariant, PTL

(* A turn that finished, failed or was interrupted has all it produced in   *)
(* its file and, unless the conversation was cleared, in the history; it is *)
(* interrupted only if the user asked, and vanishes only by a panic.        *)
THEOREM VerdictTrue == Spec => []VerdictIsTrue
<1>1. IInv => VerdictIsTrue
  <2>1. IInv => \A t \in Turns : Settled(t)
    BY DEF IInv
  <2>2. (\A t \in Turns : Settled(t)) => JudgedTurnIsKept
    BY DEF JudgedTurnIsKept, Settled
  <2>3. (\A t \in Turns : Settled(t)) =>
          \A t \in Turns : /\ verdict[t] = "interrupted" => t \in stopped
                           /\ verdict[t] = "vanished" => spent.panics > 0
    BY DEF Settled
  <2> QED BY <2>1, <2>2, <2>3 DEF VerdictIsTrue
<1> QED BY <1>1, Invariant, PTL

(* A file keeps the items of one attempt of a turn only.                    *)
LEMMA OneAttempt == IInv => OneAttemptIsStored
<1> SUFFICES ASSUME IInv, NEW s \in Turns, NEW i \in DOMAIN stored[s], NEW j \in DOMAIN stored[s],
                    stored[s][i].turn = stored[s][j].turn,
                    "user" \notin {stored[s][i].kind, stored[s][j].kind}
             PROVE  stored[s][i].try = stored[s][j].try
  BY DEF OneAttemptIsStored
<1>1. TypeInv /\ Filed(s) /\ \A t \in Turns : Produced(t)
  BY DEF IInv
<1>2. stored[s] \in Seq(Items)
  BY <1>1 DEF TypeInv
<1>3. \A k \in DOMAIN stored[s] : k \in 1..Len(stored[s]) /\ stored[s][k] \in Items
  <2> DEFINE file == stored[s]
  <2>1. file \in Seq(Items)
    BY <1>2
  <2> HIDE DEF file
  <2>2. \A k \in DOMAIN file : k \in 1..Len(file) /\ file[k] \in Items
    BY <2>1
  <2> QED BY <2>2 DEF file
<1>4. ASSUME NEW k \in DOMAIN stored[s], stored[s][k].kind # "user"
      PROVE  stored[s][k].try = attempt[stored[s][k].turn]
  <2> DEFINE item == stored[s][k]
  <2>1. item.turn \in Turns /\ item # User(item.turn)
    BY <1>3, <1>4, ItemFields, UserType
  <2>2. In(item, emitted[item.turn])
    BY <1>1, <1>3, <2>1 DEF Filed
  <2> HIDE DEF item
  <2>3. item.try = attempt[item.turn]
    BY <1>1, <2>1, <2>2 DEF Produced, In
  <2> QED BY <2>3 DEF item
<1> QED BY <1>4

(* The result of a call is where the call's id says.                        *)
AnswersIn(t, i, c) ==
  {j \in DOMAIN history : /\ history[j].turn = t /\ history[j].kind = "result"
                          /\ history[j].calls = {c} /\ j > i}

(* A call in the history of a judged turn has one result.                   *)
LEMMA OneResult ==
  ASSUME IInv, NEW t \in Turns, Judged(t), Current(t), NEW i \in DOMAIN history,
         NEW c \in history[i].calls, history[i].turn = t, history[i].kind = "call"
  PROVE  \E r \in DOMAIN history : AnswersIn(t, i, c) = {r}
<1> DEFINE S == {x \in Items : x.turn = t /\ x.kind # "user"}  kept == emitted[t]
<1>1. TypeInv /\ Settled(t) /\ Produced(t)
  BY DEF IInv
<1>2. history \in Seq(Items) /\ kept \in Seq(Items)
  BY <1>1 DEF TypeInv
<1>3. Select(history, S) = kept /\ ledger[t] = {}
  BY <1>1 DEF Settled, Said
<1>4. \A j \in DOMAIN history : j \in 1..Len(history) /\ history[j] \in Items
  BY <1>2
<1>5. \A j \in 1..Len(history) : j \in DOMAIN history
  BY <1>2
<1>6. \A j \in DOMAIN history : history[j].turn = t /\ history[j].kind # "user" => history[j] \in S
  BY <1>4
<1>7. \A k \in 1..Len(kept) :
        /\ kept[k].kind = "result" => kept[k].calls = {k - 1}
        /\ kept[k].kind = "call" =>
             \A d \in kept[k].calls :
               /\ d >= k
               /\ d < Len(kept) => kept[d + 1].kind = "result"
               /\ ~(d >= Len(kept))
  BY <1>1, <1>3 DEF Produced
<1>8. \E f : Places(f, history, Select(history, S), S)
  BY <1>2, SelectPlaces
<1>9. PICK f : Places(f, history, kept, S)
  BY <1>3, <1>8
<1> HIDE DEF S, kept
<1>10. /\ \A k \in 1..Len(kept) : f[k] \in 1..Len(history) /\ history[f[k]] = kept[k] /\ kept[k] \in S
       /\ \A j, k \in 1..Len(kept) : j < k => f[j] < f[k]
       /\ \A j \in 1..Len(history) : history[j] \in S => \E k \in 1..Len(kept) : f[k] = j
  BY <1>9 DEF Places
<1>11. PICK k \in 1..Len(kept) : f[k] = i
  BY <1>4, <1>6, <1>10
<1>12. kept[k] = history[i] /\ c \in Nat
  <2>1. history[i].calls \subseteq Nat
    BY <1>4, ItemFields
  <2> QED BY <2>1, <1>10, <1>11
<1>13. c >= k /\ ~(c >= Len(kept)) /\ (c < Len(kept) => kept[c + 1].kind = "result")
  BY <1>7, <1>12
<1>14. Len(kept) \in Nat
  BY <1>2
<1>15. c + 1 \in 1..Len(kept) /\ k < c + 1 /\ (c + 1) - 1 = c
  BY <1>12, <1>13, <1>14
<1> DEFINE m == c + 1  r == f[m]
<1>16. m \in 1..Len(kept) /\ k < m /\ m - 1 = c /\ kept[m].kind = "result"
  BY <1>12, <1>13, <1>14, <1>15
<1> HIDE DEF m
<1>17. r \in DOMAIN history /\ history[r] = kept[m] /\ kept[m] \in S /\ r > i
  BY <1>5, <1>10, <1>11, <1>16
<1>18. history[r].turn = t /\ history[r].kind = "result" /\ history[r].calls = {c}
  BY <1>7, <1>16, <1>17 DEF S
<1>19. ASSUME NEW j \in DOMAIN history, history[j].turn = t, history[j].kind = "result",
              history[j].calls = {c}
       PROVE  j = r
  <2>1. PICK n \in 1..Len(kept) : f[n] = j
    BY <1>4, <1>6, <1>10, <1>19
  <2>2. kept[n] = history[j]
    BY <1>10, <2>1
  <2>3. {n - 1} = {c}
    BY <1>7, <1>19, <2>2
  <2>4. n - 1 = c
    BY <2>3
  <2>5. n = m
    BY <1>14, <1>16, <2>4
  <2> QED BY <2>1, <2>5
<1>20. r \in AnswersIn(t, i, c)
  BY <1>17, <1>18 DEF AnswersIn
<1>21. \A j \in AnswersIn(t, i, c) : j = r
  BY <1>19 DEF AnswersIn
<1> HIDE DEF r
<1> QED BY <1>17, <1>20, <1>21

(* Each call of a judged turn has exactly one result after it, and a file   *)
(* has the items of one attempt (tool-loop-runtime/src/runtime/mod.rs).     *)
THEOREM CallsAnswered == Spec => []CallsAreAnsweredOnce
<1>1. IInv => CallsAreAnsweredOnce
  <2> SUFFICES ASSUME IInv, NEW t \in Turns, Judged(t), Current(t), NEW i \in DOMAIN history,
                      NEW c \in history[i].calls, history[i].turn = t, history[i].kind = "call"
               PROVE  Cardinality({j \in DOMAIN history :
                          /\ history[j].turn = t /\ history[j].kind = "result"
                          /\ history[j].calls = {c} /\ j > i}) = 1
    BY OneAttempt DEF CallsAreAnsweredOnce
  <2>1. \E r \in DOMAIN history : AnswersIn(t, i, c) = {r}
    BY OneResult
  <2>2. Cardinality(AnswersIn(t, i, c)) = 1
    BY <2>1, FS_Singleton
  <2> QED BY <2>2 DEF AnswersIn
<1> QED BY <1>1, Invariant, PTL
=============================================================================
