--------------------------- MODULE ToolTurnProofs ---------------------------
(***************************************************************************)
(* Proofs about the tools of a turn: the broker that asks for permission   *)
(* and the loop that runs them, for every value of their constants.        *)
(*                                                                         *)
(* The broker.  None of its invariants is inductive alone.  The generation *)
(* a request holds never runs ahead of the broker's, and while the two     *)
(* agree no clear has happened since the request read it                   *)
(* (GenerationOrder).  So the generation test made under the rules lock is *)
(* a test of the approval context, and what was granted under it belongs   *)
(* to that context.                                                        *)
(*                                                                         *)
(* The loop.  Its history is in order up to the calls of the batch that is *)
(* under way, as long as their names are fresh (HistoryInOrder).  The      *)
(* pieces counted are those that arrived: of arguments, those of the calls *)
(* being put together (ArgumentsOnce); of output, those of calls that      *)
(* returned and of the command that runs, as far as its last snapshot      *)
(* (OutputsOnce), after which the next one shows only what is new          *)
(* (SnapshotIsNew).                                                        *)
(***************************************************************************)
EXTENDS PermissionBroker, ToolLoop, SequenceFilterProofs, FiniteSetTheorems

GenerationOrder ==
  /\ clears <= generation
  /\ \A r \in Requests :
       /\ heldGen[r] <= generation
       /\ epoch[r] <= clears
       /\ IsCurrent(r) => epoch[r] = clears

(* Before a request is registered nobody can hold or have sent its answer. *)
QuietBeforeRegister ==
  \A r \in Requests :
    pc[r] \in {"idle", "evaluate", "recheck", "register"} =>
      slot[r] = Empty /\ outbox[r] = Empty /\ r \notin pending

(* Some request of epoch e granted a rule that allows r. *)
AllowedInEpoch(r, e) ==
  \E q \in Requests :
    /\ ScopeOf[q] # NoScope /\ r \in Covers[ScopeOf[q]]
    /\ Granted(q, RuleOf(q, "Allow"))
    /\ epoch[q] = e

StoredAllowWasGranted ==
  \A r \in Requests :
    (pc[r] = "recheck" /\ stored[r] = "Allow" /\ IsCurrent(r))
      => AllowedInEpoch(r, epoch[r])

Allowed ==
  \A r \in Requests : decision[r] = "allow" =>
    \/ slot[r] \in {"AllowOnce", "AllowAlways"}
    \/ AllowedInEpoch(r, epoch[r])

(* A call that waits can be answered, is being answered, or has its answer. *)
AnswerIsPossible ==
  \A r \in Requests :
    pc[r] \in Waiting => r \in pending \/ slot[r] # Empty \/ outbox[r] # Empty

(* A verdict exists exactly when the call has returned. *)
VerdictMeansDone ==
  \A r \in Requests : decision[r] # None <=> pc[r] = "done"

IInv ==
  /\ TypeOK
  /\ GenerationOrder
  /\ QuietBeforeRegister
  /\ AnswerIsPossible
  /\ VerdictMeansDone
  /\ StoredAllowWasGranted
  /\ RulesAreOfThisContext
  /\ PendingIsCurrent
  /\ Allowed
  /\ HonouredRulesStay

-----------------------------------------------------------------------------
(* A broker that has served nothing is well typed. *)
LEMMA TypeInit == Init => TypeOK
BY ConstantsOK DEF ConstantsOK, Init, TypeOK, Rule, Answers, OptionKinds, Behaviors,
   None, Empty, Waiting, Over

(* Every critical section keeps the broker and the calls well typed. *)
LEMMA TypeStep == TypeOK /\ [Next]_vars => TypeOK'
<1> SUFFICES ASSUME TypeOK, [Next]_vars PROVE TypeOK'
  OBVIOUS
<1> USE ConstantsOK DEF ConstantsOK, TypeOK, Answers, OptionKinds, Behaviors, Waiting, Over,
        brokerVars, localVars, Goto, Return, None, Empty
<1>1. ASSUME NEW r \in Requests, Start(r) PROVE TypeOK'
  BY <1>1 DEF Start
<1>2. ASSUME NEW r \in Requests, EvaluateRules(r) PROVE TypeOK'
  BY <1>2 DEF EvaluateRules, Evaluate
<1>3. ASSUME NEW r \in Requests, Recheck(r) PROVE TypeOK'
  BY <1>3 DEF Recheck
<1>4. ASSUME NEW r \in Requests, Register(r) PROVE TypeOK'
  BY <1>4 DEF Register
<1>5. ASSUME NEW r \in Requests, Announce(r) PROVE TypeOK'
  BY <1>5 DEF Announce
<1>6. ASSUME NEW r \in Requests, AnnounceFails(r) PROVE TypeOK'
  BY <1>6 DEF AnnounceFails
<1>7. ASSUME NEW r \in Requests, WakeCancelled(r) PROVE TypeOK'
  BY <1>7 DEF WakeCancelled
<1>8. ASSUME NEW r \in Requests, WakeAnswered(r) PROVE TypeOK'
  BY <1>8 DEF WakeAnswered
<1>9. ASSUME NEW r \in Requests, Apply(r) PROVE TypeOK'
  BY <1>9 DEF Apply, InsertRuleIfActive, RuleOf, Rule, SelectedKind, RuntimeOptions
<1>10. ASSUME NEW r \in Requests, Send(r) PROVE TypeOK'
  BY <1>10 DEF Send
<1>11. ASSUME NEW r \in Requests, NEW option \in Answers, RespondPermission(r, option)
       PROVE  TypeOK'
  BY <1>11 DEF RespondPermission
<1>12. ASSUME NEW clear \in BOOLEAN, InvalidatePending(clear) PROVE TypeOK'
  BY <1>12 DEF InvalidatePending
<1>13. ASSUME NEW t \in Turns, CancelTurn(t) PROVE TypeOK'
  BY <1>13 DEF CancelTurn
<1>14. ASSUME NEW t \in Turns, DropTurn(t) PROVE TypeOK'
  BY <1>14 DEF DropTurn
<1>15. CASE UNCHANGED vars
  BY <1>15 DEF vars
<1> QED
  BY <1>1, <1>2, <1>3, <1>4, <1>5, <1>6, <1>7, <1>8, <1>9, <1>10, <1>11, <1>12,
     <1>13, <1>14, <1>15 DEF Next, HandlerStep, CancelAll, ClearPermissionContext

(* The broker's maps, the rule set and the locals of every call always
   have the values their types allow; in particular a call that cannot be
   remembered never leaves a rule (options offered by request_permission). *)
THEOREM TypeCorrect == Spec => []TypeOK
BY TypeInit, TypeStep, PTL DEF Spec

-----------------------------------------------------------------------------
(* Only invalidate_pending advances the generation, and it never clears
   without advancing it, so GenerationOrder is preserved. *)
LEMMA OrderStep ==
  TypeOK /\ GenerationOrder /\ [Next]_vars => GenerationOrder'
<1> SUFFICES ASSUME TypeOK, GenerationOrder, [Next]_vars PROVE GenerationOrder'
  OBVIOUS
<1> USE ConstantsOK DEF ConstantsOK, TypeOK, brokerVars, localVars, Goto, Return, None,
        Empty, Waiting, Over, GenerationOrder, IsCurrent
<1>1. ASSUME NEW r \in Requests, Start(r) PROVE GenerationOrder'
  BY <1>1 DEF Start
<1>2. ASSUME NEW r \in Requests, EvaluateRules(r) PROVE GenerationOrder'
  BY <1>2 DEF EvaluateRules
<1>3. ASSUME NEW r \in Requests, Recheck(r) PROVE GenerationOrder'
  BY <1>3 DEF Recheck
<1>4. ASSUME NEW r \in Requests, Register(r) PROVE GenerationOrder'
  BY <1>4 DEF Register
<1>5. ASSUME NEW r \in Requests, Announce(r) PROVE GenerationOrder'
  BY <1>5 DEF Announce
<1>6. ASSUME NEW r \in Requests, AnnounceFails(r) PROVE GenerationOrder'
  BY <1>6 DEF AnnounceFails
<1>7. ASSUME NEW r \in Requests, WakeCancelled(r) PROVE GenerationOrder'
  BY <1>7 DEF WakeCancelled
<1>8. ASSUME NEW r \in Requests, WakeAnswered(r) PROVE GenerationOrder'
  BY <1>8 DEF WakeAnswered
<1>9. ASSUME NEW r \in Requests, Apply(r) PROVE GenerationOrder'
  BY <1>9 DEF Apply
<1>10. ASSUME NEW r \in Requests, Send(r) PROVE GenerationOrder'
  BY <1>10 DEF Send
<1>11. ASSUME NEW r \in Requests, NEW option \in Answers, RespondPermission(r, option)
      PROVE  GenerationOrder'
  BY <1>11 DEF RespondPermission
<1>12. ASSUME NEW clear \in BOOLEAN, InvalidatePending(clear)
      PROVE  GenerationOrder'
  BY <1>12 DEF InvalidatePending
<1>13. ASSUME NEW t \in Turns, CancelTurn(t) PROVE GenerationOrder'
  BY <1>13 DEF CancelTurn
<1>14. ASSUME NEW t \in Turns, DropTurn(t) PROVE GenerationOrder'
  BY <1>14 DEF DropTurn
<1>15. CASE UNCHANGED vars
  BY <1>15 DEF vars
<1> QED
  BY <1>1, <1>2, <1>3, <1>4, <1>5, <1>6, <1>7, <1>8, <1>9, <1>10, <1>11, <1>12,
     <1>13, <1>14, <1>15 DEF Next, HandlerStep, CancelAll, ClearPermissionContext

(* An answer needs a registered sender: before register there is none. *)
LEMMA QuietStep ==
  TypeOK /\ QuietBeforeRegister /\ [Next]_vars => QuietBeforeRegister'
<1> SUFFICES ASSUME TypeOK, QuietBeforeRegister, [Next]_vars PROVE QuietBeforeRegister'
  OBVIOUS
<1> USE ConstantsOK DEF ConstantsOK, TypeOK, brokerVars, localVars, Goto, Return, None,
        Empty, Waiting, Over, QuietBeforeRegister, Answers, OptionKinds
<1>1. ASSUME NEW r \in Requests, Start(r) PROVE QuietBeforeRegister'
  BY <1>1 DEF Start
<1>2. ASSUME NEW r \in Requests, EvaluateRules(r) PROVE QuietBeforeRegister'
  BY <1>2 DEF EvaluateRules
<1>3. ASSUME NEW r \in Requests, Recheck(r) PROVE QuietBeforeRegister'
  BY <1>3 DEF Recheck
<1>4. ASSUME NEW r \in Requests, Register(r) PROVE QuietBeforeRegister'
  BY <1>4 DEF Register
<1>5. ASSUME NEW r \in Requests, Announce(r) PROVE QuietBeforeRegister'
  BY <1>5 DEF Announce
<1>6. ASSUME NEW r \in Requests, AnnounceFails(r) PROVE QuietBeforeRegister'
  BY <1>6 DEF AnnounceFails
<1>7. ASSUME NEW r \in Requests, WakeCancelled(r) PROVE QuietBeforeRegister'
  BY <1>7 DEF WakeCancelled
<1>8. ASSUME NEW r \in Requests, WakeAnswered(r) PROVE QuietBeforeRegister'
  BY <1>8 DEF WakeAnswered
<1>9. ASSUME NEW r \in Requests, Apply(r) PROVE QuietBeforeRegister'
  BY <1>9 DEF Apply
<1>10. ASSUME NEW r \in Requests, Send(r) PROVE QuietBeforeRegister'
  BY <1>10 DEF Send
<1>11. ASSUME NEW r \in Requests, NEW option \in Answers, RespondPermission(r, option)
      PROVE  QuietBeforeRegister'
  BY <1>11 DEF RespondPermission
<1>12. ASSUME NEW clear \in BOOLEAN, InvalidatePending(clear)
      PROVE  QuietBeforeRegister'
  BY <1>12 DEF InvalidatePending
<1>13. ASSUME NEW t \in Turns, CancelTurn(t) PROVE QuietBeforeRegister'
  BY <1>13 DEF CancelTurn
<1>14. ASSUME NEW t \in Turns, DropTurn(t) PROVE QuietBeforeRegister'
  BY <1>14 DEF DropTurn
<1>15. CASE UNCHANGED vars
  BY <1>15 DEF vars
<1> QED
  BY <1>1, <1>2, <1>3, <1>4, <1>5, <1>6, <1>7, <1>8, <1>9, <1>10, <1>11, <1>12,
     <1>13, <1>14, <1>15 DEF Next, HandlerStep, CancelAll, ClearPermissionContext

(* request_permission returns a verdict exactly when it is done. *)
LEMMA VerdictStep ==
  TypeOK /\ VerdictMeansDone /\ [Next]_vars => VerdictMeansDone'
<1> SUFFICES ASSUME TypeOK, VerdictMeansDone, [Next]_vars PROVE VerdictMeansDone'
  OBVIOUS
<1> USE ConstantsOK DEF ConstantsOK, TypeOK, brokerVars, localVars, Goto, Return, None,
        Empty, Waiting, Over, VerdictMeansDone
<1>1. ASSUME NEW r \in Requests, Start(r) PROVE VerdictMeansDone'
  BY <1>1 DEF Start
<1>2. ASSUME NEW r \in Requests, EvaluateRules(r) PROVE VerdictMeansDone'
  BY <1>2 DEF EvaluateRules
<1>3. ASSUME NEW r \in Requests, Recheck(r) PROVE VerdictMeansDone'
  BY <1>3 DEF Recheck
<1>4. ASSUME NEW r \in Requests, Register(r) PROVE VerdictMeansDone'
  BY <1>4 DEF Register
<1>5. ASSUME NEW r \in Requests, Announce(r) PROVE VerdictMeansDone'
  BY <1>5 DEF Announce
<1>6. ASSUME NEW r \in Requests, AnnounceFails(r) PROVE VerdictMeansDone'
  BY <1>6 DEF AnnounceFails
<1>7. ASSUME NEW r \in Requests, WakeCancelled(r) PROVE VerdictMeansDone'
  BY <1>7 DEF WakeCancelled
<1>8. ASSUME NEW r \in Requests, WakeAnswered(r) PROVE VerdictMeansDone'
  BY <1>8 DEF WakeAnswered
<1>9. ASSUME NEW r \in Requests, Apply(r) PROVE VerdictMeansDone'
  BY <1>9 DEF Apply
<1>10. ASSUME NEW r \in Requests, Send(r) PROVE VerdictMeansDone'
  BY <1>10 DEF Send
<1>11. ASSUME NEW r \in Requests, NEW option \in Answers, RespondPermission(r, option)
      PROVE  VerdictMeansDone'
  BY <1>11 DEF RespondPermission
<1>12. ASSUME NEW clear \in BOOLEAN, InvalidatePending(clear)
      PROVE  VerdictMeansDone'
  BY <1>12 DEF InvalidatePending
<1>13. ASSUME NEW t \in Turns, CancelTurn(t) PROVE VerdictMeansDone'
  BY <1>13 DEF CancelTurn
<1>14. ASSUME NEW t \in Turns, DropTurn(t) PROVE VerdictMeansDone'
  BY <1>14 DEF DropTurn
<1>15. CASE UNCHANGED vars
  BY <1>15 DEF vars
<1> QED
  BY <1>1, <1>2, <1>3, <1>4, <1>5, <1>6, <1>7, <1>8, <1>9, <1>10, <1>11, <1>12,
     <1>13, <1>14, <1>15 DEF Next, HandlerStep, CancelAll, ClearPermissionContext

(* A sender leaves the map only to send, and a value that was sent stays in
   the channel for as long as the call waits. *)
LEMMA AnswerStep ==
  TypeOK /\ AnswerIsPossible /\ [Next]_vars => AnswerIsPossible'
<1> SUFFICES ASSUME TypeOK, AnswerIsPossible, [Next]_vars PROVE AnswerIsPossible'
  OBVIOUS
<1> USE ConstantsOK DEF ConstantsOK, TypeOK, brokerVars, localVars, Goto, Return, None,
        Empty, Waiting, Over, Answers, OptionKinds, AnswerIsPossible
<1>1. ASSUME NEW r \in Requests, Start(r) PROVE AnswerIsPossible'
  BY <1>1 DEF Start
<1>2. ASSUME NEW r \in Requests, EvaluateRules(r) PROVE AnswerIsPossible'
  BY <1>2 DEF EvaluateRules
<1>3. ASSUME NEW r \in Requests, Recheck(r) PROVE AnswerIsPossible'
  BY <1>3 DEF Recheck
<1>4. ASSUME NEW r \in Requests, Register(r) PROVE AnswerIsPossible'
  BY <1>4 DEF Register
<1>5. ASSUME NEW r \in Requests, Announce(r) PROVE AnswerIsPossible'
  BY <1>5 DEF Announce
<1>6. ASSUME NEW r \in Requests, AnnounceFails(r) PROVE AnswerIsPossible'
  BY <1>6 DEF AnnounceFails
<1>7. ASSUME NEW r \in Requests, WakeCancelled(r) PROVE AnswerIsPossible'
  BY <1>7 DEF WakeCancelled
<1>8. ASSUME NEW r \in Requests, WakeAnswered(r) PROVE AnswerIsPossible'
  BY <1>8 DEF WakeAnswered
<1>9. ASSUME NEW r \in Requests, Apply(r) PROVE AnswerIsPossible'
  BY <1>9 DEF Apply
<1>10. ASSUME NEW r \in Requests, Send(r) PROVE AnswerIsPossible'
  BY <1>10 DEF Send
<1>11. ASSUME NEW r \in Requests, NEW option \in Answers, RespondPermission(r, option)
      PROVE  AnswerIsPossible'
  BY <1>11 DEF RespondPermission
<1>12. ASSUME NEW clear \in BOOLEAN, InvalidatePending(clear)
      PROVE  AnswerIsPossible'
  BY <1>12 DEF InvalidatePending
<1>13. ASSUME NEW t \in Turns, CancelTurn(t) PROVE AnswerIsPossible'
  BY <1>13 DEF CancelTurn
<1>14. ASSUME NEW t \in Turns, DropTurn(t) PROVE AnswerIsPossible'
  BY <1>14 DEF DropTurn
<1>15. CASE UNCHANGED vars
  BY <1>15 DEF vars
<1> QED
  BY <1>1, <1>2, <1>3, <1>4, <1>5, <1>6, <1>7, <1>8, <1>9, <1>10, <1>11, <1>12,
     <1>13, <1>14, <1>15 DEF Next, HandlerStep, CancelAll, ClearPermissionContext

(* register tests the generation under the lock that invalidate_pending
   takes the map with, so what is pending stays current. *)
LEMMA PendingStep ==
  TypeOK /\ GenerationOrder /\ QuietBeforeRegister /\ PendingIsCurrent /\ [Next]_vars
    => PendingIsCurrent'
<1> SUFFICES ASSUME TypeOK, GenerationOrder, QuietBeforeRegister, PendingIsCurrent,
                    [Next]_vars
             PROVE  PendingIsCurrent'
  OBVIOUS
<1> USE ConstantsOK DEF ConstantsOK, TypeOK, brokerVars, localVars, Goto, Return, None,
        Empty, Waiting, Over, GenerationOrder, QuietBeforeRegister, PendingIsCurrent, IsCurrent
<1>1. ASSUME NEW r \in Requests, Start(r) PROVE PendingIsCurrent'
  BY <1>1 DEF Start
<1>2. ASSUME NEW r \in Requests, EvaluateRules(r) PROVE PendingIsCurrent'
  BY <1>2 DEF EvaluateRules
<1>3. ASSUME NEW r \in Requests, Recheck(r) PROVE PendingIsCurrent'
  BY <1>3 DEF Recheck
<1>4. ASSUME NEW r \in Requests, Register(r) PROVE PendingIsCurrent'
  BY <1>4 DEF Register
<1>5. ASSUME NEW r \in Requests, Announce(r) PROVE PendingIsCurrent'
  BY <1>5 DEF Announce
<1>6. ASSUME NEW r \in Requests, AnnounceFails(r) PROVE PendingIsCurrent'
  BY <1>6 DEF AnnounceFails
<1>7. ASSUME NEW r \in Requests, WakeCancelled(r) PROVE PendingIsCurrent'
  BY <1>7 DEF WakeCancelled
<1>8. ASSUME NEW r \in Requests, WakeAnswered(r) PROVE PendingIsCurrent'
  BY <1>8 DEF WakeAnswered
<1>9. ASSUME NEW r \in Requests, Apply(r) PROVE PendingIsCurrent'
  BY <1>9 DEF Apply
<1>10. ASSUME NEW r \in Requests, Send(r) PROVE PendingIsCurrent'
  BY <1>10 DEF Send
<1>11. ASSUME NEW r \in Requests, NEW option \in Answers, RespondPermission(r, option)
      PROVE  PendingIsCurrent'
  BY <1>11 DEF RespondPermission
<1>12. ASSUME NEW clear \in BOOLEAN, InvalidatePending(clear)
      PROVE  PendingIsCurrent'
  BY <1>12 DEF InvalidatePending
<1>13. ASSUME NEW t \in Turns, CancelTurn(t) PROVE PendingIsCurrent'
  BY <1>13 DEF CancelTurn
<1>14. ASSUME NEW t \in Turns, DropTurn(t) PROVE PendingIsCurrent'
  BY <1>14 DEF DropTurn
<1>15. CASE UNCHANGED vars
  BY <1>15 DEF vars
<1> QED
  BY <1>1, <1>2, <1>3, <1>4, <1>5, <1>6, <1>7, <1>8, <1>9, <1>10, <1>11, <1>12,
     <1>13, <1>14, <1>15 DEF Next, HandlerStep, CancelAll, ClearPermissionContext

(* What a finished call was answered, and what it returned, never changes:
   a late send finds the receiver gone. *)
LEMMA DoneIsStable ==
  ASSUME TypeOK, [Next]_vars, NEW q \in Requests, pc[q] = "done"
  PROVE  pc'[q] = "done" /\ slot'[q] = slot[q] /\ epoch'[q] = epoch[q]
         /\ decision'[q] = decision[q]
BY DEF TypeOK, brokerVars, localVars, Goto, Return, Over, vars, Next, HandlerStep,
       CancelAll, ClearPermissionContext, Start, EvaluateRules, Recheck, Register,
       Announce, AnnounceFails, WakeCancelled, WakeAnswered, Apply, Send,
       RespondPermission, InvalidatePending, CancelTurn, DropTurn

(* A grant is never taken back by a later step. *)
LEMMA GrantedStays ==
  ASSUME TypeOK, [Next]_vars, NEW q \in Requests, NEW rule, Granted(q, rule)
  PROVE  Granted(q, rule)' /\ epoch'[q] = epoch[q]
BY DoneIsStable DEF Granted

(* A call that a grant of epoch e covers stays covered. *)
LEMMA AllowedStays ==
  ASSUME TypeOK, [Next]_vars, NEW r \in Requests, NEW e, AllowedInEpoch(r, e)
  PROVE  AllowedInEpoch(r, e)'
<1>1. PICK q \in Requests : /\ ScopeOf[q] # NoScope /\ r \in Covers[ScopeOf[q]]
                            /\ Granted(q, RuleOf(q, "Allow"))
                            /\ epoch[q] = e
  BY DEF AllowedInEpoch
<1>2. Granted(q, RuleOf(q, "Allow"))' /\ epoch'[q] = epoch[q]
  BY <1>1, DoneIsStable DEF Granted, RuleOf
<1> QED
  BY <1>1, <1>2 DEF AllowedInEpoch

(* An Allow that evaluate found while the generation still agrees was
   granted in the epoch of the call that found it. *)
LEMMA StoredStep ==
  TypeOK /\ GenerationOrder /\ RulesAreOfThisContext /\ StoredAllowWasGranted /\ [Next]_vars
    => StoredAllowWasGranted'
<1> SUFFICES ASSUME TypeOK, GenerationOrder, RulesAreOfThisContext, StoredAllowWasGranted,
                    [Next]_vars,
                    NEW r \in Requests, pc'[r] = "recheck", stored'[r] = "Allow", IsCurrent(r)'
             PROVE  AllowedInEpoch(r, epoch[r])' 
  BY DEF StoredAllowWasGranted
<1>1. ASSUME EvaluateRules(r) PROVE AllowedInEpoch(r, epoch[r])'
  <2>1. Evaluate(r) = "Allow" /\ IsCurrent(r) /\ epoch'[r] = epoch[r] /\ epoch[r] = clears
    BY <1>1 DEF TypeOK, EvaluateRules, GenerationOrder, IsCurrent, brokerVars
  <2>2. PICK rule \in rules : r \in Covers[rule.scope] /\ rule.behavior # "Deny"
    BY <2>1 DEF Evaluate, None
  <2>3. rule.behavior = "Allow" /\ rule.scope \in Scopes /\ rule.scope # NoScope
    BY <2>2, ConstantsOK DEF ConstantsOK, TypeOK, Rule, Behaviors
  <2>4. PICK q \in Requests : Granted(q, rule) /\ epoch[q] = clears
    BY <2>2 DEF RulesAreOfThisContext
  <2>5. Granted(q, RuleOf(q, "Allow"))
    BY <2>3, <2>4 DEF Granted, RuleOf
  <2>6. AllowedInEpoch(r, epoch[r])
    BY <2>1, <2>2, <2>3, <2>4, <2>5 DEF AllowedInEpoch, Granted
  <2> QED
    BY <2>1, <2>6, AllowedStays
<1>2. ASSUME ~EvaluateRules(r) PROVE AllowedInEpoch(r, epoch[r])'
  <2>1. pc[r] = "recheck" /\ stored[r] = "Allow" /\ IsCurrent(r) /\ epoch'[r] = epoch[r]
    BY <1>2 DEF TypeOK, GenerationOrder, IsCurrent, brokerVars, localVars, Goto, Return,
       Over, vars, Next, HandlerStep, CancelAll, ClearPermissionContext, Start,
       EvaluateRules, Recheck, Register, Announce, AnnounceFails, WakeCancelled,
       WakeAnswered, Apply, Send, RespondPermission, InvalidatePending, CancelTurn, DropTurn
  <2> QED
    BY <2>1, AllowedStays DEF StoredAllowWasGranted
<1> QED
  BY <1>1, <1>2

(* A rule enters the set only through insert_rule_if_active, whose test
   under the rules lock makes it a rule of the current context. *)
LEMMA RulesStep ==
  TypeOK /\ GenerationOrder /\ RulesAreOfThisContext /\ [Next]_vars
    => RulesAreOfThisContext'
<1> SUFFICES ASSUME TypeOK, GenerationOrder, RulesAreOfThisContext, [Next]_vars,
                    NEW rule \in rules'
             PROVE  \E r \in Requests : Granted(r, rule)' /\ epoch'[r] = clears'
  BY DEF RulesAreOfThisContext
<1>1. ASSUME rule \in rules, clears' = clears
      PROVE  \E r \in Requests : Granted(r, rule)' /\ epoch'[r] = clears'
  <2>1. PICK q \in Requests : Granted(q, rule) /\ epoch[q] = clears
    BY <1>1 DEF RulesAreOfThisContext
  <2> QED
    BY <2>1, <1>1, GrantedStays
<1>2. ASSUME NEW r \in Requests, Apply(r), rule \notin rules
      PROVE  Granted(r, rule)' /\ epoch'[r] = clears'
  <2>1. PICK b \in Behaviors :
          /\ slot[r] = (IF b = "Allow" THEN "AllowAlways" ELSE "RejectAlways")
          /\ rule = RuleOf(r, b)
          /\ IsCurrent(r)
    BY <1>2 DEF Apply, InsertRuleIfActive, Behaviors, SelectedKind, None, brokerVars
  <2>2. pc'[r] = "done" /\ slot'[r] = slot[r] /\ epoch'[r] = epoch[r] /\ clears' = clears
    BY <1>2 DEF TypeOK, Apply, Goto, Return, localVars
  <2>3. Granted(r, rule)'
    BY <2>1, <2>2 DEF Granted, RuleOf
  <2> QED
    BY <2>1, <2>2, <2>3 DEF GenerationOrder
<1>3. \/ rule \in rules /\ clears' = clears
      \/ \E r \in Requests : Apply(r) /\ rule \notin rules
  BY DEF brokerVars, localVars, vars, Next, HandlerStep, CancelAll,
     ClearPermissionContext, Start, EvaluateRules, Recheck, Register, Announce,
     AnnounceFails, WakeCancelled, WakeAnswered, Apply, Send, RespondPermission,
     InvalidatePending, CancelTurn, DropTurn
<1> QED
  BY <1>1, <1>2, <1>3

(* Only the stored-rule branch and the answer branch let a call through,
   and each has its consent. *)
LEMMA AllowedStep ==
  TypeOK /\ VerdictMeansDone /\ StoredAllowWasGranted /\ Allowed /\ [Next]_vars => Allowed'
<1> SUFFICES ASSUME TypeOK, VerdictMeansDone, StoredAllowWasGranted, Allowed, [Next]_vars,
                    NEW r \in Requests, decision'[r] = "allow"
             PROVE  slot'[r] \in {"AllowOnce", "AllowAlways"} \/ AllowedInEpoch(r, epoch[r])'
  BY DEF Allowed
<1>1. CASE decision[r] = "allow"
  <2>1. pc[r] = "done" /\ slot'[r] = slot[r] /\ epoch'[r] = epoch[r]
    BY <1>1, DoneIsStable DEF VerdictMeansDone, None
  <2> QED
    BY <1>1, <2>1, AllowedStays DEF Allowed
<1>2. CASE decision[r] # "allow" /\ Recheck(r)
  <2>1. stored[r] = "Allow" /\ pc[r] = "recheck" /\ IsCurrent(r) /\ epoch'[r] = epoch[r]
    BY <1>2 DEF TypeOK, Recheck, Return, localVars
  <2> QED
    BY <2>1, AllowedStays DEF StoredAllowWasGranted
<1>3. CASE decision[r] # "allow" /\ Apply(r)
  BY <1>3 DEF TypeOK, Apply, Return, SelectedKind, None
<1>4. decision[r] # "allow" => Recheck(r) \/ Apply(r)
  BY DEF TypeOK, localVars, Goto, Return, vars, Next, HandlerStep, CancelAll,
     ClearPermissionContext, Start, EvaluateRules, Recheck, Register, Announce,
     AnnounceFails, WakeCancelled, WakeAnswered, Apply, Send, RespondPermission,
     InvalidatePending, CancelTurn, DropTurn
<1> QED
  BY <1>1, <1>2, <1>3, <1>4

(* The set of rules shrinks only when the context is cleared. *)
LEMMA HonouredStep ==
  TypeOK /\ GenerationOrder /\ QuietBeforeRegister /\ VerdictMeansDone /\ HonouredRulesStay
    /\ [Next]_vars => HonouredRulesStay'
<1> SUFFICES ASSUME TypeOK, GenerationOrder, QuietBeforeRegister, VerdictMeansDone,
                    HonouredRulesStay, [Next]_vars,
                    NEW r \in Requests, decision'[r] = "allow", slot'[r] = "AllowAlways",
                    epoch'[r] = clears'
             PROVE  RuleOf(r, "Allow") \in rules'
  BY DEF HonouredRulesStay, RuleOf
<1>1. CASE decision[r] = "allow"
  <2>1. pc[r] = "done" /\ slot[r] = "AllowAlways" /\ epoch[r] = clears'
    BY <1>1, DoneIsStable DEF VerdictMeansDone, None
  <2>2. rules \subseteq rules' \/ clears' = clears + 1
    BY DEF brokerVars, vars, Next, HandlerStep, CancelAll,
     ClearPermissionContext, Start, EvaluateRules, Recheck, Register, Announce,
     AnnounceFails, WakeCancelled, WakeAnswered, Apply, InsertRuleIfActive, Send,
     RespondPermission, InvalidatePending, CancelTurn, DropTurn
  <2>3. clears' = clears \/ clears' = clears + 1
    BY DEF vars, Next, HandlerStep, CancelAll,
     ClearPermissionContext, Start, EvaluateRules, Recheck, Register, Announce,
     AnnounceFails, WakeCancelled, WakeAnswered, Apply, Send,
     RespondPermission, InvalidatePending, CancelTurn, DropTurn
  <2>4. clears' = clears /\ rules \subseteq rules'
    BY <2>1, <2>2, <2>3 DEF GenerationOrder, TypeOK
  <2> QED
    BY <1>1, <2>1, <2>4 DEF HonouredRulesStay
<1>2. CASE decision[r] # "allow" /\ Recheck(r)
  BY <1>2 DEF Recheck, QuietBeforeRegister, Empty, localVars
<1>3. CASE decision[r] # "allow" /\ Apply(r)
  BY <1>3 DEF TypeOK, Apply, Return, SelectedKind, None, InsertRuleIfActive
<1>4. decision[r] # "allow" => Recheck(r) \/ Apply(r)
  BY DEF TypeOK, localVars, Goto, Return, vars, Next, HandlerStep, CancelAll,
     ClearPermissionContext, Start, EvaluateRules, Recheck, Register, Announce,
     AnnounceFails, WakeCancelled, WakeAnswered, Apply, Send, RespondPermission,
     InvalidatePending, CancelTurn, DropTurn
<1> QED
  BY <1>1, <1>2, <1>3, <1>4

(* The invariant holds before the first call. *)
LEMMA InvInit == Init => IInv
BY TypeInit, ConstantsOK DEF ConstantsOK, Init, IInv, GenerationOrder, QuietBeforeRegister,
   AnswerIsPossible, VerdictMeansDone, StoredAllowWasGranted, RulesAreOfThisContext,
   PendingIsCurrent, Allowed, HonouredRulesStay, IsCurrent, None, Empty, Waiting

(* The conjuncts of the invariant support each other through every step. *)
LEMMA InvStep == IInv /\ [Next]_vars => IInv'
BY TypeStep, OrderStep, QuietStep, AnswerStep, VerdictStep, StoredStep, RulesStep, PendingStep,
   AllowedStep, HonouredStep DEF IInv

(* The inductive invariant holds in every reachable state. *)
THEOREM InvariantHolds == Spec => []IInv
BY InvInit, InvStep, PTL DEF Spec

(* However late an "always" answer is processed, no rule of an approval
   context that was cleared is in the set (insert_rule_if_active against
   invalidate_pending). *)
THEOREM NoRuleOutlivesItsContext == Spec => []RulesAreOfThisContext
<1>1. IInv => RulesAreOfThisContext
  BY DEF IInv
<1> QED
  BY <1>1, InvariantHolds, PTL

(* No request of an invalidated generation waits in the pending map, where
   the user could still answer it (register against invalidate_pending). *)
THEOREM NoStalePendingRequest == Spec => []PendingIsCurrent
<1>1. IInv => PendingIsCurrent
  BY DEF IInv
<1> QED
  BY <1>1, InvariantHolds, PTL

(* request_permission lets a call through only because the user allowed it
   or an "always" answer of the same context covers it. *)
THEOREM ConsentBeforeAllow == Spec => []AllowNeedsConsent
<1>1. IInv => AllowNeedsConsent
  BY DEF IInv, Allowed, AllowedInEpoch, AllowNeedsConsent
<1> QED
  BY <1>1, InvariantHolds, PTL

(* An "always" answer that was honoured stays in force until the context is
   cleared: cancel_all does not forget it. *)
THEOREM HonouredRulesSurvive == Spec => []HonouredRulesStay
<1>1. IInv => HonouredRulesStay
  BY DEF IInv
<1> QED
  BY <1>1, InvariantHolds, PTL

(* However an invalidation interleaves with registrations and answers, the
   calls it dismisses are told: none waits for a user who cannot answer it
   any more (invalidate_pending). *)
THEOREM DismissalsArrive == Spec => []DismissalIsComing
<1>1. IInv => DismissalIsComing
  BY DEF IInv, AnswerIsPossible, PendingIsCurrent, DismissalIsComing
<1> QED
  BY <1>1, InvariantHolds, PTL

-----------------------------------------------------------------------------
(* The recursions of the tool loop are what they say                         *)

NothingYet == [ok |-> TRUE, open |-> {}, all |-> {}]

LEMMA ValidatedIs ==
  ASSUME NEW h, Len(h) \in Nat
  PROVE  \E f : /\ f[0] = NothingYet
                /\ \A k \in 1..Len(h) : f[k] = Validate(f[k - 1], h[k])
                /\ Validated(h) = f[Len(h)]
<1> DEFINE n == Len(h)
           Next1(before, k) == Validate(before, h[k])
           Body(f, k) == IF k = 0 THEN NothingYet ELSE Next1(f[k - 1], k)
           Is(f, m) == f = [k \in 0..m |-> Body(f, k)]
           D == {m \in 0..n : \E f : Is(f, m)}
<1>0. n \in Nat
  OBVIOUS
<1>1. 0 \in D
  <2> DEFINE f == [k \in 0..0 |-> NothingYet]
  <2>1. f[0] = NothingYet /\ f = [k \in 0..0 |-> f[k]]
    OBVIOUS
  <2> HIDE DEF f
  <2>2. \A k \in 0..0 : f[k] = Body(f, k)
    BY <2>1
  <2> HIDE DEF Body
  <2>3. Is(f, 0)
    BY <2>1, <2>2
  <2> QED BY <1>0, <2>3
<1>2. ASSUME NEW m \in 0..n, m < n, m \in D PROVE m + 1 \in D
  <2>1. PICK f : Is(f, m)
    BY <1>2
  <2> HIDE DEF Next1
  <2> DEFINE last == Next1(f[m], m + 1)
             g == [k \in 0..(m + 1) |-> IF k = m + 1 THEN last ELSE f[k]]
  <2>2. m \in Nat /\ m + 1 \in 0..n
    BY <1>0, <1>2
  <2>3. g[m + 1] = last /\ \A k \in 0..m : g[k] = f[k]
    BY <2>2
  <2>4. g = [k \in 0..(m + 1) |-> g[k]]
    OBVIOUS
  <2> HIDE DEF g
  <2>5. \A k \in 0..m : f[k] = Body(f, k)
    BY <2>1
  <2>6. \A k \in 0..(m + 1) : g[k] = Body(g, k)
    <3> TAKE k \in 0..(m + 1)
    <3>1. CASE k = m + 1
      <4>1. k # 0 /\ k - 1 = m /\ m \in 0..m
        BY <2>2, <3>1
      <4> QED BY <2>3, <3>1, <4>1
    <3>2. CASE k = 0
      <4>1. 0 \in 0..m
        BY <2>2
      <4> QED BY <2>3, <2>5, <3>2, <4>1
    <3>3. CASE k # m + 1 /\ k # 0
      <4>1. k \in 0..m /\ k - 1 \in 0..m
        BY <2>2, <3>3
      <4> QED BY <2>3, <2>5, <3>3, <4>1
    <3> QED BY <3>1, <3>2, <3>3
  <2> HIDE DEF Body
  <2>7. Is(g, m + 1)
    BY <2>4, <2>6
  <2> QED BY <2>2, <2>7
<1> DEFINE after == CHOOSE f : Is(f, n)
<1>3. Validated(h) = after[n]
  BY DEF Validated, NothingYet
<1>4. n \in D
  <2>1. \A m \in 0..n : m < n /\ m \in D => m + 1 \in D
    BY <1>2
  <2> HIDE DEF D, n
  <2>2. \A m \in 0..n : m \in D
    BY <1>0, <1>1, <2>1, InductionUpTo
  <2> QED BY <1>0, <2>2
<1> HIDE DEF Body
<1>5. Is(after, n)
  BY <1>4
<1> HIDE DEF after
<1>6. \A k \in 0..n : after[k] = Body(after, k)
  BY <1>5
<1>7. after[0] = NothingYet
  <2> HIDE DEF Next1
  <2>1. 0 \in 0..n
    BY <1>0
  <2> QED BY <1>6, <2>1 DEF Body
<1>8. \A k \in 1..n : after[k] = Next1(after[k - 1], k)
  <2> TAKE k \in 1..n
  <2> HIDE DEF Next1
  <2>1. k \in 0..n /\ k # 0
    BY <1>0
  <2> QED BY <1>6, <2>1 DEF Body
<1> QED BY <1>3, <1>7, <1>8

Flat(final) == [k \in DOMAIN final |-> [final[k] EXCEPT !.index = k - 1]]

(* The states in which the events of the calls leave the counters, in turn.  *)
Meets(f, s, both) ==
  /\ f[0] = s
  /\ \A k \in 1..Len(both) :
       f[k] = ObserveCompleted(f[k - 1], both[k].index, both[k].id, both[k].args)

LEMMA CompletedIs ==
  ASSUME NEW s, NEW final, NEW both, both = final \o Flat(final), Len(both) \in Nat
  PROVE  \E f : Meets(f, s, both) /\ AllCompleted(s, final) = f[Len(both)]
<1> DEFINE n == Len(both)
           Next1(before, k) == ObserveCompleted(before, both[k].index, both[k].id, both[k].args)
           Body(f, k) == IF k = 0 THEN s ELSE Next1(f[k - 1], k)
           Is(f, m) == f = [k \in 0..m |-> Body(f, k)]
           D == {m \in 0..n : \E f : Is(f, m)}
<1>0. n \in Nat
  OBVIOUS
<1>1. 0 \in D
  <2> DEFINE f == [k \in 0..0 |-> s]
  <2>1. f[0] = s /\ f = [k \in 0..0 |-> f[k]]
    OBVIOUS
  <2> HIDE DEF f
  <2>2. \A k \in 0..0 : f[k] = Body(f, k)
    BY <2>1
  <2> HIDE DEF Body
  <2>3. Is(f, 0)
    BY <2>1, <2>2
  <2> QED BY <1>0, <2>3
<1>2. ASSUME NEW m \in 0..n, m < n, m \in D PROVE m + 1 \in D
  <2>1. PICK f : Is(f, m)
    BY <1>2
  <2> HIDE DEF Next1
  <2> DEFINE last == Next1(f[m], m + 1)
             g == [k \in 0..(m + 1) |-> IF k = m + 1 THEN last ELSE f[k]]
  <2>2. m \in Nat /\ m + 1 \in 0..n
    BY <1>0, <1>2
  <2>3. g[m + 1] = last /\ \A k \in 0..m : g[k] = f[k]
    BY <2>2
  <2>4. g = [k \in 0..(m + 1) |-> g[k]]
    OBVIOUS
  <2> HIDE DEF g
  <2>5. \A k \in 0..m : f[k] = Body(f, k)
    BY <2>1
  <2>6. \A k \in 0..(m + 1) : g[k] = Body(g, k)
    <3> TAKE k \in 0..(m + 1)
    <3>1. CASE k = m + 1
      <4>1. k # 0 /\ k - 1 = m /\ m \in 0..m
        BY <2>2, <3>1
      <4> QED BY <2>3, <3>1, <4>1
    <3>2. CASE k = 0
      <4>1. 0 \in 0..m
        BY <2>2
      <4> QED BY <2>3, <2>5, <3>2, <4>1
    <3>3. CASE k # m + 1 /\ k # 0
      <4>1. k \in 0..m /\ k - 1 \in 0..m
        BY <2>2, <3>3
      <4> QED BY <2>3, <2>5, <3>3, <4>1
    <3> QED BY <3>1, <3>2, <3>3
  <2> HIDE DEF Body
  <2>7. Is(g, m + 1)
    BY <2>4, <2>6
  <2> QED BY <2>2, <2>7
<1> DEFINE after == CHOOSE f : Is(f, n)
<1>3. AllCompleted(s, final) = after[n]
  BY DEF AllCompleted, Flat
<1>4. n \in D
  <2>1. \A m \in 0..n : m < n /\ m \in D => m + 1 \in D
    BY <1>2
  <2> HIDE DEF D, n
  <2>2. \A m \in 0..n : m \in D
    BY <1>0, <1>1, <2>1, InductionUpTo
  <2> QED BY <1>0, <2>2
<1> HIDE DEF Body
<1>5. Is(after, n)
  BY <1>4
<1> HIDE DEF after
<1>6. \A k \in 0..n : after[k] = Body(after, k)
  BY <1>5
<1>7. after[0] = s
  <2> HIDE DEF Next1
  <2>1. 0 \in 0..n
    BY <1>0
  <2> QED BY <1>6, <2>1 DEF Body
<1>8. \A k \in 1..n : after[k] = Next1(after[k - 1], k)
  <2> TAKE k \in 1..n
  <2> HIDE DEF Next1
  <2>1. k \in 0..n /\ k # 0
    BY <1>0
  <2> QED BY <1>6, <2>1 DEF Body
<1> QED BY <1>3, <1>7, <1>8 DEF Meets

(* The text of the outputs, put together one place after the other.          *)
Stores(f, text, places) ==
  /\ f[0] = <<>>
  /\ \A k \in 1..Len(places) : f[k] = f[k - 1] \o text[places[k]]

LEMMA StoredIs ==
  ASSUME NEW a, NEW places, places = Ascending(DOMAIN a.text), Len(places) \in Nat
  PROVE  \E f : Stores(f, a.text, places) /\ StoredText(a) = f[Len(places)]
<1> DEFINE n == Len(places)
           Next1(before, k) == before \o a.text[places[k]]
           Body(f, k) == IF k = 0 THEN <<>> ELSE Next1(f[k - 1], k)
           Is(f, m) == f = [k \in 0..m |-> Body(f, k)]
           D == {m \in 0..n : \E f : Is(f, m)}
<1>0. n \in Nat
  OBVIOUS
<1>1. 0 \in D
  <2> DEFINE f == [k \in 0..0 |-> <<>>]
  <2>1. f[0] = <<>> /\ f = [k \in 0..0 |-> f[k]]
    OBVIOUS
  <2> HIDE DEF f
  <2>2. \A k \in 0..0 : f[k] = Body(f, k)
    BY <2>1
  <2> HIDE DEF Body
  <2>3. Is(f, 0)
    BY <2>1, <2>2
  <2> QED BY <1>0, <2>3
<1>2. ASSUME NEW m \in 0..n, m < n, m \in D PROVE m + 1 \in D
  <2>1. PICK f : Is(f, m)
    BY <1>2
  <2> HIDE DEF Next1
  <2> DEFINE last == Next1(f[m], m + 1)
             g == [k \in 0..(m + 1) |-> IF k = m + 1 THEN last ELSE f[k]]
  <2>2. m \in Nat /\ m + 1 \in 0..n
    BY <1>0, <1>2
  <2>3. g[m + 1] = last /\ \A k \in 0..m : g[k] = f[k]
    BY <2>2
  <2>4. g = [k \in 0..(m + 1) |-> g[k]]
    OBVIOUS
  <2> HIDE DEF g
  <2>5. \A k \in 0..m : f[k] = Body(f, k)
    BY <2>1
  <2>6. \A k \in 0..(m + 1) : g[k] = Body(g, k)
    <3> TAKE k \in 0..(m + 1)
    <3>1. CASE k = m + 1
      <4>1. k # 0 /\ k - 1 = m /\ m \in 0..m
        BY <2>2, <3>1
      <4> QED BY <2>3, <3>1, <4>1
    <3>2. CASE k = 0
      <4>1. 0 \in 0..m
        BY <2>2
      <4> QED BY <2>3, <2>5, <3>2, <4>1
    <3>3. CASE k # m + 1 /\ k # 0
      <4>1. k \in 0..m /\ k - 1 \in 0..m
        BY <2>2, <3>3
      <4> QED BY <2>3, <2>5, <3>3, <4>1
    <3> QED BY <3>1, <3>2, <3>3
  <2> HIDE DEF Body
  <2>7. Is(g, m + 1)
    BY <2>4, <2>6
  <2> QED BY <2>2, <2>7
<1> DEFINE after == CHOOSE f : Is(f, n)
<1>3. StoredText(a) = after[n]
  BY DEF StoredText
<1>4. n \in D
  <2>1. \A m \in 0..n : m < n /\ m \in D => m + 1 \in D
    BY <1>2
  <2> HIDE DEF D, n
  <2>2. \A m \in 0..n : m \in D
    BY <1>0, <1>1, <2>1, InductionUpTo
  <2> QED BY <1>0, <2>2
<1> HIDE DEF Body
<1>5. Is(after, n)
  BY <1>4
<1> HIDE DEF after
<1>6. \A k \in 0..n : after[k] = Body(after, k)
  BY <1>5
<1>7. after[0] = <<>>
  <2> HIDE DEF Next1
  <2>1. 0 \in 0..n
    BY <1>0
  <2> QED BY <1>6, <2>1 DEF Body
<1>8. \A k \in 1..n : after[k] = Next1(after[k - 1], k)
  <2> TAKE k \in 1..n
  <2> HIDE DEF Next1
  <2>1. k \in 0..n /\ k # 0
    BY <1>0
  <2> QED BY <1>6, <2>1 DEF Body
<1> QED BY <1>3, <1>7, <1>8 DEF Stores

LEMMA ValidatedAppend ==
  ASSUME NEW T, NEW h \in Seq(T), NEW x \in T
  PROVE  Validated(Append(h, x)) = Validate(Validated(h), x)
<1> DEFINE more == Append(h, x)
           n == Len(h)
<1>1. /\ n \in Nat /\ Len(more) = n + 1 /\ Len(more) \in Nat
      /\ more[n + 1] = x /\ \A k \in 1..n : more[k] = h[k]
  OBVIOUS
<1> HIDE DEF more
<1>2. PICK f : /\ f[0] = NothingYet /\ \A k \in 1..n : f[k] = Validate(f[k - 1], h[k])
               /\ Validated(h) = f[n]
  BY <1>1, ValidatedIs
<1>3. PICK g : /\ g[0] = NothingYet
               /\ \A k \in 1..Len(more) : g[k] = Validate(g[k - 1], more[k])
               /\ Validated(more) = g[Len(more)]
  BY <1>1, ValidatedIs
<1> DEFINE D == {k \in 0..n : g[k] = f[k]}
<1> HIDE DEF n
<1>4. 0 \in D
  BY <1>1, <1>2, <1>3
<1>5. ASSUME NEW k \in 0..n, k < n, k \in D PROVE k + 1 \in D
  <2>1. /\ k + 1 \in 1..n /\ k + 1 \in 0..n /\ k + 1 \in 1..Len(more)
        /\ (k + 1) - 1 = k
    BY <1>1, <1>5
  <2>2. g[k] = f[k] /\ more[k + 1] = h[k + 1]
    BY <1>1, <1>5, <2>1
  <2>3. f[k + 1] = Validate(f[k], h[k + 1])
    BY <2>1, <1>2
  <2>4. g[k + 1] = Validate(g[k], more[k + 1])
    BY <2>1, <1>3
  <2> QED BY <2>1, <2>2, <2>3, <2>4
<1> HIDE DEF D
<1>6. n \in D
  <2>1. \A k \in 0..n : k < n /\ k \in D => k + 1 \in D
    BY <1>5
  <2>2. n \in 0..n
    BY <1>1
  <2> QED BY <2>1, <2>2, <1>1, <1>4, InductionUpTo
<1>7. g[n] = f[n]
  BY <1>6 DEF D
<1>8. Len(more) \in 1..Len(more) /\ Len(more) - 1 = n
  BY <1>1
<1>9. g[Len(more)] = Validate(g[n], x)
  BY <1>1, <1>3, <1>8
<1> QED BY <1>2, <1>3, <1>7, <1>9 DEF more

LEMMA ValidatedOfNothing == Validated(<<>>) = NothingYet
<1>1. Len(<<>>) = 0
  OBVIOUS
<1>2. PICK f : f[0] = NothingYet /\ Validated(<<>>) = f[Len(<<>>)]
  BY <1>1, ValidatedIs
<1> QED BY <1>1, <1>2

-----------------------------------------------------------------------------
(* The numbers of a set in ascending order                                   *)

LEMMA AscendingIs ==
  ASSUME NEW S \in SUBSET Nat, IsFiniteSet(S)
  PROVE  LET n == Cardinality(S)
             at == Ascending(S)
             rank(i) == Cardinality({j \in S : j < i})
         IN  /\ n \in Nat /\ DOMAIN at = 1..n /\ Len(at) = n
             /\ \A k \in 1..n : at[k] \in S /\ rank(at[k]) = k - 1
             /\ \A i \in S : rank(i) + 1 \in 1..n /\ at[rank(i) + 1] = i
             /\ \A i, j \in S : rank(i) = rank(j) => i = j
<1> DEFINE n == Cardinality(S)
           at == Ascending(S)
           below(i) == {j \in S : j < i}
           under == [i \in S |-> below(i)]
<1>1. n \in Nat
  BY FS_CardinalityType
<1>2. /\ \A a \in S : under[a] \in SUBSET (S \ {a})
      /\ \A a, b \in S : a \in under[b] => under[a] \subseteq under[b]
      /\ \A a, b \in S : a # b => a \in under[b] \/ b \in under[a]
  <2>1. \A i \in S : i \in Int
    OBVIOUS
  <2>2. \A a, b \in S : a \in under[b] <=> a < b
    OBVIOUS
  <2>3. \A a \in S : under[a] \subseteq S
    OBVIOUS
  <2> HIDE DEF under
  <2>4. \A a \in S : a \notin under[a]
    BY <2>1, <2>2
  <2>5. ASSUME NEW a \in S, NEW b \in S, a \in under[b], NEW c \in under[a] PROVE c \in under[b]
    <3>1. c \in S /\ c < a /\ a < b
      BY <2>2, <2>3, <2>5
    <3>2. a \in Int /\ b \in Int /\ c \in Int
      BY <2>1, <3>1
    <3>3. c < b
      BY <3>1, <3>2
    <3> QED BY <2>2, <3>1, <3>3
  <2>6. ASSUME NEW a \in S, NEW b \in S, a # b PROVE a \in under[b] \/ b \in under[a]
    <3>1. a < b \/ b < a
      BY <2>1, <2>6
    <3> QED BY <2>2, <3>1
  <2> QED BY <2>3, <2>4, <2>5, <2>6
<1>3. \A i \in S : under[i] = below(i)
  OBVIOUS
<1> HIDE DEF under
<1>4. /\ \A k \in 1..n : \E a \in S : Cardinality(under[a]) = k - 1
      /\ \A a \in S : Cardinality(under[a]) + 1 \in 1..n
      /\ \A a, b \in S : Cardinality(under[a]) = Cardinality(under[b]) => a = b
  BY <1>1, <1>2, OneAtEachPlace
<1>5. at = [k \in 1..n |-> CHOOSE i \in S : Cardinality(below(i)) = k - 1]
  BY DEF Ascending
<1> HIDE DEF at
<1>6. ASSUME NEW k \in 1..n PROVE at[k] \in S /\ Cardinality(below(at[k])) = k - 1
  <2>1. at[k] = CHOOSE i \in S : Cardinality(below(i)) = k - 1
    BY <1>5
  <2>2. \E i \in S : Cardinality(below(i)) = k - 1
    BY <1>3, <1>4
  <2> HIDE DEF below
  <2> QED BY <2>1, <2>2
<1>7. ASSUME NEW i \in S PROVE Cardinality(below(i)) + 1 \in 1..n /\ at[Cardinality(below(i)) + 1] = i
  <2> DEFINE k == Cardinality(below(i)) + 1
  <2>1. k \in 1..n
    BY <1>3, <1>4
  <2>2. at[k] \in S /\ Cardinality(below(at[k])) = k - 1
    BY <1>6, <2>1
  <2>3. Cardinality(below(i)) \in Nat
    <3>1. below(i) \in SUBSET S
      OBVIOUS
    <3> QED BY <3>1, FS_Subset, FS_CardinalityType
  <2>4. k - 1 = Cardinality(below(i))
    BY <2>3
  <2> HIDE DEF k, below
  <2>5. Cardinality(under[at[k]]) = Cardinality(under[i])
    BY <1>3, <2>2, <2>4
  <2>6. at[k] = i
    BY <1>4, <2>2, <2>5
  <2> QED BY <2>1, <2>6 DEF k
<1>8. DOMAIN at = 1..n /\ Len(at) = n
  <2> DEFINE pick(k) == CHOOSE i \in S : Cardinality(below(i)) = k - 1
  <2>0. at = [k \in 1..n |-> pick(k)]
    BY <1>5
  <2> HIDE DEF pick
  <2>1. DOMAIN at = 1..n
    BY <2>0
  <2>2. at = [k \in 1..n |-> at[k]]
    BY <2>0
  <2>3. at \in Seq({at[k] : k \in 1..n})
    BY <1>1, <2>2
  <2> QED BY <1>1, <2>1, <2>3
<1>9. \A i, j \in S : Cardinality(below(i)) = Cardinality(below(j)) => i = j
  BY <1>3, <1>4
<1> QED BY <1>1, <1>6, <1>7, <1>8, <1>9 DEF at

LEMMA AscendingGrows ==
  ASSUME NEW S \in SUBSET Nat, IsFiniteSet(S), NEW i \in Nat, \A j \in S : j < i
  PROVE  LET n == Cardinality(S)
             more == Ascending(S \cup {i})
         IN  /\ Len(more) = n + 1 /\ more[n + 1] = i
             /\ \A k \in 1..n : more[k] = Ascending(S)[k]
<1> DEFINE n == Cardinality(S)
           T == S \cup {i}
           at == Ascending(S)
           more == Ascending(T)
           rank(R, x) == Cardinality({j \in R : j < x})
<1>1. IsFiniteSet(T) /\ Cardinality(T) = n + 1 /\ T \in SUBSET Nat
  BY FS_AddElement
<1>2. n \in Nat /\ \A k \in 1..n : at[k] \in S /\ rank(S, at[k]) = k - 1
  BY AscendingIs
<1>3. Len(more) = n + 1 /\ \A x \in T : more[rank(T, x) + 1] = x
  <2> HIDE DEF T
  <2>1. Len(more) = Cardinality(T) /\ \A x \in T : more[rank(T, x) + 1] = x
    BY <1>1, AscendingIs
  <2> QED BY <1>1, <2>1
<1>4. ASSUME NEW x \in S PROVE {j \in T : j < x} = {j \in S : j < x}
  OBVIOUS
<1>5. {j \in T : j < i} = S
  <2>1. \A j \in T : j < i <=> j \in S
    OBVIOUS
  <2> QED BY <2>1
<1>6. more[n + 1] = i
  BY <1>3, <1>5
<1>7. ASSUME NEW k \in 1..n PROVE more[k] = at[k]
  <2>1. at[k] \in S /\ rank(S, at[k]) = k - 1
    BY <1>2
  <2>2. rank(T, at[k]) = k - 1
    BY <1>4, <2>1
  <2>3. more[rank(T, at[k]) + 1] = at[k]
    BY <1>3, <2>1
  <2> HIDE DEF rank, more, at
  <2>4. (k - 1) + 1 = k
    BY <1>2
  <2> QED BY <2>2, <2>3, <2>4
<1> QED BY <1>3, <1>6, <1>7

LEMMA AscendingEnds ==
  ASSUME NEW S \in SUBSET Nat, IsFiniteSet(S), NEW i \in S, \A j \in S : j =< i
  PROVE  LET n == Cardinality(S)
             at == Ascending(S)
         IN  n \in Nat \ {0} /\ at[n] = i /\ \A k \in 1..n : k < n => at[k] # i
<1> DEFINE n == Cardinality(S)
           at == Ascending(S)
           rank(x) == Cardinality({j \in S : j < x})
<1>1. /\ n \in Nat /\ \A k \in 1..n : rank(at[k]) = k - 1
      /\ rank(i) + 1 \in 1..n /\ at[rank(i) + 1] = i
  BY AscendingIs
<1>2. {j \in S : j < i} = S \ {i}
  <2>1. \A j \in S : j < i <=> j # i
    OBVIOUS
  <2> QED BY <2>1
<1>3. rank(i) = n - 1
  BY <1>2, FS_RemoveElement
<1> HIDE DEF rank, at, n
<1>4. n \in Nat \ {0} /\ at[n] = i
  BY <1>1, <1>3
<1>5. ASSUME NEW k \in 1..n, k < n PROVE at[k] # i
  BY <1>1, <1>3, <1>5
<1> QED BY <1>4, <1>5 DEF at, n

-----------------------------------------------------------------------------
(* The tool loop: what its invariants rest on                                *)

Pieces     == [turn : Nat, of : {"text", "args", "output", "diff"}, at : Nat, n : Nat]
Partials   == [id : CallIds \cup {NoId}, named : BOOLEAN, args : Seq(Pieces)]
Calls      == [index : Nat, id : CallIds \cup {NoId}, args : Seq(Pieces)]
ItemKinds  == {"user", "reasoning", "assistant", "result"}
Items      == [kind : ItemKinds, calls : Seq(Calls)]
LoopPlaces == {"next", "stream", "batch", "running"} \cup Ended

(* What the stream has put together: no call is ready to be announced and    *)
(* was not.                                                                  *)
AccOK(a) ==
  /\ a = [partials |-> a.partials, started |-> a.started, text |-> a.text,
          thought |-> a.thought, finish |-> a.finish]
  /\ DOMAIN a.partials \in SUBSET Nat /\ IsFiniteSet(DOMAIN a.partials)
  /\ DOMAIN a.text \in SUBSET Nat /\ IsFiniteSet(DOMAIN a.text)
  /\ \A i \in DOMAIN a.partials :
       /\ a.partials[i] \in Partials
       /\ a.partials[i].id # NoId /\ a.partials[i].named => i \in a.started
  /\ \A i \in DOMAIN a.text : a.text[i] \in Seq(Pieces)

IsState(s) ==
  s = [thinking |-> s.thinking, idOf |-> s.idOf, byIndex |-> s.byIndex, byId |-> s.byId,
       terminal |-> s.terminal, counted |-> s.counted, twice |-> s.twice]
SeenOK(s) ==
  /\ IsState(s)
  /\ s.counted \in SUBSET Pieces /\ s.twice = FALSE
  /\ \A id \in DOMAIN s.terminal : s.terminal[id] \in Seq(Pieces)

LoopTypes ==
  /\ place \in LoopPlaces /\ toolTurns \in Nat
  /\ items \in Seq(Items) /\ calls \in Seq(Calls) /\ Len(results) \in Nat
  /\ results \in Seq([id : CallIds \cup {NoId}, terminates : BOOLEAN])
  /\ shown \in Seq(Pieces) /\ printed \in Seq(Pieces)
  /\ AccOK(acc) /\ SeenOK(seen)

(* Of the arguments that come in, those that are counted are those that came,*)
(* and an index that has some is known to the counters.                      *)
ArgumentsOnce ==
  /\ place = "stream" =>
       /\ \A i \in DOMAIN acc.partials :
            /\ \A n \in DOMAIN acc.partials[i].args : acc.partials[i].args[n] = Piece("args", i, n)
            /\ acc.partials[i].args # <<>> => i \in DOMAIN seen.byIndex
       /\ \A p \in seen.counted : p.of = "args" /\ p.turn = toolTurns =>
            p.at \in DOMAIN acc.partials /\ p.n \in 1..Len(acc.partials[p.at].args)
  /\ place \in {"next", "batch", "running"} =>
       \A p \in seen.counted : p.of = "args" => p.turn < toolTurns

(* Of the outputs of this batch, those of the calls that have returned are   *)
(* counted, and of the command that runs what the last snapshot showed.      *)
Before(p, k) == p.turn < toolTurns \/ \E j \in 1..k : p.at = calls[j].index
Snapshot(m) ==
  /\ \A p \in seen.counted : p.of = "output" =>
       Before(p, Len(results)) \/ (p.at = Call.index /\ p.n =< m)
  /\ \A id \in DOMAIN seen.terminal : \A n \in DOMAIN seen.terminal[id] :
       Before(seen.terminal[id][n], Len(results)) \/ (m > 0 /\ seen.terminal[id][n].at = Call.index)
  /\ m > 0 => /\ Call.id \in DOMAIN seen.terminal
              /\ seen.terminal[Call.id] = LastPieces(SubSeq(printed, 1, m))
OutputsOnce ==
  /\ \A p \in seen.counted : p.of # "diff" /\ p.turn =< toolTurns
  /\ \A id \in DOMAIN seen.terminal : \A n \in DOMAIN seen.terminal[id] :
       seen.terminal[id][n].turn =< toolTurns
  /\ place = "batch" =>
       /\ Len(results) =< Len(calls)
       /\ \A p \in seen.counted : p.of = "output" => Before(p, Len(results))
       /\ \A id \in DOMAIN seen.terminal : \A n \in DOMAIN seen.terminal[id] :
            Before(seen.terminal[id][n], Len(results))
  /\ place = "running" =>
       /\ Len(results) < Len(calls)
       /\ \A n \in DOMAIN printed : printed[n] = Piece("output", Call.index, n)
       /\ \E m \in 0..Len(printed) : Snapshot(m)

(* The calls of a batch: one to an index, known to the counters by name, and *)
(* as the stream brought them.                                               *)
BatchIsStreamed ==
  place \in {"batch", "running"} =>
    \A k \in DOMAIN calls :
      LET c == calls[k] IN
      /\ c.id \in DOMAIN seen.byId
      /\ \A m \in DOMAIN calls : calls[m].index = c.index => m = k
      /\ c.index \in acc.started /\ acc.partials[c.index].id = c.id /\ c.args # <<>>
      /\ \A n \in DOMAIN c.args :
           /\ c.args[n].at = c.index /\ c.args[n].turn = toolTurns - 1
           /\ c.args[n].n \in {0, n}

(* The history is in order, up to the calls of the batch that is under way.  *)
NamesOf(history) ==
  UNION {IdsOf(history[k]) : k \in {n \in DOMAIN history : history[n].kind = "assistant"}}
Fresh(history) ==
  \A k, m \in {n \in DOMAIN history : history[n].kind = "assistant"} :
    \A i \in DOMAIN history[k].calls, j \in DOMAIN history[m].calls :
      history[k].calls[i].id = history[m].calls[j].id => k = m /\ i = j
InOrder(history, open) ==
  /\ Validated(history).ok /\ Validated(history).open = open
  /\ Validated(history).all \subseteq NamesOf(history)
HistoryInOrder ==
  Fresh(items) =>
    /\ place \notin {"batch", "running"} => InOrder(items, {})
    /\ place \in {"batch", "running"} =>
         /\ items # <<>> /\ items[Len(items)] = [kind |-> "assistant", calls |-> calls]
         /\ InOrder(items, IdsOf(items[Len(items)]))

LoopIInv ==
  /\ LoopTypes /\ ArgumentsOnce /\ OutputsOnce /\ BatchIsStreamed /\ HistoryInOrder
  /\ StoredText(acc) = shown

-----------------------------------------------------------------------------
(* What a snapshot shows that the one before did not                         *)

LEMMA LargestOf ==
  ASSUME NEW n \in Nat, NEW S \in SUBSET (0..n), S # {}
  PROVE  Max(S) \in S /\ \A y \in S : Max(S) >= y
<1> DEFINE D == {n - y : y \in S}
<1>1. D # {} /\ D \subseteq Nat
  <2>1. D # {}
    OBVIOUS
  <2>2. \A y \in S : n - y \in Nat
    OBVIOUS
  <2> QED BY <2>1, <2>2
<1>2. PICK d \in D : \A e \in D : ~(<<e, d>> \in LessThan)
  BY <1>1, LessThanIsWellFounded, WFMin
<1>3. PICK x \in S : d = n - x
  BY <1>2
<1>4. ASSUME NEW y \in S PROVE x >= y
  <2>1. x \in 0..n /\ y \in 0..n
    OBVIOUS
  <2>2. n - y \in D /\ n - y \in Nat /\ n - x \in Nat
    BY <2>1
  <2>3. <<n - y, n - x>> \notin LessThan
    BY <1>2, <1>3, <2>2
  <2>4. ~(n - y < n - x)
    BY <2>2, <2>3 DEF LessThan
  <2> QED BY <2>1, <2>4
<1>5. \E z \in S : \A y \in S : z >= y
  BY <1>4
<1> QED BY <1>5 DEF Max

(* The first k pieces of a snapshot are the last k of the one before.        *)
Resumes(previous, current, k) ==
  /\ k \in 0..Len(current) /\ k =< Len(previous)
  /\ \A j \in 1..k : current[j] = previous[Len(previous) - k + j]

LEMMA StartIsSuffix ==
  ASSUME NEW T, NEW previous \in Seq(T), NEW current \in Seq(T),
         NEW k, Resumes(previous, current, k)
  PROVE  IsSuffix(SubSeq(current, 1, k), previous)
<1> DEFINE start == SubSeq(current, 1, k)
           L == Len(previous)
<1>0. /\ L \in Nat /\ k \in Nat /\ Len(current) \in Nat /\ k =< Len(current) /\ k =< L
      /\ \A j \in 1..k : current[j] = previous[L - k + j]
  BY DEF Resumes
<1>1. start \in Seq(T) /\ Len(start) = k /\ \A j \in 1..k : start[j] = current[j]
  BY <1>0
<1>2. /\ Reverse(start) \in Seq(T) /\ Len(Reverse(start)) = k
      /\ \A j \in 1..k : Reverse(start)[j] = start[k - j + 1]
  <2> HIDE DEF start
  <2>1. Reverse(start) = [j \in 1..k |-> start[(k - j) + 1]]
    BY <1>1 DEF Reverse
  <2>2. \A j \in 1..k : start[(k - j) + 1] \in T
    BY <1>0, <1>1
  <2> QED BY <1>0, <2>1, <2>2
<1>3. /\ Reverse(previous) \in Seq(T) /\ Len(Reverse(previous)) = L
      /\ \A j \in 1..L : Reverse(previous)[j] = previous[L - j + 1]
  <2>1. Reverse(previous) = [j \in 1..L |-> previous[(L - j) + 1]]
    BY DEF Reverse
  <2>2. \A j \in 1..L : previous[(L - j) + 1] \in T
    BY <1>0
  <2> QED BY <1>0, <2>1, <2>2
<1> HIDE DEF start, L
<1>4. k =< L
  BY <1>0
<1>5. ASSUME NEW j \in 1..k PROVE Reverse(start)[j] = Reverse(previous)[j]
  <2>1. k - j + 1 \in 1..k /\ j \in 1..L /\ L - k + (k - j + 1) = L - j + 1
    BY <1>0, <1>4
  <2>2. start[k - j + 1] = previous[L - j + 1]
    BY <1>0, <1>1, <2>1
  <2> QED BY <1>2, <1>3, <2>1, <2>2
<1> DEFINE u == Reverse(start)
           v == Reverse(previous)
<1>6. /\ u \in Seq(T) /\ Len(u) = k /\ v \in Seq(T) /\ Len(v) = L
      /\ \A j \in 1..k : u[j] = v[j]
  BY <1>2, <1>3, <1>5
<1> HIDE DEF u, v
<1>7. IsPrefix(u, v)
  <2>1. SubSeq(u, 1, k) \in Seq(T) /\ SubSeq(v, 1, k) \in Seq(T)
    BY <1>0, <1>4, <1>6
  <2>2. Len(SubSeq(u, 1, k)) = k /\ Len(SubSeq(v, 1, k)) = k
    BY <1>0, <1>4, <1>6
  <2>3. \A j \in 1..k : SubSeq(u, 1, k)[j] = SubSeq(v, 1, k)[j]
    BY <1>0, <1>4, <1>6
  <2>4. SubSeq(u, 1, k) = SubSeq(v, 1, k)
    BY <2>1, <2>2, <2>3, SeqEqual
  <2> QED BY <1>4, <1>6, <2>4 DEF IsPrefix
<1> QED BY <1>7 DEF IsSuffix, u, v, start

LEMMA DeltaIsNew ==
  ASSUME NEW T, NEW previous \in Seq(T), NEW current \in Seq(T),
         NEW k, Resumes(previous, current, k)
  PROVE  \A p \in ToSet(TerminalDelta(previous, current)) :
            \E j \in (k + 1)..Len(current) : p = current[j]
<1> DEFINE n == Len(current)
           L == Len(previous)
           overlap == {m \in 0..n : IsSuffix(SubSeq(current, 1, m), previous)}
           from == IF IsPrefix(previous, current) THEN L ELSE Max(overlap)
<1>1. n \in Nat /\ L \in Nat /\ k \in 0..n /\ k =< L
  BY DEF Resumes
<1>2. k \in overlap /\ overlap \in SUBSET (0..n)
  BY <1>1, StartIsSuffix
<1>3. from \in 0..n /\ from >= k
  <2>1. CASE IsPrefix(previous, current)
    <3>1. L =< n
      BY <2>1 DEF IsPrefix
    <3> QED BY <1>1, <2>1, <3>1
  <2>2. CASE ~IsPrefix(previous, current)
    <3> HIDE DEF overlap, n
    <3>1. overlap # {}
      BY <1>2
    <3>2. Max(overlap) \in overlap /\ Max(overlap) >= k
      BY <1>1, <1>2, <3>1, LargestOf
    <3> QED BY <1>2, <2>2, <3>2
  <2> QED BY <2>1, <2>2
<1>4. TerminalDelta(previous, current) = SubSeq(current, from + 1, n)
  BY DEF TerminalDelta
<1> HIDE DEF from
<1> DEFINE delta == SubSeq(current, from + 1, n)
<1>5. Len(delta) = n - from /\ DOMAIN delta = 1..(n - from)
      /\ \A j \in 1..(n - from) : delta[j] = current[from + j]
  BY <1>1, <1>3
<1> HIDE DEF delta, n
<1>6. ASSUME NEW p \in ToSet(delta) PROVE \E j \in (k + 1)..n : p = current[j]
  <2>1. PICK j \in 1..(n - from) : p = delta[j]
    BY <1>5 DEF ToSet
  <2>2. from + j \in (k + 1)..n
    BY <1>1, <1>3
  <2> QED BY <1>5, <2>1, <2>2
<1> QED BY <1>4, <1>6 DEF delta, n

LEMMA DeltaIsCurrent ==
  ASSUME NEW T, NEW previous \in Seq(T), NEW current \in Seq(T)
  PROVE  \A p \in ToSet(TerminalDelta(previous, current)) :
            \E j \in 1..Len(current) : p = current[j]
<1>1. 0 \in 0..Len(current) /\ 0 =< Len(previous)
  OBVIOUS
<1>2. Resumes(previous, current, 0)
  BY <1>1 DEF Resumes
<1>3. \A p \in ToSet(TerminalDelta(previous, current)) :
         \E j \in (0 + 1)..Len(current) : p = current[j]
  BY <1>2, DeltaIsNew
<1> QED BY <1>3

(* Where the last pieces of an output start.                                 *)
StartOf(output) == IF Len(output) =< Window THEN 0 ELSE Len(output) - Window

LEMMA StartIs ==
  ASSUME NEW T, NEW output \in Seq(T)
  PROVE  StartOf(output) \in 0..Len(output)
BY ToolLoopConstantsOK DEF StartOf

LEMMA LastPiecesAre ==
  ASSUME NEW T, NEW output \in Seq(T)
  PROVE  /\ LastPieces(output) \in Seq(T)
         /\ Len(LastPieces(output)) = Len(output) - StartOf(output)
         /\ \A j \in 1..(Len(output) - StartOf(output)) :
              LastPieces(output)[j] = output[StartOf(output) + j]
<1>0. Window \in Nat /\ Window > 0 /\ Len(output) \in Nat
  BY ToolLoopConstantsOK
<1> DEFINE start == StartOf(output)
<1>3. start \in 0..Len(output)
  BY StartIs
<1>1. CASE Len(output) =< Window
  <2>1. LastPieces(output) = output
    BY <1>1 DEF LastPieces
  <2>2. start = 0
    BY <1>1 DEF StartOf
  <2> HIDE DEF start
  <2> QED BY <1>0, <2>1, <2>2 DEF start
<1>2. CASE ~(Len(output) =< Window)
  <2>1. LastPieces(output) = SubSeq(output, start + 1, Len(output))
    BY <1>0, <1>2 DEF LastPieces, StartOf
  <2>2. \A i \in (start + 1)..Len(output) : output[i] \in T
    BY <1>0, <1>3
  <2>3. /\ LastPieces(output) \in Seq(T) /\ Len(LastPieces(output)) = Len(output) - start
        /\ \A j \in 1..(Len(output) - start) : LastPieces(output)[j] = output[start + j]
    <3> HIDE DEF start
    <3>1. start + 1 \in Int /\ Len(output) \in Int
      BY <1>0, <1>3
    <3> QED BY <1>0, <1>3, <2>1, <2>2, <3>1
  <2> QED BY <2>3
<1> QED BY <1>1, <1>2

(* What a snapshot shows for the first time was printed after the one before.*)
LEMMA SnapshotIsNew ==
  ASSUME NEW T, NEW output \in Seq(T), NEW m \in 0..Len(output), NEW previous \in Seq(T),
         m > 0 => previous = LastPieces(SubSeq(output, 1, m))
  PROVE  \A p \in ToSet(TerminalDelta(previous, LastPieces(output))) :
            \E j \in (m + 1)..Len(output) : p = output[j]
<1> DEFINE n == Len(output)
           current == LastPieces(output)
           start == StartOf(output)
<1>0. n \in Nat /\ m \in 0..n
  OBVIOUS
<1>1. /\ start \in 0..n /\ current \in Seq(T) /\ Len(current) = n - start
      /\ \A j \in 1..(n - start) : current[j] = output[start + j]
  BY LastPiecesAre, StartIs
<1> HIDE DEF start, current
<1> DEFINE k == IF m > start THEN m - start ELSE 0
<1>2. k \in 0..Len(current) /\ start + k >= m
  <2> HIDE DEF n
  <2>1. CASE m > start
    BY <1>0, <1>1, <2>1
  <2>2. CASE ~(m > start)
    BY <1>0, <1>1, <2>2
  <2> QED BY <2>1, <2>2
<1>3. k =< Len(previous) /\ \A j \in 1..k : current[j] = previous[Len(previous) - k + j]
  <2>1. CASE m > start
    <3> DEFINE told == SubSeq(output, 1, m)
               begin == StartOf(told)
    <3>1. told \in Seq(T) /\ Len(told) = m /\ \A j \in 1..m : told[j] = output[j]
      BY <1>0
    <3>2. previous = LastPieces(told)
      BY <1>0, <1>1, <2>1
    <3> HIDE DEF told
    <3>3. /\ begin \in 0..Len(told) /\ Len(previous) = Len(told) - begin
          /\ \A j \in 1..(Len(told) - begin) : previous[j] = told[begin + j]
      BY <3>1, <3>2, LastPiecesAre, StartIs
    <3>4. begin =< start
      BY <1>0, <1>1, <3>1, ToolLoopConstantsOK DEF StartOf, start
    <3>5. k = m - start
      BY <2>1
    <3> HIDE DEF n, k, begin
    <3>6. begin \in 0..m /\ Len(previous) = m - begin
      BY <3>1, <3>3
    <3>7. k =< Len(previous)
      BY <1>0, <1>1, <3>4, <3>5, <3>6
    <3>8. ASSUME NEW j \in 1..k PROVE current[j] = previous[Len(previous) - k + j]
      <4>1. /\ Len(previous) - k + j \in 1..(m - begin)
            /\ begin + (Len(previous) - k + j) = start + j
            /\ start + j \in 1..m /\ j \in 1..(n - start)
        BY <1>0, <1>1, <2>1, <3>4, <3>5, <3>6
      <4>2. previous[Len(previous) - k + j] = told[start + j]
        BY <3>1, <3>3, <4>1
      <4> QED BY <1>1, <3>1, <4>1, <4>2
    <3> QED BY <3>7, <3>8
  <2>2. CASE ~(m > start)
    <3>1. k = 0 /\ 0 =< Len(previous)
      BY <2>2
    <3> HIDE DEF k
    <3> QED BY <3>1
  <2> QED BY <2>1, <2>2
<1> HIDE DEF k
<1>6. Resumes(previous, current, k)
  BY <1>2, <1>3 DEF Resumes
<1>4. \A p \in ToSet(TerminalDelta(previous, current)) :
         \E j \in (k + 1)..Len(current) : p = current[j]
  BY <1>1, <1>6, DeltaIsNew
<1>5. ASSUME NEW p \in ToSet(TerminalDelta(previous, current))
      PROVE  \E j \in (m + 1)..n : p = output[j]
  <2>1. PICK j \in (k + 1)..Len(current) : p = current[j]
    BY <1>4
  <2>2. start + j \in (m + 1)..n /\ j \in 1..(n - start)
    BY <1>0, <1>1, <1>2
  <2> QED BY <1>1, <2>1, <2>2
<1> QED BY <1>5 DEF current

-----------------------------------------------------------------------------
(* What each event does to the state of the turn                             *)

LEMMA CountedIs ==
  ASSUME NEW s, SeenOK(s), NEW pieces, ToSet(pieces) \in SUBSET Pieces,
         ToSet(pieces) \cap s.counted = {}
  PROVE  LET t == Counted(s, pieces)
         IN  /\ SeenOK(t) /\ t.counted = s.counted \cup ToSet(pieces)
             /\ t.byIndex = s.byIndex /\ t.byId = s.byId /\ t.terminal = s.terminal
             /\ t.idOf = s.idOf /\ t.thinking = s.thinking
<1> DEFINE new == ToSet(pieces)
           t == Counted(s, pieces)
<1>1. (s.twice \/ new \cap s.counted # {}) = FALSE
  BY DEF SeenOK
<1>2. t = [[s EXCEPT !.counted = s.counted \cup new]
              EXCEPT !.twice = s.twice \/ new \cap s.counted # {}]
  BY DEF Counted, SeenOK, IsState
<1> HIDE DEF new, t
<1>3. t = [[s EXCEPT !.counted = s.counted \cup new] EXCEPT !.twice = FALSE]
  BY <1>1, <1>2
<1>4. /\ t.counted = s.counted \cup new /\ t.twice = FALSE
      /\ t.byIndex = s.byIndex /\ t.byId = s.byId /\ t.terminal = s.terminal
      /\ t.idOf = s.idOf /\ t.thinking = s.thinking
      /\ IsState(t)
  BY <1>3 DEF SeenOK, IsState
<1>5. SeenOK(t)
  BY <1>4 DEF SeenOK, new
<1> QED BY <1>4, <1>5 DEF t, new

LEMMA SetIs ==
  ASSUME NEW f, NEW x, NEW v
  PROVE  /\ DOMAIN Set(f, x, v) = DOMAIN f \cup {x} /\ Set(f, x, v)[x] = v
         /\ \A y \in DOMAIN f : y # x => Set(f, x, v)[y] = f[y]
BY DEF Set

LEMMA AtIs ==
  ASSUME NEW f, NEW x, NEW T, \A y \in DOMAIN f : f[y] \in Seq(T)
  PROVE  At(f, x) \in Seq(T)
BY DEF At

(* Events that count nothing leave what the invariants are about alone.      *)
Heard(t, s) == t.counted = s.counted /\ t.terminal = s.terminal

LEMMA ObserveTextIs ==
  ASSUME NEW s, SeenOK(s), NEW b
  PROVE  LET t == [s EXCEPT !.thinking = b]
         IN  SeenOK(t) /\ Heard(t, s) /\ t.byIndex = s.byIndex /\ t.byId = s.byId
<1> DEFINE t == [s EXCEPT !.thinking = b]
<1>1. /\ Heard(t, s) /\ t.byIndex = s.byIndex /\ t.byId = s.byId /\ t.twice = s.twice
      /\ IsState(t)
  BY DEF SeenOK, Heard, IsState
<1> HIDE DEF t
<1>2. SeenOK(t)
  BY <1>1 DEF SeenOK, Heard
<1> QED BY <1>1, <1>2 DEF t

LEMMA ObserveStartedIs ==
  ASSUME NEW s, SeenOK(s), NEW i, NEW id
  PROVE  LET t == ObserveStarted(s, i, id)
         IN  SeenOK(t) /\ Heard(t, s) /\ t.byIndex = s.byIndex
<1> DEFINE t == ObserveStarted(s, i, id)
           a == Set(s.idOf, i, id)
           b == IF i \in DOMAIN s.byIndex THEN Set(s.byId, id, s.byIndex[i]) ELSE s.byId
<1>1. t = [[s EXCEPT !.idOf = a] EXCEPT !.byId = b]
  BY DEF ObserveStarted, SeenOK, IsState
<1> HIDE DEF t, a, b
<1>2. /\ Heard(t, s) /\ t.byIndex = s.byIndex /\ t.twice = s.twice
      /\ IsState(t)
  BY <1>1 DEF SeenOK, Heard, IsState
<1>3. SeenOK(t)
  BY <1>2 DEF SeenOK, Heard
<1> QED BY <1>2, <1>3 DEF t

LEMMA ObserveArgumentsIs ==
  ASSUME NEW s, SeenOK(s), NEW i, NEW piece \in Pieces, piece \notin s.counted
  PROVE  LET t == ObserveArguments(s, i, piece)
         IN  /\ SeenOK(t) /\ t.counted = s.counted \cup {piece} /\ t.terminal = s.terminal
             /\ DOMAIN t.byIndex = DOMAIN s.byIndex \cup {i}
<1> DEFINE args == Append(At(s.byIndex, i), piece)
           a == Set(s.byIndex, i, args)
           b == IF i \in DOMAIN s.idOf THEN Set(s.byId, s.idOf[i], args) ELSE s.byId
           v == [s EXCEPT !.thinking = FALSE]
           w == [v EXCEPT !.byIndex = a]
           u == [w EXCEPT !.byId = b]
           one == <<piece>>
           t == Counted(u, one)
<1>1. t = ObserveArguments(s, i, piece)
  BY DEF ObserveArguments, SeenOK, IsState
<1>2. DOMAIN a = DOMAIN s.byIndex \cup {i}
  <2> HIDE DEF args
  <2> QED BY SetIs
<1>3. ToSet(one) = {piece}
  <2>1. DOMAIN one = {1} /\ one[1] = piece
    OBVIOUS
  <2> HIDE DEF one
  <2> QED BY <2>1 DEF ToSet
<1> HIDE DEF a, b, args, one
<1>8. Heard(v, s) /\ v.byIndex = s.byIndex /\ v.byId = s.byId /\ v.twice = s.twice /\ IsState(v)
  BY ObserveTextIs DEF SeenOK
<1> HIDE DEF v
<1>9. Heard(w, v) /\ w.byIndex = a /\ w.byId = v.byId /\ w.twice = v.twice /\ IsState(w)
  BY <1>8 DEF Heard, IsState
<1> HIDE DEF w
<1>10. Heard(u, w) /\ u.byIndex = w.byIndex /\ u.twice = w.twice /\ IsState(u)
  BY <1>9 DEF Heard, IsState
<1>4. Heard(u, s) /\ u.byIndex = a /\ u.twice = s.twice /\ IsState(u)
  BY <1>8, <1>9, <1>10 DEF Heard
<1> HIDE DEF u, t
<1>5. SeenOK(u) /\ u.counted = s.counted /\ u.terminal = s.terminal
  BY <1>4 DEF SeenOK, Heard
<1>6. ToSet(one) \in SUBSET Pieces /\ ToSet(one) \cap u.counted = {}
  BY <1>3, <1>5
<1>7. /\ SeenOK(t) /\ t.counted = u.counted \cup {piece} /\ t.terminal = u.terminal
      /\ t.byIndex = u.byIndex
  BY <1>3, <1>5, <1>6, CountedIs DEF t
<1> QED BY <1>1, <1>2, <1>4, <1>5, <1>7

LEMMA ObserveSnapshotIs ==
  ASSUME NEW s, SeenOK(s), NEW id, NEW output \in Seq(Pieces),
         ToSet(TerminalDelta(At(s.terminal, id), output)) \cap s.counted = {}
  PROVE  LET t == ObserveSnapshot(s, id, output)
         IN  /\ SeenOK(t) /\ t.byId = s.byId
             /\ t.counted = s.counted \cup ToSet(TerminalDelta(At(s.terminal, id), output))
             /\ t.terminal = Set(s.terminal, id, output)
<1> DEFINE delta == TerminalDelta(At(s.terminal, id), output)
           u == Counted(s, delta)
           a == Set(u.terminal, id, output)
           t == ObserveSnapshot(s, id, output)
<1>1. At(s.terminal, id) \in Seq(Pieces)
  BY AtIs DEF SeenOK
<1>2. \A p \in ToSet(delta) : \E j \in 1..Len(output) : p = output[j]
  BY <1>1, DeltaIsCurrent
<1>3. t = [u EXCEPT !.terminal = a]
  BY DEF ObserveSnapshot
<1> HIDE DEF delta
<1>4. \A j \in 1..Len(output) : output[j] \in Pieces
  OBVIOUS
<1>5. ToSet(delta) \in SUBSET Pieces /\ ToSet(delta) \cap s.counted = {}
  BY <1>2, <1>4 DEF delta
<1>6. /\ SeenOK(u) /\ u.counted = s.counted \cup ToSet(delta)
      /\ u.byIndex = s.byIndex /\ u.byId = s.byId /\ u.terminal = s.terminal
  BY <1>5, CountedIs
<1>7. /\ DOMAIN a = DOMAIN s.terminal \cup {id} /\ a[id] = output
      /\ \A y \in DOMAIN s.terminal : y # id => a[y] = s.terminal[y]
  <2> DEFINE old == s.terminal
  <2>1. a = Set(old, id, output)
    BY <1>6
  <2> HIDE DEF a, old
  <2>2. /\ DOMAIN a = DOMAIN old \cup {id} /\ a[id] = output
        /\ \A y \in DOMAIN old : y # id => a[y] = old[y]
    BY <2>1 DEF Set
  <2> QED BY <2>2 DEF old
<1> HIDE DEF u, a, t
<1>8. /\ t.counted = u.counted /\ t.byId = u.byId /\ t.terminal = a /\ t.twice = u.twice
      /\ IsState(t)
  BY <1>3, <1>6 DEF SeenOK, IsState
<1>9. \A x \in DOMAIN a : a[x] \in Seq(Pieces)
  BY <1>7 DEF SeenOK
<1>10. SeenOK(t)
  BY <1>6, <1>8, <1>9 DEF SeenOK
<1>11. a = Set(s.terminal, id, output)
  BY <1>6 DEF a
<1> QED BY <1>6, <1>8, <1>10, <1>11 DEF t, delta

LEMMA ObserveCompletedIs ==
  ASSUME NEW s, SeenOK(s), NEW i, NEW id, NEW args, ToSet(args) \in SUBSET Pieces,
         i \notin DOMAIN s.byIndex /\ id \notin DOMAIN s.byId => ToSet(args) \cap s.counted = {}
  PROVE  LET t == ObserveCompleted(s, i, id, args)
         IN  /\ SeenOK(t) /\ t.terminal = s.terminal
             /\ DOMAIN s.byIndex \subseteq DOMAIN t.byIndex
             /\ DOMAIN s.byId \cup {id} \subseteq DOMAIN t.byId
             /\ \/ t.counted = s.counted
                \/ /\ i \notin DOMAIN s.byIndex /\ id \notin DOMAIN s.byId
                   /\ t.counted = s.counted \cup ToSet(args)
<1> DEFINE t == ObserveCompleted(s, i, id, args)
           idOf == Set(s.idOf, i, id)
           known == [s EXCEPT !.idOf = idOf]
<1>1. /\ Heard(known, s) /\ known.byIndex = s.byIndex /\ known.byId = s.byId
      /\ known.twice = s.twice /\ IsState(known)
  <2> HIDE DEF idOf
  <2> QED BY DEF SeenOK, Heard, IsState
<1>2. CASE id \in DOMAIN s.byId
  <2> DEFINE a == IF i \in DOMAIN s.byIndex THEN s.byIndex ELSE Set(s.byIndex, i, s.byId[id])
  <2>1. t = [known EXCEPT !.byIndex = a]
    <3>1. t = [known EXCEPT !.byIndex = IF i \in DOMAIN @ THEN @ ELSE Set(@, i, s.byId[id])]
      BY <1>2 DEF ObserveCompleted
    <3> HIDE DEF known
    <3> QED BY <1>1, <3>1
  <2>2. DOMAIN s.byIndex \subseteq DOMAIN a
    BY DEF Set
  <2> HIDE DEF known, a, t
  <2>3. /\ Heard(t, known) /\ t.byIndex = a /\ t.byId = known.byId /\ t.twice = known.twice
        /\ IsState(t)
    BY <1>1, <2>1 DEF Heard, IsState
  <2>4. SeenOK(t)
    BY <1>1, <2>3 DEF SeenOK, Heard
  <2> QED BY <1>1, <1>2, <2>2, <2>3, <2>4 DEF Heard, t
<1>3. CASE id \notin DOMAIN s.byId /\ i \in DOMAIN s.byIndex
  <2> DEFINE b == Set(s.byId, id, s.byIndex[i])
  <2>1. t = [known EXCEPT !.byId = b]
    <3>1. t = [known EXCEPT !.byId = Set(@, id, s.byIndex[i])]
      BY <1>3 DEF ObserveCompleted
    <3> HIDE DEF known
    <3> QED BY <1>1, <3>1
  <2>2. DOMAIN b = DOMAIN s.byId \cup {id}
    BY SetIs
  <2> HIDE DEF known, b, t
  <2>3. /\ Heard(t, known) /\ t.byId = b /\ t.byIndex = known.byIndex /\ t.twice = known.twice
        /\ IsState(t)
    BY <1>1, <2>1 DEF Heard, IsState
  <2>4. SeenOK(t)
    BY <1>1, <2>3 DEF SeenOK, Heard
  <2> QED BY <1>1, <2>2, <2>3, <2>4 DEF Heard, t
<1>4. CASE id \notin DOMAIN s.byId /\ i \notin DOMAIN s.byIndex
  <2> DEFINE a == Set(s.byIndex, i, args)
             b == Set(s.byId, id, args)
             v == [known EXCEPT !.thinking = FALSE]
             w == [v EXCEPT !.byIndex = a]
             u == [w EXCEPT !.byId = b]
  <2>1. t = Counted(u, args)
    <3>1. t = Counted([known EXCEPT !.thinking = FALSE, !.byIndex = Set(@, i, args),
                                    !.byId = Set(@, id, args)], args)
      BY <1>4 DEF ObserveCompleted
    <3> HIDE DEF known
    <3>2. [known EXCEPT !.thinking = FALSE, !.byIndex = Set(@, i, args),
                        !.byId = Set(@, id, args)]
          = [known EXCEPT !.thinking = FALSE, !.byIndex = a, !.byId = b]
      BY <1>1 DEF IsState
    <3>3. [known EXCEPT !.thinking = FALSE, !.byIndex = a, !.byId = b] = u
      <4> HIDE DEF a, b
      <4> QED BY <1>1 DEF IsState
    <3> QED BY <3>1, <3>2, <3>3
  <2>2. DOMAIN a = DOMAIN s.byIndex \cup {i} /\ DOMAIN b = DOMAIN s.byId \cup {id}
    BY SetIs
  <2> HIDE DEF known, a, b, t
  <2>3. Heard(v, known) /\ v.twice = known.twice /\ IsState(v)
    <3>1. SeenOK(known)
      BY <1>1 DEF SeenOK, Heard
    <3> QED BY <3>1, ObserveTextIs DEF SeenOK
  <2> HIDE DEF v
  <2>4. Heard(w, v) /\ w.byIndex = a /\ w.twice = v.twice /\ IsState(w)
    BY <2>3 DEF Heard, IsState
  <2> HIDE DEF w
  <2>5. Heard(u, w) /\ u.byIndex = w.byIndex /\ u.byId = b /\ u.twice = w.twice /\ IsState(u)
    BY <2>4 DEF Heard, IsState
  <2> HIDE DEF u
  <2>6. SeenOK(u) /\ u.counted = s.counted /\ u.terminal = s.terminal
    BY <1>1, <2>3, <2>4, <2>5 DEF SeenOK, Heard
  <2>7. /\ SeenOK(t) /\ t.counted = s.counted \cup ToSet(args) /\ t.terminal = u.terminal
        /\ t.byIndex = u.byIndex /\ t.byId = u.byId
    BY <1>4, <2>1, <2>6, CountedIs
  <2> QED BY <1>4, <2>2, <2>4, <2>5, <2>6, <2>7 DEF t
<1> QED BY <1>2, <1>3, <1>4

(* The calls of a response, as the counters meet them when it is complete:   *)
(* one to an index, and arguments that came in are counted.                  *)
Complete(s, final) ==
  \A k \in DOMAIN final :
    /\ \A m \in DOMAIN final : final[m].index = final[k].index => m = k
    /\ \/ final[k].index \in DOMAIN s.byIndex
       \/ /\ final[k].args = <<Piece("args", final[k].index, 0)>>
          /\ Piece("args", final[k].index, 0) \notin s.counted

Filled(s, final, t, k) ==
  /\ SeenOK(t) /\ t.terminal = s.terminal /\ DOMAIN s.byIndex \subseteq DOMAIN t.byIndex
  /\ \A j \in DOMAIN final : j =< k => final[j].id \in DOMAIN t.byId
  /\ \A p \in t.counted :
       p \in s.counted \/ \E j \in DOMAIN final : j =< k /\ p = Piece("args", final[j].index, 0)

LEMMA AllCompletedIs ==
  ASSUME NEW s, SeenOK(s), NEW final \in Seq(Calls), Complete(s, final)
  PROVE  LET t == AllCompleted(s, final)
         IN  /\ SeenOK(t) /\ t.terminal = s.terminal
             /\ \A j \in DOMAIN final : final[j].id \in DOMAIN t.byId
             /\ \A p \in t.counted :
                  p \in s.counted \/ \E j \in DOMAIN final : p = Piece("args", final[j].index, 0)
<1> DEFINE L == Len(final)
           flat == Flat(final)
           both == final \o flat
<1>1. L \in Nat /\ DOMAIN final = 1..L /\ \A k \in 1..L : final[k] \in Calls
  OBVIOUS
<1>2. flat \in Seq(Calls) /\ Len(flat) = L
      /\ \A k \in 1..L : flat[k].id = final[k].id /\ flat[k].args = final[k].args
  <2>4. flat = [k \in DOMAIN final |-> [final[k] EXCEPT !.index = k - 1]]
    BY DEF Flat
  <2>1. \A k \in 1..L : [final[k] EXCEPT !.index = k - 1] \in Calls
    <3> TAKE k \in 1..L
    <3>1. final[k] \in Calls /\ k - 1 \in Nat
      BY <1>1
    <3> QED BY <3>1 DEF Calls
  <2>2. \A k \in 1..L : /\ flat[k] \in Calls /\ flat[k].id = final[k].id
                        /\ flat[k].args = final[k].args
    <3> TAKE k \in 1..L
    <3>1. final[k] \in Calls /\ flat[k] = [final[k] EXCEPT !.index = k - 1]
      BY <1>1, <2>4
    <3> HIDE DEF flat
    <3> QED BY <2>1, <3>1 DEF Calls
  <2>3. flat = [k \in 1..L |-> flat[k]]
    BY <1>1, <2>4
  <2> HIDE DEF flat, L
  <2> QED BY <1>1, <2>2, <2>3
<1> HIDE DEF flat, L
<1>3. /\ Len(both) = L + L /\ Len(both) \in Nat
      /\ \A k \in 1..L : both[k] = final[k]
      /\ \A k \in 1..L : both[L + k] = flat[k]
  BY <1>1, <1>2, SMTT(30) DEF L
<1>4. PICK f : Meets(f, s, both) /\ AllCompleted(s, final) = f[Len(both)]
  <2>2. both = final \o Flat(final) /\ Len(both) \in Nat
    BY <1>3 DEF flat
  <2> HIDE DEF both
  <2> QED BY <2>2, CompletedIs
<1> HIDE DEF both
<1> DEFINE n == Len(both)
           D == {k \in 0..n : Filled(s, final, f[k], k)}
<1>5. 0 \in D
  <2>1. Filled(s, final, s, 0)
    BY <1>1 DEF Filled
  <2> QED BY <1>3, <1>4, <2>1 DEF Meets
<1>6. ASSUME NEW k \in 0..n, k < n, k \in D PROVE k + 1 \in D
  <2> DEFINE c == both[k + 1]
             before == f[k]
             t == f[k + 1]
             own == ToSet(c.args)
  <2>1. k + 1 \in 1..n /\ k + 1 \in 0..n /\ (k + 1) - 1 = k /\ k \in Nat
    BY <1>3, <1>6
  <2>2. t = ObserveCompleted(before, c.index, c.id, c.args)
    BY <1>4, <2>1 DEF Meets
  <2>3. Filled(s, final, before, k)
    BY <1>6
  <2>4. c \in Calls
    <3>1. CASE k + 1 \in 1..L
      BY <1>1, <1>3, <3>1
    <3>2. CASE k + 1 \notin 1..L
      <4>1. (k + 1) - L \in 1..L /\ L + ((k + 1) - L) = k + 1
        BY <1>1, <1>3, <2>1, <3>2
      <4>2. both[k + 1] = flat[(k + 1) - L]
        BY <1>3, <4>1
      <4> QED BY <1>2, <4>1, <4>2
    <3> QED BY <3>1, <3>2
  <2>5. own \in SUBSET Pieces
    <3>1. c.args \in Seq(Pieces)
      BY <2>4 DEF Calls
    <3> DEFINE args == c.args
    <3> HIDE DEF args
    <3>2. \A j \in DOMAIN args : args[j] \in Pieces
      BY <3>1 DEF args
    <3> QED BY <3>2 DEF ToSet, args
  <2> HIDE DEF c, before, t
  <2>6. CASE k + 1 \in 1..L
    <3> DEFINE i == c.index
               new == Piece("args", i, 0)
    <3>1. c = final[k + 1] /\ k + 1 \in DOMAIN final
      BY <1>1, <1>3, <2>6 DEF c
    <3>2. i \notin DOMAIN before.byIndex => c.args = <<new>> /\ new \notin s.counted
      BY <2>3, <3>1 DEF Complete, Filled
    <3> DEFINE args == c.args
    <3>3. args = <<new>> => ToSet(args) = {new}
      <4> HIDE DEF args, new
      <4> SUFFICES ASSUME args = <<new>> PROVE ToSet(args) = {new}
        OBVIOUS
      <4>1. DOMAIN args = {1} /\ args[1] = new
        OBVIOUS
      <4> QED BY <4>1 DEF ToSet
    <3>4. ASSUME new \in before.counted PROVE new \in s.counted
      <4>1. CASE new \in s.counted
        BY <4>1
      <4>2. CASE \E j \in DOMAIN final : j =< k /\ new = Piece("args", final[j].index, 0)
        <5>1. PICK j \in DOMAIN final : j =< k /\ new = Piece("args", final[j].index, 0)
          BY <4>2
        <5>2. new.at = i /\ Piece("args", final[j].index, 0).at = final[j].index
          BY DEF Piece
        <5>3. final[j].index = final[k + 1].index
          BY <3>1, <5>1, <5>2
        <5>4. j = k + 1
          BY <3>1, <5>3 DEF Complete
        <5> QED BY <2>1, <5>1, <5>4
      <4> QED BY <2>3, <3>4, <4>1, <4>2 DEF Filled
    <3> HIDE DEF new
    <3>5. i \notin DOMAIN before.byIndex /\ c.id \notin DOMAIN before.byId
            => own \cap before.counted = {}
      BY <3>2, <3>3, <3>4
    <3>6. SeenOK(before)
      BY <2>3 DEF Filled
    <3> HIDE DEF own, i, args
    <3>7. /\ SeenOK(t) /\ t.terminal = before.terminal
          /\ DOMAIN before.byIndex \subseteq DOMAIN t.byIndex
          /\ DOMAIN before.byId \cup {c.id} \subseteq DOMAIN t.byId
          /\ \/ t.counted = before.counted
             \/ i \notin DOMAIN before.byIndex /\ t.counted = before.counted \cup own
      BY <2>2, <2>5, <3>5, <3>6, ObserveCompletedIs DEF own, i
    <3>8. \A p \in t.counted : p \in before.counted \/ p = new
      BY <3>2, <3>3, <3>7 DEF own, args
    <3>9. \A j \in DOMAIN final : j =< k + 1 => final[j].id \in DOMAIN t.byId
      <4> TAKE j \in DOMAIN final
      <4> HAVE j =< k + 1
      <4>1. CASE j = k + 1
        BY <3>1, <3>7, <4>1
      <4>2. CASE j # k + 1
        <5>1. j =< k
          BY <1>1, <2>1, <4>2
        <5>2. final[j].id \in DOMAIN before.byId
          BY <2>3, <5>1 DEF Filled
        <5> QED BY <3>7, <5>2
      <4> QED BY <4>1, <4>2
    <3>10. ASSUME NEW p \in t.counted
           PROVE  p \in s.counted
                    \/ \E j \in DOMAIN final : j =< k + 1 /\ p = Piece("args", final[j].index, 0)
      <4>1. CASE p \in before.counted
        <5>1. CASE p \in s.counted
          BY <5>1
        <5>2. CASE \E j \in DOMAIN final : j =< k /\ p = Piece("args", final[j].index, 0)
          <6>1. PICK j \in DOMAIN final : j =< k /\ p = Piece("args", final[j].index, 0)
            BY <5>2
          <6>2. j =< k + 1
            BY <1>1, <2>1, <6>1
          <6> QED BY <6>1, <6>2
        <5> QED BY <2>3, <4>1, <5>1, <5>2 DEF Filled
      <4>2. CASE p = new
        <5>1. p = Piece("args", final[k + 1].index, 0) /\ k + 1 =< k + 1
          BY <2>1, <3>1, <4>2 DEF new, i
        <5> QED BY <3>1, <5>1
      <4> QED BY <3>8, <4>1, <4>2
    <3>11. Filled(s, final, t, k + 1)
      BY <2>3, <3>7, <3>9, <3>10 DEF Filled
    <3> QED BY <2>1, <3>11 DEF t
  <2>7. CASE k + 1 \notin 1..L
    <3> DEFINE m == (k + 1) - L
    <3>1. m \in 1..L /\ L + m = k + 1 /\ L =< k
      BY <1>1, <1>3, <2>1, <2>7
    <3> HIDE DEF m
    <3>7. c = flat[m]
      BY <1>3, <3>1 DEF c
    <3>2. c.id = final[m].id /\ m \in DOMAIN final /\ m =< k
      BY <1>1, <1>2, <2>1, <3>1, <3>7
    <3>3. c.id \in DOMAIN before.byId /\ SeenOK(before)
      BY <2>3, <3>2 DEF Filled
    <3> HIDE DEF own
    <3>4. /\ SeenOK(t) /\ t.terminal = before.terminal
          /\ DOMAIN before.byIndex \subseteq DOMAIN t.byIndex
          /\ DOMAIN before.byId \cup {c.id} \subseteq DOMAIN t.byId
          /\ t.counted = before.counted
      BY <2>2, <2>5, <3>3, ObserveCompletedIs DEF own
    <3>5. \A j \in DOMAIN final : j =< k /\ j =< k + 1
      BY <1>1, <2>1, <3>1
    <3>6. Filled(s, final, t, k + 1)
      BY <2>3, <3>4, <3>5 DEF Filled
    <3> QED BY <2>1, <3>6 DEF t
  <2> QED BY <2>6, <2>7
<1> HIDE DEF D
<1>7. n \in D
  <2>1. \A k \in 0..n : k < n /\ k \in D => k + 1 \in D
    BY <1>6
  <2> HIDE DEF n
  <2>2. n \in Nat /\ n \in 0..n
    BY <1>3 DEF n
  <2> QED BY <1>5, <2>1, <2>2, InductionUpTo
<1>8. Filled(s, final, f[n], n)
  BY <1>7 DEF D
<1>9. \A j \in DOMAIN final : j =< n
  BY <1>1, <1>3
<1> QED BY <1>4, <1>8, <1>9 DEF Filled

(* A piece knows where it belongs.                                           *)
LEMMA PieceIs ==
  ASSUME toolTurns \in Nat, NEW of \in {"text", "args", "output", "diff"}, NEW at \in Nat,
         NEW n \in Nat
  PROVE  /\ Piece(of, at, n) \in Pieces /\ Piece(of, at, n).turn = toolTurns
         /\ Piece(of, at, n).of = of /\ Piece(of, at, n).at = at /\ Piece(of, at, n).n = n
BY DEF Piece, Pieces

-----------------------------------------------------------------------------
(* The calls of a response when it is complete                               *)

LEMMA FinalCallsAre ==
  ASSUME NEW a, AccOK(a), toolTurns \in Nat
  PROVE  LET final == FinalCalls(a)
         IN  /\ final \in Seq(Calls)
             /\ \A k \in DOMAIN final :
                  /\ final[k].index \in DOMAIN a.partials
                  /\ final[k].id = a.partials[final[k].index].id
                  /\ final[k].args = FinalArguments(a, final[k].index)
                  /\ \A m \in DOMAIN final : final[m].index = final[k].index => m = k
<1> DEFINE final == FinalCalls(a)
           S == DOMAIN a.partials
           at == Ascending(S)
           n == Cardinality(S)
           rank(i) == Cardinality({j \in S : j < i})
<1>1. S \in SUBSET Nat /\ IsFiniteSet(S)
  BY DEF AccOK
<1>2. /\ n \in Nat /\ DOMAIN at = 1..n
      /\ \A k \in 1..n : at[k] \in S /\ rank(at[k]) = k - 1
  <2> HIDE DEF S
  <2> QED BY <1>1, AscendingIs
<1>3. final = [k \in 1..n |-> [index |-> at[k], id |-> a.partials[at[k]].id,
                               args |-> FinalArguments(a, at[k])]]
  BY <1>2 DEF FinalCalls, Indexed
<1> HIDE DEF at, final, n, rank
<1>4. ASSUME NEW k \in 1..n
      PROVE  /\ final[k].index = at[k] /\ at[k] \in S /\ final[k].id = a.partials[at[k]].id
             /\ final[k].args = FinalArguments(a, at[k]) /\ final[k] \in Calls
  <2>1. at[k] \in S /\ at[k] \in Nat
    BY <1>1, <1>2
  <2>2. a.partials[at[k]] \in Partials
    BY <2>1 DEF AccOK
  <2>3. FinalArguments(a, at[k]) \in Seq(Pieces)
    <3>1. Piece("args", at[k], 0) \in Pieces
      BY <2>1, PieceIs
    <3>2. <<Piece("args", at[k], 0)>> \in Seq(Pieces)
      BY <3>1
    <3>3. a.partials[at[k]].args \in Seq(Pieces)
      BY <2>2 DEF Partials
    <3> QED BY <3>2, <3>3 DEF FinalArguments
  <2> DEFINE i == at[k]
             id == a.partials[i].id
             args == FinalArguments(a, i)
  <2>4. id \in CallIds \cup {NoId}
    BY <2>2 DEF Partials
  <2>5. final[k] = [index |-> i, id |-> id, args |-> args]
    BY <1>3
  <2>6. i \in Nat /\ args \in Seq(Pieces)
    BY <2>1, <2>3
  <2> HIDE DEF i, id, args
  <2>7. final[k] \in Calls /\ final[k].index = i /\ final[k].id = id /\ final[k].args = args
    BY <2>4, <2>5, <2>6 DEF Calls
  <2> QED BY <2>1, <2>7 DEF i, id, args
<1>5. DOMAIN final = 1..n /\ final = [k \in 1..n |-> final[k]]
  BY <1>3
<1>6. final \in Seq(Calls)
  BY <1>2, <1>4, <1>5
<1>7. ASSUME NEW k \in 1..n, NEW m \in 1..n, final[m].index = final[k].index PROVE m = k
  <2>1. at[m] = at[k]
    BY <1>4, <1>7
  <2>2. rank(at[m]) = m - 1 /\ rank(at[k]) = k - 1
    BY <1>2
  <2>3. m - 1 = k - 1
    BY <2>1, <2>2
  <2> QED BY <1>2, <2>3
<1> QED BY <1>4, <1>5, <1>6, <1>7 DEF final

-----------------------------------------------------------------------------
(* The text that is stored of a response                                     *)

LEMMA StoresType ==
  ASSUME NEW f, NEW text, NEW places, Stores(f, text, places), Len(places) \in Nat,
         \A k \in 1..Len(places) : text[places[k]] \in Seq(Pieces)
  PROVE  \A k \in 0..Len(places) : f[k] \in Seq(Pieces)
<1> DEFINE n == Len(places)
           D == {k \in 0..n : f[k] \in Seq(Pieces)}
<1>0. n \in Nat /\ n \in 0..n /\ 0 \in 0..n
  OBVIOUS
<1>1. 0 \in D
  <2>1. f[0] = <<>>
    BY DEF Stores
  <2>2. <<>> \in Seq(Pieces)
    BY EmptySeq
  <2>3. f[0] \in Seq(Pieces)
    BY <2>1, <2>2
  <2> QED BY <1>0, <2>3
<1>2. ASSUME NEW k \in 0..n, k < n, k \in D PROVE k + 1 \in D
  <2>1. k + 1 \in 1..n /\ k + 1 \in 0..n /\ (k + 1) - 1 = k
    BY <1>0, <1>2
  <2>2. f[k + 1] = f[k] \o text[places[k + 1]]
    BY <2>1 DEF Stores
  <2>3. text[places[k + 1]] \in Seq(Pieces) /\ f[k] \in Seq(Pieces)
    BY <1>2, <2>1
  <2> DEFINE u == f[k]
             v == text[places[k + 1]]
  <2>4. u \in Seq(Pieces) /\ v \in Seq(Pieces) /\ f[k + 1] = u \o v
    BY <2>2, <2>3
  <2> HIDE DEF u, v
  <2>5. u \o v \in Seq(Pieces)
    BY <2>4
  <2>6. f[k + 1] \in Seq(Pieces)
    BY <2>4, <2>5
  <2> QED BY <2>1, <2>6
<1> HIDE DEF D, n
<1>3. \A k \in 0..n : k < n /\ k \in D => k + 1 \in D
  BY <1>2
<1>4. \A k \in 0..n : k \in D
  BY <1>0, <1>1, <1>3, InductionUpTo
<1> QED BY <1>4 DEF D, n

LEMMA StoresAgree ==
  ASSUME NEW f, NEW g, NEW t, NEW u, NEW p, NEW q, Stores(f, t, p), Stores(g, u, q),
         NEW n \in Nat, Len(p) \in Nat, Len(q) \in Nat, n =< Len(p), n =< Len(q),
         \A k \in 1..n : t[p[k]] = u[q[k]]
  PROVE  f[n] = g[n]
<1> DEFINE D == {k \in 0..n : f[k] = g[k]}
<1>1. 0 \in D
  BY DEF Stores
<1>2. ASSUME NEW k \in 0..n, k < n, k \in D PROVE k + 1 \in D
  <2>1. /\ k + 1 \in 1..n /\ k + 1 \in 0..n /\ (k + 1) - 1 = k
        /\ k + 1 \in 1..Len(p) /\ k + 1 \in 1..Len(q)
    BY <1>2
  <2>2. f[k + 1] = f[k] \o t[p[k + 1]]
    BY <2>1 DEF Stores
  <2>3. g[k + 1] = g[k] \o u[q[k + 1]]
    BY <2>1 DEF Stores
  <2>4. t[p[k + 1]] = u[q[k + 1]] /\ f[k] = g[k]
    BY <1>2, <2>1
  <2> QED BY <2>1, <2>2, <2>3, <2>4
<1> HIDE DEF D
<1>3. \A k \in 0..n : k < n /\ k \in D => k + 1 \in D
  BY <1>2
<1>4. n \in 0..n
  OBVIOUS
<1>5. n \in D
  BY <1>1, <1>3, <1>4, InductionUpTo
<1> QED BY <1>5 DEF D

LEMMA StoredSame ==
  ASSUME NEW a, NEW b, AccOK(a), b.text = a.text
  PROVE  StoredText(b) = StoredText(a)
<1> DEFINE S == DOMAIN a.text
           p == Ascending(S)
           n == Len(p)
<1>1. S \in SUBSET Nat /\ IsFiniteSet(S)
  BY DEF AccOK
<1>2. n \in Nat
  <2> HIDE DEF S
  <2> QED BY <1>1, AscendingIs
<1>3. p = Ascending(DOMAIN b.text)
  OBVIOUS
<1> HIDE DEF p
<1>4. PICK f : Stores(f, a.text, p) /\ StoredText(a) = f[n]
  BY <1>2, StoredIs DEF p
<1>5. PICK g : Stores(g, b.text, p) /\ StoredText(b) = g[n]
  BY <1>2, <1>3, StoredIs
<1> DEFINE t == a.text
           u == b.text
<1>6. Stores(f, t, p) /\ Stores(g, u, p) /\ t = u
  BY <1>4, <1>5
<1> HIDE DEF t, u
<1>7. n =< Len(p) /\ \A k \in 1..n : t[p[k]] = u[p[k]]
  BY <1>2, <1>6
<1>8. f[n] = g[n]
  BY <1>2, <1>6, <1>7, StoresAgree
<1> QED BY <1>4, <1>5, <1>8

LEMMA StoredAppend ==
  ASSUME NEW a, AccOK(a), NEW i \in Nat, \A j \in DOMAIN a.text : j =< i, NEW piece \in Pieces,
         NEW b, b.text = Set(a.text, i, Append(At(a.text, i), piece))
  PROVE  StoredText(b) = Append(StoredText(a), piece)
<1> DEFINE t == a.text
           u == b.text
           S == DOMAIN t
           p == Ascending(S)
           q == Ascending(DOMAIN u)
           n == Cardinality(S)
<1>1. S \in SUBSET Nat /\ IsFiniteSet(S) /\ \A j \in S : t[j] \in Seq(Pieces)
  BY DEF AccOK
<1>2. /\ DOMAIN u = S \cup {i} /\ u[i] = Append(At(t, i), piece)
      /\ \A j \in S : j # i => u[j] = t[j]
  BY DEF Set
<1>3. \A j \in S : j =< i
  OBVIOUS
<1> HIDE DEF S
<1>4. n \in Nat /\ Len(p) = n /\ \A k \in 1..n : p[k] \in S
  BY <1>1, AscendingIs
<1>5. i \notin S => /\ Len(q) = n + 1 /\ q[n + 1] = i
                    /\ \A k \in 1..n : q[k] = p[k]
  <2> SUFFICES ASSUME i \notin S
               PROVE  Len(q) = n + 1 /\ q[n + 1] = i /\ \A k \in 1..n : q[k] = p[k]
    OBVIOUS
  <2>1. \A j \in S : j < i
    <3> TAKE j \in S
    <3>1. j \in Nat /\ j # i /\ j =< i
      BY <1>1, <1>3
    <3> QED BY <3>1
  <2> HIDE DEF n
  <2>2. q = Ascending(S \cup {i})
    BY <1>2
  <2> QED BY <1>1, <2>1, <2>2, AscendingGrows DEF n
<1>6. i \in S => /\ q = p /\ n \in Nat \ {0} /\ p[n] = i
                 /\ \A k \in 1..n : k < n => p[k] # i
  <2> SUFFICES ASSUME i \in S
               PROVE  /\ q = p /\ n \in Nat \ {0} /\ p[n] = i
                      /\ \A k \in 1..n : k < n => p[k] # i
    OBVIOUS
  <2>1. DOMAIN u = S
    BY <1>2
  <2>2. q = p
    BY <2>1
  <2> QED BY <1>1, <1>3, <2>2, AscendingEnds
<1>7. Len(q) \in Nat /\ Len(p) \in Nat
  BY <1>2, <1>4, <1>5, <1>6
<1>8. p = Ascending(DOMAIN a.text) /\ q = Ascending(DOMAIN b.text)
  BY DEF S
<1> HIDE DEF p, q, n
<1>9. PICK f : Stores(f, a.text, p) /\ StoredText(a) = f[Len(p)]
  BY <1>7, <1>8, StoredIs
<1>10. PICK g : Stores(g, b.text, q) /\ StoredText(b) = g[Len(q)]
  BY <1>7, <1>8, StoredIs
<1>11. Stores(f, t, p) /\ Stores(g, u, q)
  BY <1>9, <1>10
<1> HIDE DEF t, u
<1>12. \A k \in 1..Len(p) : t[p[k]] \in Seq(Pieces)
  BY <1>1, <1>4
<1>13. \A k \in 0..Len(p) : f[k] \in Seq(Pieces)
  BY <1>7, <1>11, <1>12, StoresType
<1>14. CASE i \notin S
  <2>1. \A k \in 1..n : t[p[k]] = u[q[k]]
    BY <1>2, <1>4, <1>5, <1>14
  <2>2. n =< Len(p) /\ n =< Len(q)
    BY <1>4, <1>5, <1>14
  <2>3. f[n] = g[n]
    BY <1>4, <1>7, <1>11, <2>1, <2>2, StoresAgree
  <2>4. n + 1 \in 1..Len(q) /\ (n + 1) - 1 = n
    BY <1>4, <1>5, <1>14
  <2>5. g[n + 1] = g[n] \o u[i]
    BY <1>5, <1>11, <1>14, <2>4 DEF Stores
  <2>6. u[i] = Append(<<>>, piece)
    BY <1>2, <1>14 DEF At, S
  <2>7. f[n] \in Seq(Pieces)
    BY <1>4, <1>13
  <2> DEFINE w == f[n]
  <2> HIDE DEF w
  <2>8. w \o Append(<<>>, piece) = Append(w, piece)
    <3>1. w \in Seq(Pieces)
      BY <2>7 DEF w
    <3> QED BY <3>1
  <2> QED BY <1>4, <1>5, <1>9, <1>10, <1>14, <2>3, <2>5, <2>6, <2>8 DEF w
<1>15. CASE i \in S
  <2> DEFINE m == n - 1
  <2>1. m \in Nat /\ m + 1 = n /\ m =< Len(p) /\ q = p /\ Len(p) = n
    BY <1>4, <1>6, <1>15
  <2> HIDE DEF m
  <2>2. ASSUME NEW k \in 1..m PROVE t[p[k]] = u[q[k]]
    <3>1. k \in 1..n /\ k < n
      BY <2>1
    <3>2. p[k] \in S /\ p[k] # i
      BY <1>4, <1>6, <1>15, <3>1
    <3> QED BY <1>2, <2>1, <3>2
  <2>3. f[m] = g[m]
    BY <1>7, <1>11, <2>1, <2>2, StoresAgree
  <2>4. n \in 1..Len(p) /\ n - 1 = m /\ m \in 0..Len(p)
    BY <2>1
  <2>5. f[n] = f[m] \o t[i]
    BY <1>6, <1>11, <1>15, <2>4 DEF Stores
  <2>6. g[n] = g[m] \o u[i]
    BY <1>6, <1>11, <1>15, <2>1, <2>4 DEF Stores
  <2>7. u[i] = Append(t[i], piece)
    BY <1>2, <1>15 DEF At, S
  <2>8. f[m] \in Seq(Pieces) /\ t[i] \in Seq(Pieces)
    BY <1>1, <1>13, <1>15, <2>4
  <2> DEFINE w == f[m]
             x == t[i]
  <2>9. w \in Seq(Pieces) /\ x \in Seq(Pieces)
    BY <2>8
  <2> HIDE DEF w, x
  <2>10. w \o Append(x, piece) = Append(w \o x, piece)
    BY <2>9, ConcatAppend
  <2> QED BY <1>9, <1>10, <2>1, <2>3, <2>5, <2>6, <2>7, <2>10 DEF w, x
<1> QED BY <1>14, <1>15

LEMMA StoredOfNothing ==
  ASSUME NEW a, AccOK(a), DOMAIN a.text = {}
  PROVE  StoredText(a) = <<>>
<1> DEFINE p == Ascending(DOMAIN a.text)
<1>1. Len(p) = 0
  <2> DEFINE none == DOMAIN a.text
  <2>1. none = {} /\ none \in SUBSET Nat /\ IsFiniteSet(none) /\ Cardinality(none) = 0
    BY FS_EmptySet DEF AccOK
  <2> HIDE DEF none
  <2>2. Len(Ascending(none)) = Cardinality(none)
    BY <2>1, AscendingIs
  <2> QED BY <2>1, <2>2 DEF none
<1>3. p = Ascending(DOMAIN a.text)
  OBVIOUS
<1> HIDE DEF p
<1>4. Len(p) \in Nat
  BY <1>1
<1>2. PICK f : Stores(f, a.text, p) /\ StoredText(a) = f[Len(p)]
  BY <1>3, <1>4, StoredIs
<1> QED BY <1>1, <1>2 DEF Stores

-----------------------------------------------------------------------------
(* The history, one item after the other                                     *)

LEMMA FreshIs == NamesAreFresh <=> Fresh(items)
BY DEF NamesAreFresh, Fresh

LEMMA AppendItem ==
  ASSUME NEW h \in Seq(Items), NEW x \in Items
  PROVE  LET more == Append(h, x)
         IN  /\ more \in Seq(Items) /\ Len(h) \in Nat /\ Len(more) = Len(h) + 1
             /\ DOMAIN h = 1..Len(h) /\ DOMAIN more = 1..(Len(h) + 1)
             /\ more[Len(h) + 1] = x /\ \A k \in 1..Len(h) : more[k] = h[k]
OBVIOUS

LEMMA FreshBefore ==
  ASSUME NEW h \in Seq(Items), NEW x \in Items, Fresh(Append(h, x))
  PROVE  Fresh(h)
<1> DEFINE more == Append(h, x)
<1>1. /\ DOMAIN h = 1..Len(h) /\ DOMAIN more = 1..(Len(h) + 1) /\ Len(h) \in Nat
      /\ \A k \in 1..Len(h) : more[k] = h[k]
  BY AppendItem
<1>2. \A k \in DOMAIN h : k \in DOMAIN more /\ more[k] = h[k]
  BY <1>1
<1>3. Fresh(more)
  OBVIOUS
<1> HIDE DEF more
<1> QED BY <1>2, <1>3 DEF Fresh

LEMMA NamesAfter ==
  ASSUME NEW h \in Seq(Items), NEW x \in Items
  PROVE  /\ NamesOf(h) \subseteq NamesOf(Append(h, x))
         /\ x.kind = "assistant" => IdsOf(x) \subseteq NamesOf(Append(h, x))
<1> DEFINE more == Append(h, x)
<1>1. /\ DOMAIN h = 1..Len(h) /\ DOMAIN more = 1..(Len(h) + 1) /\ Len(h) \in Nat
      /\ more[Len(h) + 1] = x /\ \A k \in 1..Len(h) : more[k] = h[k]
  BY AppendItem
<1>2. /\ \A k \in DOMAIN h : k \in DOMAIN more /\ more[k] = h[k]
      /\ Len(h) + 1 \in DOMAIN more /\ more[Len(h) + 1] = x
  BY <1>1
<1> HIDE DEF more
<1>3. NamesOf(h) \subseteq NamesOf(more)
  BY <1>2 DEF NamesOf
<1>4. x.kind = "assistant" => IdsOf(x) \subseteq NamesOf(more)
  BY <1>2 DEF NamesOf
<1> QED BY <1>3, <1>4 DEF more

(* An item without calls follows an answered history.                        *)
LEMMA PlainItem ==
  ASSUME NEW h \in Seq(Items), NEW x \in Items, InOrder(h, {}), x.calls = <<>>, x.kind # "result"
  PROVE  InOrder(Append(h, x), {})
<1>1. IdsOf(x) = {}
  BY DEF IdsOf
<1>2. Cardinality({}) = 0 /\ Len(<<>>) = 0
  BY FS_EmptySet
<1> DEFINE st == Validated(h)
           t == Validated(Append(h, x))
<1>3. t = Validate(st, x)
  BY ValidatedAppend
<1>4. st.ok /\ st.open = {} /\ st.all \subseteq NamesOf(h)
  BY DEF InOrder
<1> HIDE DEF st, t
<1> DEFINE new == IdsOf(x)
<1>5. /\ t.ok = (/\ st.ok /\ st.open = {} /\ new \cap st.all = {}
                 /\ Cardinality(new) = Len(x.calls))
      /\ t.open = new /\ t.all = st.all \cup new
  <2>1. t = [ok |-> /\ st.ok /\ st.open = {} /\ new \cap st.all = {}
                    /\ Cardinality(new) = Len(x.calls),
             open |-> new, all |-> st.all \cup new]
    BY <1>3 DEF Validate
  <2> HIDE DEF new
  <2> QED BY <2>1
<1>6. t.ok /\ t.open = {} /\ t.all = st.all
  BY <1>1, <1>2, <1>4, <1>5
<1> QED BY <1>4, <1>6, NamesAfter DEF InOrder, t

(* A message with calls that have names of their own.                        *)
LEMMA ItemWithCalls ==
  ASSUME NEW h \in Seq(Items), NEW x \in Items, InOrder(h, {}), x.kind = "assistant",
         Fresh(Append(h, x))
  PROVE  InOrder(Append(h, x), IdsOf(x))
<1> DEFINE st == Validated(h)
           t == Validated(Append(h, x))
           more == Append(h, x)
           c == x.calls
           new == IdsOf(x)
           n == Len(c)
<1>1. c \in Seq(Calls) /\ n \in Nat /\ DOMAIN c = 1..n
  BY DEF Items
<1>2. /\ DOMAIN h = 1..Len(h) /\ DOMAIN more = 1..(Len(h) + 1) /\ Len(h) \in Nat
      /\ more[Len(h) + 1] = x /\ \A k \in 1..Len(h) : more[k] = h[k]
  BY AppendItem
<1>3. Fresh(more)
  OBVIOUS
<1>4. new = {c[k].id : k \in 1..n}
  BY <1>1 DEF IdsOf
<1>5. t = Validate(st, x)
  BY ValidatedAppend
<1>6. st.ok /\ st.open = {} /\ st.all \subseteq NamesOf(h)
  BY DEF InOrder
<1>7. Len(h) + 1 \in DOMAIN more /\ \A k \in DOMAIN h : k \in DOMAIN more /\ k # Len(h) + 1
  BY <1>2
<1> HIDE DEF st, t, more
<1>8. \A i, j \in 1..n : c[i].id = c[j].id => i = j
  <2> DEFINE m == Len(h) + 1
  <2>1. m \in DOMAIN more /\ more[m].kind = "assistant" /\ more[m].calls = c
    BY <1>2, <1>7
  <2> HIDE DEF m, n, c
  <2>2. \A i, j \in DOMAIN c : c[i].id = c[j].id => i = j
    BY <1>3, <2>1 DEF Fresh
  <2> QED BY <1>1, <2>2
<1>9. new \cap NamesOf(h) = {}
  <2> SUFFICES ASSUME NEW id \in new, id \in NamesOf(h) PROVE FALSE
    OBVIOUS
  <2>1. PICK k \in DOMAIN h : h[k].kind = "assistant" /\ id \in IdsOf(h[k])
    BY DEF NamesOf
  <2>2. PICK i \in DOMAIN h[k].calls : id = h[k].calls[i].id
    BY <2>1 DEF IdsOf
  <2>3. PICK j \in 1..n : id = c[j].id
    BY <1>4
  <2>4. more[k] = h[k]
    BY <1>2, <2>1
  <2> DEFINE m == Len(h) + 1
  <2>6. /\ m \in DOMAIN more /\ more[m] = x /\ more[m].kind = "assistant"
        /\ k \in DOMAIN more /\ more[k].kind = "assistant"
    BY <1>2, <1>7, <2>1, <2>4
  <2>7. i \in DOMAIN more[k].calls /\ j \in DOMAIN more[m].calls
    BY <1>1, <2>2, <2>3, <2>4, <2>6
  <2>8. more[k].calls[i].id = more[m].calls[j].id
    BY <2>2, <2>3, <2>4, <2>6
  <2> HIDE DEF m, n, c
  <2>5. k = m
    BY <1>3, <2>6, <2>7, <2>8 DEF Fresh
  <2> QED BY <1>7, <2>1, <2>5 DEF m
<1>10. Cardinality(new) = n
  <2> DEFINE f == [k \in 1..n |-> c[k].id]
             ones == 1..n
  <2>1. IsFiniteSet(ones) /\ Cardinality(ones) = n
    BY <1>1, FS_Interval
  <2>2. f \in [ones -> new]
    BY <1>4
  <2>3. \A i, j \in ones : f[i] = f[j] => i = j
    BY <1>8
  <2>4. \A y \in new : \E k \in ones : f[k] = y
    BY <1>4
  <2> HIDE DEF f, ones, new
  <2>5. f \in Bijection(ones, new)
    BY <2>2, <2>3, <2>4 DEF Bijection, Injection, Surjection, IsInjective
  <2>6. ExistsBijection(ones, new)
    BY <2>5 DEF ExistsBijection
  <2> QED BY <2>1, <2>6, FS_Bijection
<1>11. /\ t.ok = (/\ st.ok /\ st.open = {} /\ new \cap st.all = {} /\ Cardinality(new) = n)
       /\ t.open = new /\ t.all = st.all \cup new
  <2>1. t = [ok |-> /\ st.ok /\ st.open = {} /\ new \cap st.all = {} /\ Cardinality(new) = n,
             open |-> new, all |-> st.all \cup new]
    BY <1>5 DEF Validate
  <2> HIDE DEF new, n
  <2> QED BY <2>1
<1>12. t.ok /\ t.open = new /\ t.all = st.all \cup new
  BY <1>6, <1>9, <1>10, <1>11
<1>13. t.all \subseteq NamesOf(Append(h, x))
  BY <1>6, <1>12, NamesAfter
<1> QED BY <1>12, <1>13 DEF InOrder, t

LEMMA ResultItem ==
  ASSUME NEW h \in Seq(Items), NEW x \in Items, NEW open, InOrder(h, open), x.kind = "result",
         IdsOf(x) \subseteq open
  PROVE  InOrder(Append(h, x), open \ IdsOf(x))
<1> DEFINE st == Validated(h)
           t == Validated(Append(h, x))
           new == IdsOf(x)
<1>1. t = Validate(st, x)
  BY ValidatedAppend
<1>2. st.ok /\ st.open = open /\ st.all \subseteq NamesOf(h)
  BY DEF InOrder
<1> HIDE DEF st, t
<1>3. t = [ok |-> st.ok /\ new \subseteq st.open, open |-> st.open \ new, all |-> st.all]
  BY <1>1 DEF Validate
<1> HIDE DEF new
<1>4. t.ok = (st.ok /\ new \subseteq st.open) /\ t.open = st.open \ new /\ t.all = st.all
  BY <1>3
<1>5. t.ok /\ t.open = open \ new /\ t.all \subseteq NamesOf(h)
  BY <1>2, <1>4 DEF new
<1> QED BY <1>5, NamesAfter DEF InOrder, t, new

LEMMA StartOfSequence ==
  ASSUME NEW T, NEW r \in Seq(T), NEW k \in 0..Len(r)
  PROVE  /\ SubSeq(r, 1, k) \in Seq(T) /\ Len(SubSeq(r, 1, k)) = k
         /\ \A j \in 1..k : SubSeq(r, 1, k)[j] = r[j]
OBVIOUS

(* The results of a batch answer its calls, one after the other.             *)
LEMMA ResultsAnswer ==
  ASSUME NEW h \in Seq(Items), NEW c \in Seq(Calls),
         \A i, j \in DOMAIN c : c[i].id = c[j].id => i = j,
         InOrder(h, {c[k].id : k \in DOMAIN c}),
         NEW r, r = [k \in DOMAIN c |-> [kind |-> "result", calls |-> <<c[k]>>]]
  PROVE  r \in Seq(Items) /\ InOrder(h \o r, {})
<1> DEFINE n == Len(c)
<1>1. n \in Nat /\ DOMAIN c = 1..n /\ \A k \in 1..n : c[k] \in Calls
  OBVIOUS
<1> HIDE DEF n
<1>2. ASSUME NEW k \in 1..n
      PROVE  r[k] \in Items /\ r[k].kind = "result" /\ IdsOf(r[k]) = {c[k].id}
  <2> DEFINE one == <<c[k]>>
  <2>1. one \in Seq(Calls) /\ DOMAIN one = {1} /\ one[1] = c[k]
    BY <1>1
  <2>2. r[k] = [kind |-> "result", calls |-> one]
    BY <1>1
  <2> HIDE DEF one
  <2>3. r[k] \in Items /\ r[k].kind = "result" /\ r[k].calls = one
    BY <2>1, <2>2 DEF Items, ItemKinds
  <2>4. IdsOf(r[k]) = {c[k].id}
    <3>1. IdsOf(r[k]) = {one[j].id : j \in DOMAIN one}
      BY <2>3 DEF IdsOf
    <3>2. {one[j].id : j \in DOMAIN one} = {one[1].id}
      BY <2>1
    <3> QED BY <2>1, <3>1, <3>2
  <2> QED BY <2>3, <2>4
<1>3. r \in Seq(Items) /\ Len(r) = n
  <2>1. r = [k \in 1..n |-> r[k]]
    BY <1>1
  <2>2. \A k \in 1..n : r[k] \in Items
    BY <1>2
  <2> QED BY <1>1, <2>1, <2>2
<1> DEFINE upTo(k) == h \o SubSeq(r, 1, k)
           left(k) == {c[j].id : j \in (k + 1)..n}
           D == {k \in 0..n : InOrder(upTo(k), left(k))}
<1>4. 0 \in D
  <2>1. upTo(0) = h
    BY <1>3
  <2>2. left(0) = {c[k].id : k \in DOMAIN c}
    BY <1>1
  <2>3. 0 \in 0..n
    BY <1>1
  <2>4. InOrder(upTo(0), left(0))
    <3> HIDE DEF upTo, left
    <3> QED BY <2>1, <2>2
  <2> QED BY <2>3, <2>4
<1>5. ASSUME NEW k \in 0..n, k < n, k \in D PROVE k + 1 \in D
  <2>1. k \in Nat /\ k + 1 \in 1..n /\ k + 1 \in 0..n
    BY <1>1, <1>5
  <2>2. upTo(k) \in Seq(Items) /\ upTo(k + 1) = Append(upTo(k), r[k + 1])
    <3>10. k \in 0..Len(r) /\ k + 1 \in 0..Len(r)
      BY <1>1, <1>3, <2>1
    <3> DEFINE u == SubSeq(r, 1, k)
               v == SubSeq(r, 1, k + 1)
               w == Append(u, r[k + 1])
    <3>4. u \in Seq(Items) /\ Len(u) = k /\ \A j \in 1..k : u[j] = r[j]
      BY <1>3, <3>10, StartOfSequence, ZenonT(40)
    <3>5. v \in Seq(Items) /\ Len(v) = k + 1 /\ \A j \in 1..(k + 1) : v[j] = r[j]
      BY <1>3, <3>10, StartOfSequence, ZenonT(40)
    <3> HIDE DEF u, v
    <3>6. r[k + 1] \in Items
      BY <1>2, <2>1
    <3>7. /\ w \in Seq(Items) /\ Len(w) = k + 1 /\ w[k + 1] = r[k + 1]
          /\ \A j \in 1..k : w[j] = u[j]
      BY <2>1, <3>4, <3>6
    <3> HIDE DEF w
    <3>8. ASSUME NEW j \in 1..(k + 1) PROVE v[j] = w[j]
      <4>1. j = k + 1 \/ j \in 1..k
        BY <2>1
      <4> QED BY <2>1, <3>4, <3>5, <3>7, <4>1
    <3>9. v = w
      BY <3>5, <3>7, <3>8, SeqEqual
    <3>1. u \in Seq(Items) /\ v = Append(u, r[k + 1])
      BY <3>4, <3>9 DEF w
    <3>2. u \in Seq(Items) /\ r[k + 1] \in Items
      BY <1>2, <2>1, <3>1
    <3>3. h \o u \in Seq(Items) /\ h \o Append(u, r[k + 1]) = Append(h \o u, r[k + 1])
      BY <3>2, ConcatAppend
    <3> QED BY <3>1, <3>3 DEF u, v
  <2>3. left(k + 1) = left(k) \ {c[k + 1].id} /\ c[k + 1].id \in left(k)
    <3>1. \A j \in (k + 1)..n : j \in (k + 1 + 1)..n <=> j # k + 1
      BY <1>1, <2>1
    <3>2. k + 1 \in (k + 1)..n /\ (k + 1 + 1)..n \subseteq (k + 1)..n /\ (k + 1)..n \subseteq 1..n
      BY <1>1, <2>1
    <3>3. \A i, j \in 1..n : c[i].id = c[j].id => i = j
      BY <1>1
    <3> QED BY <3>1, <3>2, <3>3
  <2>4. r[k + 1] \in Items /\ r[k + 1].kind = "result" /\ IdsOf(r[k + 1]) = {c[k + 1].id}
    BY <1>2, <2>1
  <2>5. InOrder(upTo(k), left(k))
    BY <1>5
  <2> DEFINE g == upTo(k)
             x == r[k + 1]
             open == left(k)
  <2>6. /\ g \in Seq(Items) /\ x \in Items /\ x.kind = "result" /\ InOrder(g, open)
        /\ IdsOf(x) \subseteq open
    BY <2>2, <2>3, <2>4, <2>5
  <2> HIDE DEF g, x, open
  <2>7. InOrder(Append(g, x), open \ IdsOf(x))
    BY <2>6, ResultItem
  <2>8. InOrder(upTo(k + 1), left(k + 1))
    BY <2>2, <2>3, <2>4, <2>7 DEF g, x, open
  <2> QED BY <2>1, <2>8
<1> HIDE DEF D
<1>6. n \in D
  <2>1. \A k \in 0..n : k < n /\ k \in D => k + 1 \in D
    BY <1>5
  <2>2. n \in 0..n
    BY <1>1
  <2> QED BY <1>1, <1>4, <2>1, <2>2, InductionUpTo
<1>7. InOrder(upTo(n), left(n))
  BY <1>6 DEF D
<1>8. upTo(n) = h \o r /\ left(n) = {}
  <2>1. SubSeq(r, 1, n) = r
    BY <1>3
  <2>2. (n + 1)..n = {}
    BY <1>1
  <2> QED BY <2>1, <2>2
<1> QED BY <1>3, <1>7, <1>8

-----------------------------------------------------------------------------
(* The steps of the loop                                                     *)

LEMMA LoopStarts == LoopInit => LoopIInv
<1> SUFFICES ASSUME LoopInit PROVE LoopIInv
  OBVIOUS
<1> DEFINE user == [kind |-> "user", calls |-> <<>>]
<1>1. user \in Items /\ user.calls = <<>> /\ user.kind = "user"
  <2>1. <<>> \in Seq(Calls)
    BY EmptySeq
  <2> QED BY <2>1 DEF Items, ItemKinds
<1>2. AccOK(NewAcc) /\ DOMAIN NewAcc.text = {} /\ DOMAIN NewAcc.partials = {}
  BY FS_EmptySet DEF AccOK, NewAcc, Nothing
<1>3. acc = NewAcc /\ shown = <<>> /\ place = "next" /\ toolTurns = 0 /\ items = <<user>>
      /\ calls = <<>> /\ results = <<>> /\ printed = <<>>
  BY DEF LoopInit
<1>4. /\ SeenOK(seen) /\ seen.counted = {} /\ DOMAIN seen.terminal = {}
  BY DEF LoopInit, SeenOK, IsState, Nothing
<1> HIDE DEF user
<1>5. LoopTypes
  BY <1>1, <1>2, <1>3, <1>4 DEF LoopTypes, LoopPlaces
<1>6. ArgumentsOnce /\ OutputsOnce /\ BatchIsStreamed
  BY <1>3, <1>4 DEF ArgumentsOnce, OutputsOnce, BatchIsStreamed
<1>7. InOrder(<<>>, {})
  BY ValidatedOfNothing DEF InOrder, NothingYet
<1>8. InOrder(items, {})
  <2>1. <<>> \in Seq(Items) /\ items = Append(<<>>, user) /\ user.kind # "result"
    BY <1>1, <1>3
  <2> QED BY <1>1, <1>7, <2>1, PlainItem
<1>9. HistoryInOrder
  BY <1>3, <1>8 DEF HistoryInOrder
<1>10. StoredText(acc) = shown
  BY <1>2, <1>3, StoredOfNothing
<1> QED BY <1>5, <1>6, <1>9, <1>10 DEF LoopIInv

LEMMA StartProviderTurnKeeps ==
  ASSUME LoopIInv, StartProviderTurn
  PROVE  LoopIInv'
<1>1. /\ place = "next" /\ place' \in {"cancelled", "stream", "error"}
      /\ acc' = NewAcc /\ shown' = <<>>
      /\ UNCHANGED <<items, toolTurns, seen, calls, results, printed>>
  BY DEF StartProviderTurn
<1>2. AccOK(NewAcc) /\ DOMAIN NewAcc.text = {} /\ DOMAIN NewAcc.partials = {}
  BY FS_EmptySet DEF AccOK, NewAcc, Nothing
<1>3. LoopTypes'
  BY <1>1, <1>2 DEF LoopIInv, LoopTypes, LoopPlaces, Ended
<1>4. ArgumentsOnce'
  <2>1. \A p \in seen.counted : p.of = "args" => p.turn < toolTurns
    BY <1>1 DEF LoopIInv, ArgumentsOnce
  <2>2. \A p \in seen.counted : p.turn \in Nat
    BY DEF LoopIInv, LoopTypes, SeenOK, Pieces
  <2>3. \A p \in seen.counted : ~(p.of = "args" /\ p.turn = toolTurns)
    BY <2>1, <2>2
  <2>4. DOMAIN acc'.partials = {}
    BY <1>1, <1>2
  <2> QED BY <1>1, <2>3, <2>4 DEF ArgumentsOnce
<1>5. OutputsOnce'
  BY <1>1 DEF LoopIInv, OutputsOnce
<1>6. BatchIsStreamed'
  BY <1>1 DEF BatchIsStreamed
<1>7. HistoryInOrder'
  BY <1>1 DEF LoopIInv, HistoryInOrder
<1>8. StoredText(acc') = shown'
  BY <1>1, <1>2, StoredOfNothing
<1> QED BY <1>3, <1>4, <1>5, <1>6, <1>7, <1>8 DEF LoopIInv

(* A stream that fails or is cancelled leaves everything as it is.           *)
LEMMA StreamStopsKeeps ==
  ASSUME LoopIInv, place = "stream", place' \in {"error", "cancelled"},
         UNCHANGED <<items, toolTurns, acc, seen, shown, calls, results, printed>>
  PROVE  LoopIInv'
<1>1. LoopTypes'
  BY DEF LoopIInv, LoopTypes, LoopPlaces, Ended
<1>2. ArgumentsOnce' /\ BatchIsStreamed'
  BY DEF ArgumentsOnce, BatchIsStreamed
<1>3. OutputsOnce'
  BY DEF LoopIInv, OutputsOnce
<1>4. HistoryInOrder'
  BY DEF LoopIInv, HistoryInOrder
<1>5. StoredText(acc') = shown'
  BY DEF LoopIInv
<1> QED BY <1>1, <1>2, <1>3, <1>4, <1>5 DEF LoopIInv

(* A delta without arguments: what is counted and what is known stays.       *)
LEMMA DeltaKeeps ==
  ASSUME LoopIInv, place = "stream", place' = "stream",
         UNCHANGED <<items, toolTurns, calls, results, printed>>,
         AccOK(acc'), SeenOK(seen'), Heard(seen', seen), shown' \in Seq(Pieces),
         acc'.partials = acc.partials, seen'.byIndex = seen.byIndex,
         StoredText(acc') = shown'
  PROVE  LoopIInv'
<1>1. LoopTypes'
  BY DEF LoopIInv, LoopTypes
<1>2. BatchIsStreamed'
  BY DEF BatchIsStreamed
<1>3. ArgumentsOnce'
  BY DEF LoopIInv, ArgumentsOnce, Heard, Piece
<1>4. OutputsOnce'
  BY DEF LoopIInv, OutputsOnce, Heard
<1>5. HistoryInOrder'
  BY DEF LoopIInv, HistoryInOrder
<1> QED BY <1>1, <1>2, <1>3, <1>4, <1>5 DEF LoopIInv

LEMMA TextDeltaKeeps ==
  ASSUME LoopIInv, NEW i \in Indexes, TextDelta(i)
  PROVE  LoopIInv'
<1> DEFINE piece == Piece("text", i, Len(At(acc.text, i)) + 1)
           old == At(acc.text, i)
           more == Append(old, piece)
           text == Set(acc.text, i, more)
<1>1. /\ place = "stream" /\ place' = "stream"
      /\ UNCHANGED <<items, toolTurns, calls, results, printed>>
      /\ \A j \in DOMAIN acc.text : j =< i
      /\ shown' = Append(shown, piece) /\ seen' = [seen EXCEPT !.thinking = FALSE]
  BY DEF TextDelta, Frame, ObserveText
<1>2. acc' = [acc EXCEPT !.text = text]
  <2>1. acc' = [acc EXCEPT !.text = Set(@, i, Append(At(@, i), piece))]
    BY DEF TextDelta
  <2> HIDE DEF piece
  <2> QED BY <2>1 DEF LoopIInv, LoopTypes, AccOK
<1>3. AccOK(acc) /\ SeenOK(seen) /\ toolTurns \in Nat /\ i \in Nat /\ shown \in Seq(Pieces)
      /\ StoredText(acc) = shown
  BY ToolLoopConstantsOK DEF LoopIInv, LoopTypes
<1>4. old \in Seq(Pieces)
  BY <1>3, AtIs DEF AccOK
<1>5. piece \in Pieces
  <2>1. Len(old) + 1 \in Nat
    BY <1>4
  <2> QED BY <1>3, <2>1, PieceIs
<1> HIDE DEF piece, old
<1>6. more \in Seq(Pieces)
  BY <1>4, <1>5
<1> HIDE DEF more
<1>7. /\ DOMAIN text = DOMAIN acc.text \cup {i} /\ text[i] = more
      /\ \A j \in DOMAIN acc.text : j # i => text[j] = acc.text[j]
  BY DEF Set
<1> HIDE DEF text
<1>8. /\ acc'.text = text /\ acc'.partials = acc.partials /\ acc'.started = acc.started
      /\ acc' = [partials |-> acc'.partials, started |-> acc'.started, text |-> acc'.text,
                 thought |-> acc'.thought, finish |-> acc'.finish]
  BY <1>2, <1>3 DEF AccOK
<1>9. DOMAIN text \in SUBSET Nat /\ IsFiniteSet(DOMAIN text)
      /\ \A j \in DOMAIN text : text[j] \in Seq(Pieces)
  <2>1. IsFiniteSet(DOMAIN acc.text) /\ DOMAIN acc.text \in SUBSET Nat
    BY <1>3 DEF AccOK
  <2>2. IsFiniteSet(DOMAIN acc.text \cup {i})
    BY <2>1, FS_AddElement
  <2> QED BY <1>3, <1>6, <1>7, <2>1, <2>2 DEF AccOK
<1>10. AccOK(acc')
  BY <1>3, <1>8, <1>9 DEF AccOK
<1>11. SeenOK(seen') /\ Heard(seen', seen) /\ seen'.byIndex = seen.byIndex
  BY <1>1, <1>3, ObserveTextIs
<1>12. StoredText(acc') = Append(StoredText(acc), piece)
  <2>1. acc'.text = Set(acc.text, i, Append(At(acc.text, i), piece))
    BY <1>8 DEF text, more, old
  <2> QED BY <1>1, <1>3, <1>5, <2>1, StoredAppend
<1>13. shown' \in Seq(Pieces) /\ StoredText(acc') = shown'
  BY <1>1, <1>3, <1>5, <1>12
<1> QED BY <1>1, <1>8, <1>10, <1>11, <1>13, DeltaKeeps

LEMMA SeenAccKeeps ==
  ASSUME NEW a, AccOK(a), NEW b, b.text = a.text, b.partials = a.partials,
         b.started = a.started,
         b = [partials |-> b.partials, started |-> b.started, text |-> b.text,
              thought |-> b.thought, finish |-> b.finish]
  PROVE  AccOK(b) /\ StoredText(b) = StoredText(a)
<1>1. AccOK(b)
  BY DEF AccOK
<1>2. StoredText(b) = StoredText(a)
  BY StoredSame
<1> QED BY <1>1, <1>2

LEMMA ReasoningDeltaKeeps ==
  ASSUME LoopIInv, ReasoningDelta
  PROVE  LoopIInv'
<1>1. /\ place = "stream" /\ place' = "stream"
      /\ UNCHANGED <<items, toolTurns, calls, results, printed, shown>>
      /\ acc' = [acc EXCEPT !.thought = TRUE] /\ seen' = [seen EXCEPT !.thinking = TRUE]
  BY DEF ReasoningDelta, Frame, ObserveReasoning
<1>2. AccOK(acc) /\ SeenOK(seen) /\ shown \in Seq(Pieces) /\ StoredText(acc) = shown
  BY DEF LoopIInv, LoopTypes
<1>3. /\ acc'.text = acc.text /\ acc'.partials = acc.partials /\ acc'.started = acc.started
      /\ acc' = [partials |-> acc'.partials, started |-> acc'.started, text |-> acc'.text,
                 thought |-> acc'.thought, finish |-> acc'.finish]
  BY <1>1, <1>2 DEF AccOK
<1>4. AccOK(acc') /\ StoredText(acc') = StoredText(acc)
  BY <1>2, <1>3, SeenAccKeeps
<1>5. SeenOK(seen') /\ Heard(seen', seen) /\ seen'.byIndex = seen.byIndex
  BY <1>1, <1>2, ObserveTextIs
<1> QED BY <1>1, <1>2, <1>3, <1>4, <1>5, DeltaKeeps

LEMMA FinishReasonKeeps ==
  ASSUME LoopIInv, NEW reason, FinishReason(reason)
  PROVE  LoopIInv'
<1>1. /\ place = "stream" /\ place' = "stream"
      /\ UNCHANGED <<items, toolTurns, calls, results, printed, shown, seen>>
      /\ acc' = [acc EXCEPT !.finish = reason]
  BY DEF FinishReason
<1>2. AccOK(acc) /\ SeenOK(seen) /\ shown \in Seq(Pieces) /\ StoredText(acc) = shown
  BY DEF LoopIInv, LoopTypes
<1>3. /\ acc'.text = acc.text /\ acc'.partials = acc.partials /\ acc'.started = acc.started
      /\ acc' = [partials |-> acc'.partials, started |-> acc'.started, text |-> acc'.text,
                 thought |-> acc'.thought, finish |-> acc'.finish]
  BY <1>1, <1>2 DEF AccOK
<1>4. AccOK(acc') /\ StoredText(acc') = StoredText(acc)
  BY <1>2, <1>3, SeenAccKeeps
<1>5. SeenOK(seen') /\ Heard(seen', seen) /\ seen'.byIndex = seen.byIndex
  BY <1>1, <1>2 DEF Heard
<1> QED BY <1>1, <1>2, <1>3, <1>4, <1>5, DeltaKeeps

(* An id, a name and a piece of arguments: the piece is the next one of its  *)
(* call, and was not counted.                                                *)
LEMMA CallDeltaKeeps ==
  ASSUME LoopIInv, NEW i \in Indexes, NEW id \in CallIds \cup {NoId}, NEW named,
         NEW more \in BOOLEAN, CallDelta(i, id, named, more)
  PROVE  LoopIInv'
<1>1. /\ place = "stream"
      /\ UNCHANGED <<items, toolTurns, calls, results, printed>>
  BY DEF CallDelta, Frame
<1>2. CASE ChangesStarted(acc, i, id, named)
  <2>1. place' = "error" /\ UNCHANGED <<acc, seen, shown>>
    BY <1>2 DEF CallDelta, FrameFails
  <2> QED BY <1>1, <2>1, StreamStopsKeeps
<1>3. CASE ~ChangesStarted(acc, i, id, named)
  <2> DEFINE old == IF i \in DOMAIN acc.partials THEN acc.partials[i] ELSE NewPartial
             n == Len(old.args)
             piece == Piece("args", i, n + 1)
             new == [id |-> IF id = NoId THEN old.id ELSE id,
                     named |-> old.named \/ named # "no",
                     args |-> IF more THEN Append(old.args, piece) ELSE old.args]
             starts == i \notin acc.started /\ new.id # NoId /\ new.named
             heard == IF more THEN ObserveArguments(seen, i, piece) ELSE seen
             partials == Set(acc.partials, i, new)
             started == IF starts THEN acc.started \cup {i} ELSE acc.started
             a == [[acc EXCEPT !.partials = partials] EXCEPT !.started = started]
  <2>1. place' = place /\ shown' = shown
    BY <1>3 DEF CallDelta
  <2>2. seen' = IF starts THEN ObserveStarted(heard, i, new.id) ELSE heard
    BY <1>3 DEF CallDelta
  <2>3. /\ AccOK(acc) /\ SeenOK(seen) /\ toolTurns \in Nat /\ i \in Nat /\ shown \in Seq(Pieces)
        /\ StoredText(acc) = shown
    BY ToolLoopConstantsOK DEF LoopIInv, LoopTypes
  <2>4. acc' = a
    <3>1. acc' = [acc EXCEPT !.partials = Set(@, i, new),
                             !.started = IF starts THEN @ \cup {i} ELSE @]
      BY <1>3 DEF CallDelta
    <3> HIDE DEF new, starts
    <3> QED BY <2>3, <3>1 DEF AccOK
  <2>5. old \in Partials
    <3>1. NewPartial \in Partials
      <4>1. <<>> \in Seq(Pieces)
        BY EmptySeq
      <4> QED BY <4>1 DEF NewPartial, Partials
    <3> QED BY <2>3, <3>1 DEF AccOK
  <2>6. /\ i \notin DOMAIN acc.partials => old.args = <<>>
        /\ i \in DOMAIN acc.partials => old = acc.partials[i]
    BY DEF NewPartial
  <2> HIDE DEF old
  <2>7. old.args \in Seq(Pieces) /\ n \in Nat /\ DOMAIN old.args = 1..n
    BY <2>5 DEF Partials
  <2> HIDE DEF n
  <2>8. /\ piece \in Pieces /\ piece.turn = toolTurns /\ piece.of = "args" /\ piece.at = i
        /\ piece.n = n + 1
    BY <2>3, <2>7, PieceIs
  <2> HIDE DEF piece
  <2>9. piece \notin seen.counted
    <3> SUFFICES ASSUME piece \in seen.counted PROVE FALSE
      OBVIOUS
    <3>1. piece.at \in DOMAIN acc.partials /\ piece.n \in 1..Len(acc.partials[piece.at].args)
      BY <1>1, <2>8 DEF LoopIInv, ArgumentsOnce
    <3>2. n + 1 \in 1..n
      BY <2>6, <2>8, <3>1 DEF n
    <3> QED BY <2>7, <3>2
  <2> DEFINE args == new.args
  <2>10. /\ new.id = (IF id = NoId THEN old.id ELSE id) /\ new.named = (old.named \/ named # "no")
         /\ new \in Partials
         /\ args = IF more THEN Append(old.args, piece) ELSE old.args
    <3>1. (IF more THEN Append(old.args, piece) ELSE old.args) \in Seq(Pieces)
      BY <2>7, <2>8
    <3>2. (IF id = NoId THEN old.id ELSE id) \in CallIds \cup {NoId}
      BY <2>5 DEF Partials
    <3>3. (old.named \/ named # "no") \in BOOLEAN
      OBVIOUS
    <3> QED BY <3>1, <3>2, <3>3 DEF Partials
  <2> HIDE DEF new, args
  <2>11. /\ args \in Seq(Pieces) /\ DOMAIN args = 1..Len(args) /\ Len(args) \in Nat
         /\ n =< Len(args) /\ \A k \in 1..n : args[k] = old.args[k]
         /\ more => Len(args) = n + 1 /\ args[n + 1] = piece
         /\ ~more => args = old.args /\ Len(args) = n
    <3>1. CASE more
      BY <2>7, <2>8, <2>10, <3>1 DEF n
    <3>2. CASE ~more
      BY <2>7, <2>8, <2>10, <3>2 DEF n
    <3> QED BY <3>1, <3>2
  <2>12. /\ SeenOK(heard) /\ heard.terminal = seen.terminal
         /\ heard.counted = IF more THEN seen.counted \cup {piece} ELSE seen.counted
         /\ DOMAIN seen.byIndex \subseteq DOMAIN heard.byIndex
         /\ more => i \in DOMAIN heard.byIndex
    <3>1. CASE more
      BY <2>3, <2>8, <2>9, <3>1, ObserveArgumentsIs
    <3>2. CASE ~more
      BY <2>3, <3>2
    <3> QED BY <3>1, <3>2
  <2> HIDE DEF heard, starts
  <2>13. SeenOK(seen') /\ Heard(seen', heard) /\ seen'.byIndex = heard.byIndex
    <3>1. CASE starts
      BY <2>2, <2>12, <3>1, ObserveStartedIs
    <3>2. CASE ~starts
      BY <2>2, <2>12, <3>2 DEF Heard
    <3> QED BY <3>1, <3>2
  <2>14. /\ DOMAIN partials = DOMAIN acc.partials \cup {i} /\ partials[i] = new
         /\ \A j \in DOMAIN acc.partials : j # i => partials[j] = acc.partials[j]
    BY DEF Set
  <2>15. starts = (i \notin acc.started /\ new.id # NoId /\ new.named)
    BY DEF starts
  <2>16. acc.started \subseteq started /\ (starts => i \in started)
    OBVIOUS
  <2> HIDE DEF partials, started
  <2>17. /\ acc'.partials = partials /\ acc'.started = started /\ acc'.text = acc.text
         /\ acc' = [partials |-> acc'.partials, started |-> acc'.started, text |-> acc'.text,
                    thought |-> acc'.thought, finish |-> acc'.finish]
    BY <2>3, <2>4 DEF AccOK
  <2>18. DOMAIN partials \in SUBSET Nat /\ IsFiniteSet(DOMAIN partials)
    <3>1. DOMAIN acc.partials \in SUBSET Nat /\ IsFiniteSet(DOMAIN acc.partials)
      BY <2>3 DEF AccOK
    <3>2. IsFiniteSet(DOMAIN acc.partials \cup {i})
      BY <3>1, FS_AddElement
    <3> QED BY <2>3, <2>14, <3>1, <3>2
  <2>19. ASSUME NEW j \in DOMAIN partials
         PROVE  /\ partials[j] \in Partials
                /\ partials[j].id # NoId /\ partials[j].named => j \in started
    <3>1. CASE j = i
      BY <2>10, <2>14, <2>15, <2>16, <3>1
    <3>2. CASE j # i
      <4>1. j \in DOMAIN acc.partials /\ partials[j] = acc.partials[j]
        BY <2>14, <3>2
      <4> QED BY <2>3, <2>16, <4>1 DEF AccOK
    <3> QED BY <3>1, <3>2
  <2>20. AccOK(acc')
    BY <2>3, <2>17, <2>18, <2>19 DEF AccOK
  <2>21. StoredText(acc') = shown' /\ shown' \in Seq(Pieces)
    BY <2>1, <2>3, <2>17, StoredSame
  <2>22. LoopTypes'
    BY <1>1, <2>1, <2>13, <2>20, <2>21 DEF LoopIInv, LoopTypes
  <2>23. \A p \in seen'.counted : p \in seen.counted \/ (more /\ p = piece)
    BY <2>12, <2>13 DEF Heard
  <2>24. OutputsOnce'
    <3>1. ASSUME NEW p \in seen'.counted PROVE p.of # "diff" /\ p.turn =< toolTurns
      <4>1. CASE p \in seen.counted
        BY <4>1 DEF LoopIInv, OutputsOnce
      <4>2. CASE p = piece
        BY <2>3, <2>8, <4>2
      <4> QED BY <2>23, <4>1, <4>2
    <3>2. seen'.terminal = seen.terminal
      BY <2>12, <2>13 DEF Heard
    <3> QED BY <1>1, <2>1, <3>1, <3>2 DEF LoopIInv, OutputsOnce
  <2>25. BatchIsStreamed'
    BY <1>1, <2>1 DEF BatchIsStreamed
  <2>26. HistoryInOrder'
    BY <1>1, <2>1 DEF LoopIInv, HistoryInOrder
  <2>27. ASSUME NEW j \in DOMAIN partials
         PROVE  /\ \A k \in DOMAIN partials[j].args : partials[j].args[k] = Piece("args", j, k)
                /\ partials[j].args # <<>> => j \in DOMAIN seen'.byIndex
    <3>1. CASE j = i
      <4>1. partials[j].args = args
        BY <2>14, <3>1 DEF args
      <4>2. ASSUME NEW k \in 1..n PROVE old.args[k] = Piece("args", i, k) /\ i \in DOMAIN seen.byIndex
        <5>1. old.args # <<>> /\ i \in DOMAIN acc.partials /\ k \in DOMAIN acc.partials[i].args
          BY <2>6, <2>7, <4>2
        <5> QED BY <1>1, <2>6, <5>1 DEF LoopIInv, ArgumentsOnce
      <4>3. ASSUME NEW k \in DOMAIN args PROVE args[k] = Piece("args", i, k)
        <5>1. k \in 1..n \/ (more /\ k = n + 1)
          <6>1. CASE more
            BY <2>7, <2>11, <6>1
          <6>2. CASE ~more
            BY <2>7, <2>11, <6>2
          <6> QED BY <6>1, <6>2
        <5>2. CASE k \in 1..n
          BY <2>11, <4>2, <5>2
        <5>3. CASE more /\ k = n + 1
          BY <2>11, <5>3 DEF piece
        <5> QED BY <5>1, <5>2, <5>3
      <4>4. ASSUME args # <<>> PROVE i \in DOMAIN seen'.byIndex
        <5>1. CASE more
          BY <2>12, <2>13, <5>1
        <5>2. CASE ~more
          <6>1. n # 0
            BY <2>7, <2>11, <4>4, <5>2
          <6>2. 1 \in 1..n
            BY <2>7, <6>1
          <6> QED BY <2>12, <2>13, <4>2, <6>2
        <5> QED BY <5>1, <5>2
      <4> QED BY <3>1, <4>1, <4>3, <4>4
    <3>2. CASE j # i
      <4>1. j \in DOMAIN acc.partials /\ partials[j] = acc.partials[j]
        BY <2>14, <3>2
      <4>2. /\ \A k \in DOMAIN acc.partials[j].args : acc.partials[j].args[k] = Piece("args", j, k)
            /\ acc.partials[j].args # <<>> => j \in DOMAIN seen.byIndex
        BY <1>1, <4>1 DEF LoopIInv, ArgumentsOnce
      <4> QED BY <2>12, <2>13, <4>1, <4>2
    <3> QED BY <3>1, <3>2
  <2>28. ASSUME NEW p \in seen'.counted, p.of = "args", p.turn = toolTurns
         PROVE  p.at \in DOMAIN partials /\ p.n \in 1..Len(partials[p.at].args)
    <3>1. CASE p \in seen.counted
      <4>1. p.at \in DOMAIN acc.partials /\ p.n \in 1..Len(acc.partials[p.at].args)
        BY <1>1, <2>28, <3>1 DEF LoopIInv, ArgumentsOnce
      <4>2. CASE p.at = i
        <5>1. p.n \in 1..n
          BY <2>6, <4>1, <4>2 DEF n
        <5>2. p.n \in 1..Len(args)
          BY <2>7, <2>11, <5>1
        <5> QED BY <2>14, <4>2, <5>2 DEF args
      <4>3. CASE p.at # i
        BY <2>14, <4>1, <4>3
      <4> QED BY <4>2, <4>3
    <3>2. CASE more /\ p = piece
      <4>1. p.at = i /\ p.n = n + 1 /\ Len(args) = n + 1
        BY <2>8, <2>11, <3>2
      <4>2. p.n \in 1..Len(args)
        BY <2>7, <4>1
      <4> QED BY <2>14, <4>1, <4>2 DEF args
    <3> QED BY <2>23, <3>1, <3>2
  <2>29. ArgumentsOnce'
    <3>1. \A j, k : Piece("args", j, k)' = Piece("args", j, k)
      BY <1>1 DEF Piece
    <3>2. toolTurns' = toolTurns /\ place' = "stream" /\ acc'.partials = partials
      BY <1>1, <2>1, <2>17
    <3>3. \A j \in DOMAIN acc'.partials :
            /\ \A k \in DOMAIN acc'.partials[j].args : acc'.partials[j].args[k] = Piece("args", j, k)'
            /\ acc'.partials[j].args # <<>> => j \in DOMAIN seen'.byIndex
      BY <2>27, <3>1, <3>2
    <3>4. \A p \in seen'.counted : p.of = "args" /\ p.turn = toolTurns' =>
            p.at \in DOMAIN acc'.partials /\ p.n \in 1..Len(acc'.partials[p.at].args)
      BY <2>28, <3>2
    <3> QED BY <3>2, <3>3, <3>4 DEF ArgumentsOnce
  <2> QED BY <2>21, <2>22, <2>24, <2>25, <2>26, <2>29 DEF LoopIInv
<1> QED BY <1>2, <1>3

(* The items of a response at the end of a history that is in order.         *)
LEMMA EmittedIs ==
  ASSUME NEW h \in Seq(Items), NEW a, NEW final \in Seq(Calls)
  PROVE  LET g == h \o Emitted(a, final)
         IN  /\ g \in Seq(Items)
             /\ Fresh(g) => Fresh(h)
             /\ InOrder(h, {}) /\ Fresh(g) /\ final = <<>> => InOrder(g, {})
             /\ InOrder(h, {}) /\ Fresh(g) /\ final # <<>> =>
                  /\ g # <<>> /\ g[Len(g)] = [kind |-> "assistant", calls |-> final]
                  /\ InOrder(g, IdsOf(g[Len(g)]))
<1> DEFINE r == [kind |-> "reasoning", calls |-> <<>>]
           m == [kind |-> "assistant", calls |-> final]
           says == final # <<>> \/ StoredText(a) # <<>>
           x == IF a.thought THEN <<r>> ELSE <<>>
           y == IF says THEN <<m>> ELSE <<>>
           h1 == IF a.thought THEN Append(h, r) ELSE h
           g == h \o Emitted(a, final)
<1>1. r \in Items /\ m \in Items /\ r.calls = <<>> /\ r.kind = "reasoning" /\ m.calls = final
      /\ m.kind = "assistant"
  <2>1. <<>> \in Seq(Calls)
    BY EmptySeq
  <2> QED BY <2>1 DEF Items, ItemKinds
<1>2. Emitted(a, final) = x \o y
  BY DEF Emitted
<1> HIDE DEF r, m, says
<1>3. h1 \in Seq(Items) /\ g = IF says THEN Append(h1, m) ELSE h1
  <2>0. <<r>> \in Seq(Items) /\ <<m>> \in Seq(Items) /\ <<>> \in Seq(Items)
    BY <1>1, EmptySeq
  <2>1. h \o <<>> = h /\ <<>> \o <<>> = <<>> /\ <<r>> \o <<>> = <<r>> /\ <<>> \o <<m>> = <<m>>
    BY <1>1, <2>0
  <2>2. h \o <<r>> = Append(h, r) /\ h \o <<m>> = Append(h, m)
    BY <1>1
  <2>3. h \o (<<r>> \o <<m>>) = Append(Append(h, r), m)
    BY <1>1
  <2>4. CASE a.thought
    <3>1. CASE says
      <4>1. x = <<r>> /\ y = <<m>> /\ h1 = Append(h, r)
        BY <2>4, <3>1
      <4>2. h1 \in Seq(Items)
        BY <1>1, <4>1
      <4>3. g = Append(Append(h, r), m)
        BY <1>2, <2>3, <4>1
      <4> QED BY <3>1, <4>1, <4>2, <4>3
    <3>2. CASE ~says
      BY <1>1, <1>2, <2>1, <2>2, <2>4, <3>2
    <3> QED BY <3>1, <3>2
  <2>5. CASE ~a.thought
    <3>1. CASE says
      BY <1>1, <1>2, <2>1, <2>2, <2>5, <3>1
    <3>2. CASE ~says
      BY <1>1, <1>2, <2>1, <2>5, <3>2
    <3> QED BY <3>1, <3>2
  <2> QED BY <2>4, <2>5
<1>4. Fresh(h1) => Fresh(h)
  BY <1>1, FreshBefore
<1>5. InOrder(h, {}) => InOrder(h1, {})
  BY <1>1, PlainItem
<1> HIDE DEF g, h1, x, y
<1>6. CASE says
  <2>1. g = Append(h1, m) /\ g \in Seq(Items) /\ Len(h1) \in Nat /\ Len(g) = Len(h1) + 1
        /\ g[Len(h1) + 1] = m
    BY <1>1, <1>3, <1>6
  <2>2. Fresh(g) => Fresh(h1)
    BY <1>1, <1>3, <2>1, FreshBefore
  <2>3. InOrder(h1, {}) /\ final = <<>> => InOrder(g, {})
    BY <1>1, <1>3, <2>1, PlainItem
  <2>4. InOrder(h1, {}) /\ Fresh(g) => InOrder(g, IdsOf(m))
    BY <1>1, <1>3, <2>1, ItemWithCalls
  <2>5. g # <<>> /\ g[Len(g)] = m
    BY <2>1, SMTT(30)
  <2> QED BY <1>4, <1>5, <2>1, <2>2, <2>3, <2>4, <2>5 DEF g, m
<1>7. CASE ~says
  <2>1. g = h1 /\ final = <<>>
    BY <1>3, <1>7 DEF says
  <2> QED BY <1>3, <1>4, <1>5, <2>1 DEF g
<1> QED BY <1>6, <1>7

(* The stream is over: of complete calls only "no arguments" is still to be  *)
(* counted, and the items of the response end the history.                   *)
LEMMA FinishStreamKeeps ==
  ASSUME LoopIInv, FinishStream
  PROVE  LoopIInv'
<1> DEFINE final == IF TakesCalls(acc) THEN FinalCalls(acc) ELSE <<>>
           missing == \E k \in DOMAIN final : \/ final[k].id = NoId
                                              \/ ~acc.partials[final[k].index].named
           fails == missing \/ (format = "responses" /\ acc.finish = "none")
<1>1. place = "stream" /\ UNCHANGED <<acc, shown, printed>>
  BY DEF FinishStream
<1>2. fails => place' = "error" /\ UNCHANGED <<items, toolTurns, seen, calls, results>>
  BY DEF FinishStream
<1>3. ~fails => /\ seen' = AllCompleted(seen, final) /\ calls' = final /\ results' = <<>>
                /\ \/ /\ final = <<>>
                      /\ place' = "completed" /\ items' = items \o Emitted(acc, final)
                      /\ toolTurns' = toolTurns
                   \/ /\ final # <<>>
                      /\ place' = "limit" /\ UNCHANGED <<items, toolTurns>>
                   \/ /\ final # <<>>
                      /\ place' = "batch" /\ items' = items \o Emitted(acc, final)
                      /\ toolTurns' = toolTurns + 1
  BY DEF FinishStream
<1>4. CASE fails
  BY <1>1, <1>2, <1>4, StreamStopsKeeps
<1>5. CASE ~fails
  <2>1. AccOK(acc) /\ SeenOK(seen) /\ toolTurns \in Nat /\ items \in Seq(Items)
    BY DEF LoopIInv, LoopTypes
  <2>2. /\ final \in Seq(Calls)
        /\ \A k \in DOMAIN final :
             /\ final[k].index \in DOMAIN acc.partials
             /\ final[k].id = acc.partials[final[k].index].id
             /\ final[k].args = FinalArguments(acc, final[k].index)
             /\ \A m \in DOMAIN final : final[m].index = final[k].index => m = k
    <3>1. CASE TakesCalls(acc)
      BY <2>1, <3>1, FinalCallsAre
    <3>2. CASE ~TakesCalls(acc)
      <4>1. <<>> \in Seq(Calls) /\ DOMAIN <<>> = {}
        BY EmptySeq
      <4> QED BY <3>2, <4>1
    <3> QED BY <3>1, <3>2
  <2>3. \A k \in DOMAIN final : final[k].id # NoId /\ acc.partials[final[k].index].named
    BY <1>5
  <2> HIDE DEF final, fails
  <2>4. ASSUME NEW k \in DOMAIN final
        PROVE  /\ final[k].index \in Nat
               /\ acc.partials[final[k].index] \in Partials
               /\ final[k].index \in acc.started
    BY <2>1, <2>2, <2>3 DEF AccOK
  <2>5. \A k \in DOMAIN final : LET i == final[k].index IN
          /\ acc.partials[i].args \in Seq(Pieces)
          /\ \A n \in DOMAIN acc.partials[i].args : acc.partials[i].args[n] = Piece("args", i, n)
          /\ acc.partials[i].args # <<>> => i \in DOMAIN seen.byIndex
    <3> TAKE k \in DOMAIN final
    <3> DEFINE i == final[k].index
    <3>1. i \in DOMAIN acc.partials
      BY <2>2
    <3>2. acc.partials[i].args \in Seq(Pieces)
      BY <2>4 DEF Partials
    <3>3. /\ \A n \in DOMAIN acc.partials[i].args : acc.partials[i].args[n] = Piece("args", i, n)
          /\ acc.partials[i].args # <<>> => i \in DOMAIN seen.byIndex
      BY <1>1, <3>1 DEF LoopIInv, ArgumentsOnce
    <3> QED BY <3>2, <3>3
  <2>6. Complete(seen, final)
    <3> SUFFICES ASSUME NEW k \in DOMAIN final
                 PROVE  \/ final[k].index \in DOMAIN seen.byIndex
                        \/ /\ final[k].args = <<Piece("args", final[k].index, 0)>>
                           /\ Piece("args", final[k].index, 0) \notin seen.counted
      BY <2>2 DEF Complete
    <3> DEFINE i == final[k].index
               p == Piece("args", i, 0)
    <3>1. CASE acc.partials[i].args # <<>>
      BY <2>5, <3>1
    <3>2. CASE acc.partials[i].args = <<>>
      <4>1. final[k].args = <<p>>
        BY <2>2, <3>2 DEF FinalArguments
      <4>2. p.of = "args" /\ p.turn = toolTurns /\ p.n = 0 /\ p.at = i
        BY DEF Piece
      <4>3. p \notin seen.counted
        <5> SUFFICES ASSUME p \in seen.counted PROVE FALSE
          OBVIOUS
        <5>1. p.n \in 1..Len(acc.partials[p.at].args)
          BY <1>1, <4>2 DEF LoopIInv, ArgumentsOnce
        <5>2. Len(acc.partials[p.at].args) = 0
          BY <3>2, <4>2
        <5> QED BY <4>2, <5>1, <5>2
      <4> QED BY <4>1, <4>3
    <3> QED BY <3>1, <3>2
  <2>7. /\ SeenOK(seen') /\ seen'.terminal = seen.terminal
        /\ \A j \in DOMAIN final : final[j].id \in DOMAIN seen'.byId
        /\ \A p \in seen'.counted :
             p \in seen.counted \/ \E j \in DOMAIN final : p = Piece("args", final[j].index, 0)
    BY <1>3, <1>5, <2>1, <2>2, <2>6, AllCompletedIs
  <2>8. ASSUME NEW p \in seen'.counted PROVE p.of # "diff" /\ p.turn \in Nat /\ p.turn =< toolTurns
    <3>1. CASE p \in seen.counted
      <4>1. p \in Pieces
        BY <2>1, <3>1 DEF SeenOK
      <4> QED BY <3>1, <4>1 DEF LoopIInv, OutputsOnce, Pieces
    <3>2. ASSUME NEW j \in DOMAIN final, p = Piece("args", final[j].index, 0)
          PROVE  p.of # "diff" /\ p.turn \in Nat /\ p.turn =< toolTurns
      BY <2>1, <3>2 DEF Piece
    <3> QED BY <2>7, <3>1, <3>2
  <2>9. \A id \in DOMAIN seen'.terminal : \A n \in DOMAIN seen'.terminal[id] :
          seen'.terminal[id][n].turn \in Nat /\ seen'.terminal[id][n].turn =< toolTurns
    <3> SUFFICES ASSUME NEW id \in DOMAIN seen.terminal, NEW n \in DOMAIN seen.terminal[id]
                 PROVE  seen.terminal[id][n].turn \in Nat /\ seen.terminal[id][n].turn =< toolTurns
      BY <2>7
    <3>1. seen.terminal[id][n] \in Pieces
      BY <2>1 DEF SeenOK
    <3> QED BY <3>1 DEF LoopIInv, OutputsOnce, Pieces
  <2>10. toolTurns' \in Nat /\ toolTurns =< toolTurns'
    BY <1>3, <1>5, <2>1
  <2> DEFINE g == items \o Emitted(acc, final)
  <2>11. /\ g \in Seq(Items)
         /\ Fresh(g) => Fresh(items)
         /\ InOrder(items, {}) /\ Fresh(g) /\ final = <<>> => InOrder(g, {})
         /\ InOrder(items, {}) /\ Fresh(g) /\ final # <<>> =>
              /\ g # <<>> /\ g[Len(g)] = [kind |-> "assistant", calls |-> final]
              /\ InOrder(g, IdsOf(g[Len(g)]))
    BY <2>1, <2>2, EmittedIs
  <2>12. Fresh(items) => InOrder(items, {})
    BY <1>1 DEF LoopIInv, HistoryInOrder
  <2> HIDE DEF g
  <2>13. place' \in {"completed", "limit", "batch"}
         /\ (place' = "completed" => final = <<>> /\ items' = g)
         /\ (place' = "limit" => items' = items)
         /\ (place' = "batch" => final # <<>> /\ items' = g /\ toolTurns' = toolTurns + 1)
    BY <1>3, <1>5 DEF g
  <2>14. LoopTypes'
    <3>1. place' \in LoopPlaces /\ items' \in Seq(Items)
      BY <2>1, <2>11, <2>13 DEF LoopPlaces, Ended
    <3>2. calls' \in Seq(Calls)
      BY <1>3, <1>5, <2>2
    <3>3. Len(results') \in Nat /\ results' \in Seq([id : CallIds \cup {NoId}, terminates : BOOLEAN])
      <4>1. results' = <<>>
        BY <1>3, <1>5
      <4> QED BY <4>1, EmptySeq
    <3>4. shown' \in Seq(Pieces) /\ printed' \in Seq(Pieces) /\ AccOK(acc')
      BY <1>1 DEF LoopIInv, LoopTypes
    <3> QED BY <2>7, <2>10, <3>1, <3>2, <3>3, <3>4 DEF LoopTypes
  <2>15. ArgumentsOnce'
    <3>1. place' = "batch" => \A p \in seen'.counted : p.turn < toolTurns'
      BY <2>1, <2>8, <2>13
    <3>2. place' \notin {"stream", "next", "running"}
      BY <2>13
    <3> QED BY <3>1, <3>2 DEF ArgumentsOnce
  <2>16. OutputsOnce'
    <3>1. \A p \in seen'.counted : p.of # "diff" /\ p.turn =< toolTurns'
      BY <2>1, <2>8, <2>10
    <3>2. \A id \in DOMAIN seen'.terminal : \A n \in DOMAIN seen'.terminal[id] :
            seen'.terminal[id][n].turn =< toolTurns'
      BY <2>1, <2>9, <2>10
    <3>3. place' # "running"
      BY <2>13
    <3>4. ASSUME place' = "batch"
          PROVE  /\ Len(results') =< Len(calls')
                 /\ \A p \in seen'.counted : p.turn < toolTurns'
                 /\ \A id \in DOMAIN seen'.terminal : \A n \in DOMAIN seen'.terminal[id] :
                      seen'.terminal[id][n].turn < toolTurns'
      <4>1. toolTurns' = toolTurns + 1
        BY <2>13, <3>4
      <4>2. results' = <<>> /\ calls' = final /\ Len(final) \in Nat
        BY <1>3, <1>5, <2>2
      <4>3. Len(results') =< Len(calls')
        BY <4>2
      <4>4. \A p \in seen'.counted : p.turn < toolTurns'
        BY <2>1, <2>8, <4>1
      <4> QED BY <2>1, <2>9, <4>1, <4>3, <4>4
    <3> QED BY <3>1, <3>2, <3>3, <3>4 DEF OutputsOnce, Before
  <2>17. BatchIsStreamed'
    <3> SUFFICES ASSUME place' = "batch", NEW k \in DOMAIN final
                 PROVE  LET c == final[k] IN
                        /\ c.id \in DOMAIN seen'.byId
                        /\ \A m \in DOMAIN final : final[m].index = c.index => m = k
                        /\ c.index \in acc.started /\ acc.partials[c.index].id = c.id
                        /\ c.args # <<>>
                        /\ \A n \in DOMAIN c.args :
                             /\ c.args[n].at = c.index /\ c.args[n].turn = toolTurns' - 1
                             /\ c.args[n].n \in {0, n}
      <4>1. calls' = final /\ acc' = acc /\ place' # "running"
        BY <1>1, <1>3, <1>5, <2>13
      <4> QED BY <4>1 DEF BatchIsStreamed
    <3> DEFINE i == final[k].index
    <3>1. toolTurns' - 1 = toolTurns
      BY <2>1, <2>13
    <3>2. /\ final[k].args # <<>>
          /\ \A n \in DOMAIN final[k].args :
               /\ final[k].args[n].at = i /\ final[k].args[n].turn = toolTurns
               /\ final[k].args[n].n \in {0, n}
      <4>1. CASE acc.partials[i].args = <<>>
        <5>1. final[k].args = <<Piece("args", i, 0)>>
          BY <2>2, <4>1 DEF FinalArguments
        <5> QED BY <5>1 DEF Piece
      <4>2. CASE acc.partials[i].args # <<>>
        <5>1. final[k].args = acc.partials[i].args
          BY <2>2, <4>2 DEF FinalArguments
        <5>2. ASSUME NEW n \in DOMAIN final[k].args
              PROVE  /\ final[k].args[n].at = i /\ final[k].args[n].turn = toolTurns
                     /\ final[k].args[n].n \in {0, n}
          <6>1. final[k].args[n] = Piece("args", i, n)
            BY <2>5, <5>1
          <6> QED BY <6>1 DEF Piece
        <5> QED BY <4>2, <5>1, <5>2
      <4> QED BY <4>1, <4>2
    <3> QED BY <2>2, <2>4, <2>7, <3>1, <3>2
  <2>18. HistoryInOrder'
    <3> SUFFICES ASSUME Fresh(items')
                 PROVE  /\ place' # "batch" => InOrder(items', {})
                        /\ place' = "batch" =>
                             /\ items' # <<>>
                             /\ items'[Len(items')] = [kind |-> "assistant", calls |-> calls']
                             /\ InOrder(items', IdsOf(items'[Len(items')]))
      BY <2>13 DEF HistoryInOrder, InOrder, NamesOf, Fresh, IdsOf
    <3>1. calls' = final
      BY <1>3, <1>5
    <3> QED BY <2>11, <2>12, <2>13, <3>1
  <2>19. StoredText(acc') = shown'
    BY <1>1 DEF LoopIInv
  <2> QED BY <2>14, <2>15, <2>16, <2>17, <2>18, <2>19 DEF LoopIInv
<1> QED BY <1>4, <1>5

(* Outputs that are known are of calls that have returned, or of the one     *)
(* that is about to; and what a return counts is of that one.                *)
SeenBefore ==
  /\ \A p \in seen.counted : p.of = "output" => Before(p, Len(results)) \/ p.at = Call.index
  /\ \A id \in DOMAIN seen.terminal : \A n \in DOMAIN seen.terminal[id] :
       \/ Before(seen.terminal[id][n], Len(results))
       \/ seen.terminal[id][n].at = Call.index
CountsOnlyOutput(t) ==
  \A p \in t.counted :
    p \in seen.counted \/ (p.of = "output" /\ p.turn = toolTurns /\ p.at = Call.index)

(* The call whose turn it is.                                                *)
LEMMA CallIs ==
  ASSUME LoopIInv, Len(results) < Len(calls)
  PROVE  /\ Len(results) \in Nat /\ Len(results) + 1 \in DOMAIN calls
         /\ Call \in Calls /\ Call = calls[Len(results) + 1]
         /\ Call.index \in Nat /\ Call.id \in CallIds \cup {NoId}
<1>1. calls \in Seq(Calls) /\ Len(results) \in Nat
  BY DEF LoopIInv, LoopTypes
<1>2. Len(results) + 1 \in DOMAIN calls
  BY <1>1
<1>3. Call = calls[Len(results) + 1] /\ Call \in Calls
  BY <1>1, <1>2 DEF Call
<1> QED BY <1>1, <1>2, <1>3 DEF Calls

(* A step of which the invariants are not: a request to stop, or none.       *)
LEMMA SameKeeps ==
  ASSUME LoopIInv, UNCHANGED <<place, items, toolTurns, acc, seen, shown, calls, results, printed>>
  PROVE  LoopIInv'
<1>1. LoopTypes'
  BY DEF LoopIInv, LoopTypes
<1>2. ArgumentsOnce'
  BY DEF LoopIInv, ArgumentsOnce, Piece
<1>3. OutputsOnce'
  BY DEF LoopIInv, OutputsOnce, Before, Snapshot, Call, LastPieces, Piece
<1>4. BatchIsStreamed'
  BY DEF LoopIInv, BatchIsStreamed
<1>5. HistoryInOrder'
  BY DEF LoopIInv, HistoryInOrder
<1>6. StoredText(acc') = shown'
  BY DEF LoopIInv
<1> QED BY <1>1, <1>2, <1>3, <1>4, <1>5, <1>6 DEF LoopIInv

(* A call returns, having counted at most its own output.                    *)
LEMMA ReturnKeeps ==
  ASSUME LoopIInv, place \in {"batch", "running"}, place' = "batch", Len(results) < Len(calls),
         NEW t \in BOOLEAN, results' = Append(results, [id |-> Call.id, terminates |-> t]),
         printed' = <<>>, UNCHANGED <<items, toolTurns, acc, shown, calls>>,
         SeenBefore, CountsOnlyOutput(seen'), SeenOK(seen'),
         seen'.byId = seen.byId, seen'.terminal = seen.terminal
  PROVE  LoopIInv'
<1> DEFINE n == Len(results)
<1>1. /\ n \in Nat /\ n + 1 \in DOMAIN calls /\ Call = calls[n + 1]
      /\ Call.id \in CallIds \cup {NoId} /\ toolTurns \in Nat /\ calls \in Seq(Calls)
      /\ results \in Seq([id : CallIds \cup {NoId}, terminates : BOOLEAN])
  BY CallIs DEF LoopIInv, LoopTypes
<1>2. Len(results') = n + 1 /\ results' \in Seq([id : CallIds \cup {NoId}, terminates : BOOLEAN])
  BY <1>1
<1> HIDE DEF n
<1>3. LoopTypes'
  <2>1. place' \in LoopPlaces /\ printed' \in Seq(Pieces)
    BY EmptySeq DEF LoopPlaces
  <2> QED BY <1>1, <1>2, <2>1 DEF LoopIInv, LoopTypes
<1>4. ASSUME NEW p, Before(p, n) \/ p.at = Call.index
      PROVE  p.turn < toolTurns \/ \E j \in 1..(n + 1) : p.at = calls[j].index
  <2>1. CASE Before(p, n)
    <3>1. 1..n \subseteq 1..(n + 1)
      BY <1>1
    <3> QED BY <2>1, <3>1 DEF Before
  <2>2. CASE p.at = Call.index
    <3>1. n + 1 \in 1..(n + 1)
      BY <1>1
    <3> QED BY <1>1, <2>2, <3>1
  <2> QED BY <1>4, <2>1, <2>2
<1>5. \A p \in seen.counted : p \in Pieces
  BY DEF LoopIInv, LoopTypes, SeenOK
<1>6. ArgumentsOnce'
  <2>1. \A p \in seen'.counted : p.of = "args" => p.turn < toolTurns
    BY DEF LoopIInv, ArgumentsOnce, CountsOnlyOutput
  <2> QED BY <2>1 DEF ArgumentsOnce
<1>7. OutputsOnce'
  <2>1. \A p \in seen'.counted : p.of # "diff" /\ p.turn =< toolTurns
    BY <1>1 DEF LoopIInv, OutputsOnce, CountsOnlyOutput
  <2>2. \A id \in DOMAIN seen.terminal : \A k \in DOMAIN seen.terminal[id] :
          seen.terminal[id][k].turn =< toolTurns
    BY DEF LoopIInv, OutputsOnce
  <2>3. \A p \in seen'.counted : p.of = "output" =>
          p.turn < toolTurns \/ \E j \in 1..(n + 1) : p.at = calls[j].index
    <3> TAKE p \in seen'.counted
    <3> HAVE p.of = "output"
    <3>1. Before(p, n) \/ p.at = Call.index
      BY DEF CountsOnlyOutput, SeenBefore, n
    <3> QED BY <1>4, <3>1
  <2>4. \A id \in DOMAIN seen.terminal : \A k \in DOMAIN seen.terminal[id] :
          \/ seen.terminal[id][k].turn < toolTurns
          \/ \E j \in 1..(n + 1) : seen.terminal[id][k].at = calls[j].index
    <3> TAKE id \in DOMAIN seen.terminal
    <3> TAKE k \in DOMAIN seen.terminal[id]
    <3>1. Before(seen.terminal[id][k], n) \/ seen.terminal[id][k].at = Call.index
      BY DEF SeenBefore, n
    <3> QED BY <1>4, <3>1
  <2>5. Len(results') =< Len(calls')
    BY <1>1, <1>2
  <2> QED BY <1>2, <2>1, <2>2, <2>3, <2>4, <2>5 DEF OutputsOnce, Before
<1>8. BatchIsStreamed'
  BY DEF LoopIInv, BatchIsStreamed
<1>9. HistoryInOrder'
  BY DEF LoopIInv, HistoryInOrder
<1>10. StoredText(acc') = shown'
  BY DEF LoopIInv
<1> QED BY <1>3, <1>6, <1>7, <1>8, <1>9, <1>10 DEF LoopIInv

LEMMA BatchSeenBefore ==
  ASSUME LoopIInv, place = "batch"
  PROVE  SeenBefore
BY DEF LoopIInv, OutputsOnce, SeenBefore

LEMMA RunningSeenBefore ==
  ASSUME LoopIInv, place = "running"
  PROVE  SeenBefore /\ Len(results) < Len(calls)
BY DEF LoopIInv, OutputsOnce, SeenBefore, Snapshot

(* An output that is empty has nothing new.                                  *)
LEMMA NothingIsNew ==
  ASSUME NEW previous \in Seq(Pieces), NEW current \in Seq(Pieces)
  PROVE  Len(current) = 0 => ToSet(TerminalDelta(previous, current)) = {}
<1>1. \A p \in ToSet(TerminalDelta(previous, current)) :
         \E j \in 1..Len(current) : p = current[j]
  BY DeltaIsCurrent
<1>2. Len(current) = 0 => 1..Len(current) = {}
  OBVIOUS
<1> QED BY <1>1, <1>2

LEMMA ReturnWithoutRunningKeeps ==
  ASSUME LoopIInv, ReturnWithoutRunning
  PROVE  LoopIInv'
<1> DEFINE previous == At(seen.terminal, Call.id)
           none == <<>>
           delta == TerminalDelta(previous, none)
<1>1. /\ place = "batch" /\ Len(results) < Len(calls) /\ place' = "batch" /\ printed' = <<>>
      /\ results' = Append(results, [id |-> Call.id, terminates |-> FALSE])
      /\ seen' = Counted(seen, delta)
      /\ UNCHANGED <<items, toolTurns, acc, shown, calls>>
  BY DEF ReturnWithoutRunning, CallsWait, ReturnResult, streamVars, ObserveResult
<1>2. SeenOK(seen) /\ none \in Seq(Pieces) /\ Len(none) = 0
  BY EmptySeq DEF LoopIInv, LoopTypes
<1>3. previous \in Seq(Pieces)
  BY <1>2, AtIs DEF SeenOK
<1> HIDE DEF none, previous
<1>4. ToSet(delta) = {}
  BY <1>2, <1>3, NothingIsNew
<1> HIDE DEF delta
<1>5. /\ SeenOK(seen') /\ seen'.byId = seen.byId /\ seen'.terminal = seen.terminal
      /\ seen'.counted = seen.counted
  <2>1. ToSet(delta) \in SUBSET Pieces /\ ToSet(delta) \cap seen.counted = {}
    BY <1>4
  <2>2. /\ SeenOK(seen') /\ seen'.byId = seen.byId /\ seen'.terminal = seen.terminal
        /\ seen'.counted = seen.counted \cup ToSet(delta)
    BY <1>1, <1>2, <2>1, CountedIs
  <2> QED BY <1>4, <2>2
<1>6. CountsOnlyOutput(seen')
  BY <1>5 DEF CountsOnlyOutput
<1>7. SeenBefore
  BY <1>1, BatchSeenBefore
<1>8. FALSE \in BOOLEAN /\ place \in {"batch", "running"}
  BY <1>1
<1> QED BY <1>1, <1>5, <1>6, <1>7, <1>8, ReturnKeeps

LEMMA WriteReturnsKeeps ==
  ASSUME LoopIInv, WriteReturns
  PROVE  LoopIInv'
<1>1. /\ place = "running" /\ place' = "batch" /\ printed' = <<>>
      /\ results' = Append(results, [id |-> Call.id, terminates |-> FALSE])
      /\ seen' = ObserveResult(seen, Call.id, <<Piece("diff", Call.index, 1)>>, TRUE)
      /\ UNCHANGED <<items, toolTurns, acc, shown, calls>>
  BY DEF WriteReturns, ReturnResult, streamVars
<1>2. SeenBefore /\ Len(results) < Len(calls)
  BY <1>1, RunningSeenBefore
<1>3. Len(results) + 1 \in DOMAIN calls /\ Call = calls[Len(results) + 1]
  BY <1>2, CallIs
<1>4. Call.id \in DOMAIN seen.byId
  BY <1>1, <1>3 DEF LoopIInv, BatchIsStreamed
<1>5. seen' = seen
  BY <1>1, <1>4 DEF ObserveResult
<1>6. SeenOK(seen') /\ seen'.byId = seen.byId /\ seen'.terminal = seen.terminal
  BY <1>5 DEF LoopIInv, LoopTypes
<1>7. CountsOnlyOutput(seen')
  BY <1>5 DEF CountsOnlyOutput
<1>8. FALSE \in BOOLEAN /\ place \in {"batch", "running"}
  BY <1>1
<1> QED BY <1>1, <1>2, <1>6, <1>7, <1>8, ReturnKeeps

(* What the output shows for the first time was not counted.                 *)
LEMMA OutputIsNew ==
  ASSUME LoopIInv, place = "running", NEW m \in 0..Len(printed), Snapshot(m)
  PROVE  LET delta == ToSet(TerminalDelta(At(seen.terminal, Call.id), LastPieces(printed)))
         IN  /\ LastPieces(printed) \in Seq(Pieces) /\ delta \cap seen.counted = {}
             /\ \A p \in delta : \E j \in 1..Len(printed) : p = Piece("output", Call.index, j)
<1> DEFINE previous == At(seen.terminal, Call.id)
           delta == ToSet(TerminalDelta(previous, LastPieces(printed)))
           n == Len(printed)
<1>1. /\ Len(results) < Len(calls) /\ SeenOK(seen) /\ printed \in Seq(Pieces)
      /\ \A k \in DOMAIN printed : printed[k] = Piece("output", Call.index, k)
      /\ n \in Nat /\ DOMAIN printed = 1..n /\ toolTurns \in Nat
  BY DEF LoopIInv, LoopTypes, OutputsOnce
<1>2. previous \in Seq(Pieces)
  BY <1>1, AtIs DEF SeenOK
<1>3. m > 0 => previous = LastPieces(SubSeq(printed, 1, m))
  BY DEF Snapshot, At
<1> HIDE DEF previous
<1>4. LastPieces(printed) \in Seq(Pieces)
  BY <1>1, LastPiecesAre
<1>5. \A p \in delta : \E j \in (m + 1)..n : p = printed[j]
  BY <1>1, <1>2, <1>3, SnapshotIsNew
<1> HIDE DEF delta
<1>6. ASSUME NEW p \in delta
      PROVE  p \notin seen.counted /\ \E j \in 1..n : p = Piece("output", Call.index, j)
  <2>1. PICK j \in (m + 1)..n : p = printed[j]
    BY <1>5
  <2>2. j \in 1..n /\ m \in Nat
    BY <1>1
  <2>3. p = Piece("output", Call.index, j)
    BY <1>1, <2>1, <2>2
  <2>4. p.of = "output" /\ p.at = Call.index /\ p.n = j /\ p.turn = toolTurns
    BY <2>3 DEF Piece
  <2>5. p \notin seen.counted
    <3> SUFFICES ASSUME p \in seen.counted PROVE FALSE
      OBVIOUS
    <3>1. ~(p.n =< m) /\ ~(p.turn < toolTurns)
      BY <1>1, <2>1, <2>2, <2>4
    <3>2. Before(p, Len(results))
      BY <2>4, <3>1 DEF Snapshot
    <3>3. PICK i \in 1..Len(results) : p.at = calls[i].index
      BY <3>1, <3>2 DEF Before
    <3>4. /\ Len(results) \in Nat /\ Len(results) + 1 \in DOMAIN calls
          /\ Call = calls[Len(results) + 1]
      BY <1>1, CallIs
    <3>5. i \in DOMAIN calls /\ i # Len(results) + 1
      <4>1. calls \in Seq(Calls)
        BY DEF LoopIInv, LoopTypes
      <4> QED BY <1>1, <3>4, <4>1
    <3> QED BY <2>4, <3>3, <3>4, <3>5 DEF LoopIInv, BatchIsStreamed
  <2> QED BY <2>2, <2>3, <2>5
<1> QED BY <1>4, <1>6 DEF delta, previous

LEMMA CommandReturnsKeeps ==
  ASSUME LoopIInv, CommandReturns
  PROVE  LoopIInv'
<1> DEFINE delta == TerminalDelta(At(seen.terminal, Call.id), LastPieces(printed))
<1>1. PICK t \in BOOLEAN :
      /\ place = "running" /\ place' = "batch" /\ printed' = <<>>
      /\ results' = Append(results, [id |-> Call.id, terminates |-> t])
      /\ seen' = Counted(seen, delta)
      /\ UNCHANGED <<items, toolTurns, acc, shown, calls>>
  BY DEF CommandReturns, ReturnResult, streamVars, ObserveResult
<1>2. PICK m \in 0..Len(printed) : Snapshot(m)
  BY <1>1 DEF LoopIInv, OutputsOnce
<1>3. /\ ToSet(delta) \cap seen.counted = {}
      /\ \A p \in ToSet(delta) : \E j \in 1..Len(printed) : p = Piece("output", Call.index, j)
  BY <1>1, <1>2, OutputIsNew
<1>4. SeenOK(seen) /\ toolTurns \in Nat /\ Len(printed) \in Nat
  BY DEF LoopIInv, LoopTypes
<1>7. SeenBefore /\ Len(results) < Len(calls)
  BY <1>1, RunningSeenBefore
<1> HIDE DEF delta
<1>9. ASSUME NEW p \in ToSet(delta)
      PROVE  p \in Pieces /\ p.of = "output" /\ p.turn = toolTurns /\ p.at = Call.index
  <2>1. PICK j \in 1..Len(printed) : p = Piece("output", Call.index, j)
    BY <1>3
  <2>2. Call.index \in Nat /\ j \in Nat
    BY <1>4, <1>7, CallIs
  <2> QED BY <1>4, <2>1, <2>2, PieceIs
<1>5. /\ SeenOK(seen') /\ seen'.byId = seen.byId /\ seen'.terminal = seen.terminal
      /\ seen'.counted = seen.counted \cup ToSet(delta)
  <2>1. ToSet(delta) \in SUBSET Pieces
    BY <1>9
  <2> QED BY <1>1, <1>3, <1>4, <2>1, CountedIs
<1>6. CountsOnlyOutput(seen')
  BY <1>5, <1>9 DEF CountsOnlyOutput
<1>8. place \in {"batch", "running"}
  BY <1>1
<1> QED BY <1>1, <1>5, <1>6, <1>7, <1>8, ReturnKeeps

LEMMA RunToolKeeps ==
  ASSUME LoopIInv, RunTool
  PROVE  LoopIInv'
<1>1. /\ place = "batch" /\ Len(results) < Len(calls) /\ place' = "running" /\ printed' = <<>>
      /\ UNCHANGED <<items, toolTurns, acc, seen, shown, calls, results>>
  BY DEF RunTool, CallsWait, streamVars
<1>2. LoopTypes'
  <2>1. place' \in LoopPlaces /\ printed' \in Seq(Pieces)
    BY <1>1, EmptySeq DEF LoopPlaces
  <2> QED BY <1>1, <2>1 DEF LoopIInv, LoopTypes
<1>3. ArgumentsOnce'
  BY <1>1 DEF LoopIInv, ArgumentsOnce
<1>4. OutputsOnce'
  <2>1. Snapshot(0)'
    <3>1. \A p \in seen.counted : p.of = "output" => Before(p, Len(results))
      BY <1>1 DEF LoopIInv, OutputsOnce
    <3>2. \A id \in DOMAIN seen.terminal : \A n \in DOMAIN seen.terminal[id] :
            Before(seen.terminal[id][n], Len(results))
      BY <1>1 DEF LoopIInv, OutputsOnce
    <3> QED BY <1>1, <3>1, <3>2 DEF Snapshot, Before
  <2>2. Len(printed') = 0 /\ DOMAIN printed' = {}
    BY <1>1
  <2>3. 0 \in 0..Len(printed')
    BY <2>2
  <2>4. /\ \A p \in seen.counted : p.of # "diff" /\ p.turn =< toolTurns
        /\ \A id \in DOMAIN seen.terminal : \A n \in DOMAIN seen.terminal[id] :
             seen.terminal[id][n].turn =< toolTurns
    BY DEF LoopIInv, OutputsOnce
  <2>5. (\E m \in 0..Len(printed) : Snapshot(m))'
    BY <2>1, <2>3
  <2> QED BY <1>1, <2>2, <2>4, <2>5 DEF OutputsOnce
<1>5. BatchIsStreamed'
  BY <1>1 DEF LoopIInv, BatchIsStreamed
<1>6. HistoryInOrder'
  BY <1>1 DEF LoopIInv, HistoryInOrder
<1>7. StoredText(acc') = shown'
  BY <1>1 DEF LoopIInv
<1> QED BY <1>2, <1>3, <1>4, <1>5, <1>6, <1>7 DEF LoopIInv

(* What is printed now no snapshot has shown.                                *)
LEMMA CommandPrintsKeeps ==
  ASSUME LoopIInv, CommandPrints
  PROVE  LoopIInv'
<1> DEFINE n == Len(printed)
           piece == Piece("output", Call.index, n + 1)
<1>1. /\ place = "running" /\ printed' = Append(printed, piece)
      /\ UNCHANGED <<place, items, toolTurns, acc, seen, shown, calls, results>>
  BY DEF CommandPrints, streamVars
<1>2. /\ printed \in Seq(Pieces) /\ n \in Nat /\ DOMAIN printed = 1..n /\ toolTurns \in Nat
      /\ Len(results) < Len(calls) /\ Call.index \in Nat
      /\ \A k \in DOMAIN printed : printed[k] = Piece("output", Call.index, k)
  BY <1>1, CallIs DEF LoopIInv, LoopTypes, OutputsOnce
<1>3. piece \in Pieces
  BY <1>2, PieceIs
<1>4. /\ printed' \in Seq(Pieces) /\ Len(printed') = n + 1 /\ DOMAIN printed' = 1..(n + 1)
      /\ printed'[n + 1] = piece /\ \A k \in 1..n : printed'[k] = printed[k]
  <2> HIDE DEF piece
  <2> QED BY <1>1, <1>2, <1>3
<1>5. LoopTypes'
  BY <1>1, <1>4 DEF LoopIInv, LoopTypes
<1>6. ArgumentsOnce'
  BY <1>1 DEF LoopIInv, ArgumentsOnce
<1>7. OutputsOnce'
  <2>1. PICK m \in 0..n : Snapshot(m)
    BY <1>1 DEF LoopIInv, OutputsOnce
  <2> HIDE DEF n
  <2>2. m \in 0..(n + 1) /\ 0 =< m /\ m =< n /\ m \in Nat
    BY <1>2
  <2>3. SubSeq(printed', 1, m) = SubSeq(printed, 1, m)
    <3>1. /\ SubSeq(printed', 1, m) \in Seq(Pieces) /\ Len(SubSeq(printed', 1, m)) = m
          /\ \A j \in 1..m : SubSeq(printed', 1, m)[j] = printed'[j]
      BY <1>4, <2>2, StartOfSequence
    <3>2. /\ SubSeq(printed, 1, m) \in Seq(Pieces) /\ Len(SubSeq(printed, 1, m)) = m
          /\ \A j \in 1..m : SubSeq(printed, 1, m)[j] = printed[j]
      BY <1>2, <2>2, StartOfSequence DEF n
    <3>3. \A j \in 1..m : j \in 1..n
      BY <1>2, <2>2
    <3> QED BY <1>4, <3>1, <3>2, <3>3, SeqEqual
  <2>4. Snapshot(m)'
    <3>1. /\ \A p \in seen.counted : p.of = "output" =>
               Before(p, Len(results)) \/ (p.at = Call.index /\ p.n =< m)
          /\ \A id \in DOMAIN seen.terminal : \A k \in DOMAIN seen.terminal[id] :
               \/ Before(seen.terminal[id][k], Len(results))
               \/ (m > 0 /\ seen.terminal[id][k].at = Call.index)
          /\ m > 0 => /\ Call.id \in DOMAIN seen.terminal
                      /\ seen.terminal[Call.id] = LastPieces(SubSeq(printed, 1, m))
      BY <2>1 DEF Snapshot
    <3>2. Call' = Call /\ seen' = seen /\ results' = results
      BY <1>1 DEF Call
    <3>3. \A p : Before(p, Len(results))' = Before(p, Len(results))
      BY <1>1 DEF Before
    <3>4. LastPieces(SubSeq(printed, 1, m))' = LastPieces(SubSeq(printed, 1, m))
      BY <2>3 DEF LastPieces
    <3>5. /\ \A p \in seen'.counted : p.of = "output" =>
               Before(p, Len(results))' \/ (p.at = Call'.index /\ p.n =< m)
          /\ \A id \in DOMAIN seen'.terminal : \A k \in DOMAIN seen'.terminal[id] :
               \/ Before(seen.terminal[id][k], Len(results))'
               \/ (m > 0 /\ seen'.terminal[id][k].at = Call'.index)
          /\ m > 0 => /\ Call'.id \in DOMAIN seen'.terminal
                      /\ seen'.terminal[Call'.id] = LastPieces(SubSeq(printed, 1, m))'
      BY <1>1, <3>1, <3>2, <3>4 DEF Before
    <3> QED BY <3>5 DEF Snapshot
  <2>5. m \in 0..Len(printed')
    BY <1>4, <2>2
  <2>6. (\E k \in 0..Len(printed) : Snapshot(k))'
    BY <2>4, <2>5
  <2>7. (\A k \in DOMAIN printed : printed[k] = Piece("output", Call.index, k))'
    <3> SUFFICES ASSUME NEW k \in 1..(n + 1)
                 PROVE  printed'[k] = Piece("output", Call.index, k)
      BY <1>1, <1>4 DEF Piece, Call
    <3>1. CASE k = n + 1
      BY <1>4, <3>1
    <3>2. CASE k # n + 1
      <4>1. k \in 1..n
        BY <1>2, <3>2
      <4> QED BY <1>2, <1>4, <4>1
    <3> QED BY <3>1, <3>2
  <2>8. /\ \A p \in seen.counted : p.of # "diff" /\ p.turn =< toolTurns
        /\ \A id \in DOMAIN seen.terminal : \A k \in DOMAIN seen.terminal[id] :
             seen.terminal[id][k].turn =< toolTurns
    BY DEF LoopIInv, OutputsOnce
  <2> QED BY <1>1, <1>2, <2>6, <2>7, <2>8 DEF OutputsOnce
<1>8. BatchIsStreamed'
  BY <1>1 DEF LoopIInv, BatchIsStreamed
<1>9. HistoryInOrder'
  BY <1>1 DEF LoopIInv, HistoryInOrder
<1>10. StoredText(acc') = shown'
  BY <1>1 DEF LoopIInv
<1> QED BY <1>5, <1>6, <1>7, <1>8, <1>9, <1>10 DEF LoopIInv

(* A snapshot counts what was printed after the one before.                  *)
LEMMA TerminalUpdatedKeeps ==
  ASSUME LoopIInv, TerminalUpdated
  PROVE  LoopIInv'
<1> DEFINE id == Call.id
           output == LastPieces(printed)
           delta == ToSet(TerminalDelta(At(seen.terminal, id), output))
           n == Len(printed)
<1>1. /\ place = "running" /\ printed # <<>> /\ seen' = ObserveSnapshot(seen, id, output)
      /\ UNCHANGED <<place, items, toolTurns, acc, shown, calls, results, printed>>
  BY DEF TerminalUpdated, streamVars
<1>2. PICK m \in 0..n : Snapshot(m)
  BY <1>1 DEF LoopIInv, OutputsOnce
<1>3. /\ output \in Seq(Pieces) /\ delta \cap seen.counted = {}
      /\ \A p \in delta : \E j \in 1..n : p = Piece("output", Call.index, j)
  BY <1>1, <1>2, OutputIsNew
<1>4. /\ SeenOK(seen) /\ printed \in Seq(Pieces) /\ n \in Nat /\ n > 0 /\ toolTurns \in Nat
      /\ \A k \in DOMAIN printed : printed[k] = Piece("output", Call.index, k)
      /\ DOMAIN printed = 1..n
  BY <1>1 DEF LoopIInv, LoopTypes, OutputsOnce
<1>5. /\ Len(output) \in Nat /\ DOMAIN output = 1..Len(output)
      /\ \A k \in DOMAIN output : \E j \in 1..n : output[k] = printed[j]
  <2>1. /\ StartOf(printed) \in 0..n /\ Len(output) = n - StartOf(printed)
        /\ \A j \in 1..(n - StartOf(printed)) : output[j] = printed[StartOf(printed) + j]
    BY <1>4, LastPiecesAre, StartIs
  <2>2. Len(output) \in Nat /\ DOMAIN output = 1..Len(output)
    BY <1>3
  <2> HIDE DEF output, n
  <2>3. ASSUME NEW k \in DOMAIN output PROVE \E j \in 1..n : output[k] = printed[j]
    <3>1. StartOf(printed) + k \in 1..n /\ k \in 1..(n - StartOf(printed))
      BY <1>4, <2>1, <2>2
    <3> QED BY <2>1, <3>1
  <2> QED BY <2>2, <2>3
<1>6. /\ SeenOK(seen') /\ seen'.byId = seen.byId
      /\ seen'.counted = seen.counted \cup delta
      /\ seen'.terminal = Set(seen.terminal, id, output)
  <2>1. seen' = ObserveSnapshot(seen, id, output) /\ output \in Seq(Pieces)
    BY <1>1, <1>3
  <2>2. delta \cap seen.counted = {}
    BY <1>3
  <2> HIDE DEF id, output
  <2> QED BY <1>4, <2>1, <2>2, ObserveSnapshotIs
<1>13. LastPieces(SubSeq(printed, 1, n)) = output
  <2>1. SubSeq(printed, 1, n) = printed
    BY <1>4
  <2> QED BY <2>1
<1> HIDE DEF delta, output, n
<1>7. /\ DOMAIN seen'.terminal = DOMAIN seen.terminal \cup {id} /\ seen'.terminal[id] = output
      /\ \A y \in DOMAIN seen.terminal : y # id => seen'.terminal[y] = seen.terminal[y]
  BY <1>6 DEF Set
<1>8. ASSUME NEW p \in delta
      PROVE  p.of = "output" /\ p.turn = toolTurns /\ p.at = Call.index /\ p.n =< n
  <2>1. PICK j \in 1..n : p = Piece("output", Call.index, j)
    BY <1>3
  <2> QED BY <1>4, <2>1 DEF Piece
<1>9. ASSUME NEW k \in DOMAIN output
      PROVE  output[k].turn = toolTurns /\ output[k].at = Call.index
  <2>1. PICK j \in 1..n : output[k] = Piece("output", Call.index, j)
    BY <1>4, <1>5
  <2> QED BY <2>1 DEF Piece
<1> HIDE DEF id
<1>10. LoopTypes'
  BY <1>1, <1>6 DEF LoopIInv, LoopTypes
<1>11. ArgumentsOnce'
  <2>1. \A p \in seen'.counted : p.of = "args" => p.turn < toolTurns
    BY <1>1, <1>6, <1>8 DEF LoopIInv, ArgumentsOnce
  <2> QED BY <1>1, <2>1 DEF ArgumentsOnce
<1>12. OutputsOnce'
  <2>1. \A p \in seen'.counted : p.of # "diff" /\ p.turn =< toolTurns
    BY <1>4, <1>6, <1>8 DEF LoopIInv, OutputsOnce
  <2>2. \A y \in DOMAIN seen'.terminal : \A k \in DOMAIN seen'.terminal[y] :
          seen'.terminal[y][k].turn =< toolTurns
    <3> TAKE y \in DOMAIN seen'.terminal
    <3> TAKE k \in DOMAIN seen'.terminal[y]
    <3>1. CASE y = id
      BY <1>4, <1>7, <1>9, <3>1
    <3>2. CASE y # id
      BY <1>7, <3>2 DEF LoopIInv, OutputsOnce
    <3> QED BY <3>1, <3>2
  <2>3. ASSUME NEW p \in seen'.counted, p.of = "output"
        PROVE  Before(p, Len(results)) \/ (p.at = Call.index /\ p.n =< n)
    <3>1. CASE p \in seen.counted
      <4>1. p \in Pieces
        BY <1>4, <3>1 DEF SeenOK
      <4>2. Before(p, Len(results)) \/ (p.at = Call.index /\ p.n =< m)
        BY <1>2, <2>3, <3>1 DEF Snapshot
      <4>3. p.n \in Nat /\ m \in Nat /\ m =< n
        BY <1>4, <4>1 DEF Pieces
      <4> QED BY <1>4, <4>2, <4>3
    <3>2. CASE p \in delta
      BY <1>8, <3>2
    <3> QED BY <1>6, <3>1, <3>2
  <2>4. \A y \in DOMAIN seen'.terminal : \A k \in DOMAIN seen'.terminal[y] :
          \/ Before(seen'.terminal[y][k], Len(results))
          \/ (n > 0 /\ seen'.terminal[y][k].at = Call.index)
    <3> TAKE y \in DOMAIN seen'.terminal
    <3> TAKE k \in DOMAIN seen'.terminal[y]
    <3>1. CASE y = id
      BY <1>4, <1>7, <1>9, <3>1
    <3>2. CASE y # id
      BY <1>2, <1>4, <1>7, <3>2 DEF Snapshot
    <3> QED BY <3>1, <3>2
  <2>5. id \in DOMAIN seen'.terminal /\ seen'.terminal[id] = LastPieces(SubSeq(printed, 1, n))
    BY <1>7, <1>13
  <2>6. /\ \A p : Before(p, Len(results))' = Before(p, Len(results))
        /\ Call' = Call /\ printed' = printed
        /\ LastPieces(SubSeq(printed, 1, n))' = LastPieces(SubSeq(printed, 1, n))
    BY <1>1 DEF Before, Call, LastPieces, n
  <2>7. Snapshot(n)'
    <3>1. /\ \A p \in seen'.counted : p.of = "output" =>
               Before(p, Len(results))' \/ (p.at = Call'.index /\ p.n =< n)
          /\ \A y \in DOMAIN seen'.terminal : \A k \in DOMAIN seen'.terminal[y] :
               \/ Before(seen.terminal[y][k], Len(results))'
               \/ (n > 0 /\ seen'.terminal[y][k].at = Call'.index)
          /\ n > 0 => /\ Call'.id \in DOMAIN seen'.terminal
                      /\ seen'.terminal[Call'.id] = LastPieces(SubSeq(printed, 1, n))'
      BY <1>1, <2>3, <2>4, <2>5, <2>6 DEF Before, id
    <3>2. n' = n
      BY <1>1 DEF n
    <3> QED BY <3>1, <3>2 DEF Snapshot
  <2>8. n \in 0..Len(printed') /\ n' = n
    BY <1>1, <1>4 DEF n
  <2>9. (\E k \in 0..Len(printed) : Snapshot(k))'
    BY <2>7, <2>8
  <2>10. (\A k \in DOMAIN printed : printed[k] = Piece("output", Call.index, k))'
    BY <1>1, <1>4 DEF Piece, Call
  <2>11. Len(results) < Len(calls)
    BY <1>1 DEF LoopIInv, OutputsOnce
  <2> QED BY <1>1, <2>1, <2>2, <2>9, <2>10, <2>11 DEF OutputsOnce
<1>14. BatchIsStreamed'
  BY <1>1, <1>6 DEF LoopIInv, BatchIsStreamed
<1>15. HistoryInOrder'
  BY <1>1 DEF LoopIInv, HistoryInOrder
<1>16. StoredText(acc') = shown'
  BY <1>1 DEF LoopIInv
<1> QED BY <1>10, <1>11, <1>12, <1>14, <1>15, <1>16 DEF LoopIInv

(* A history with fresh names started with fresh names.                      *)
LEMMA FreshStart ==
  ASSUME NEW h \in Seq(Items), NEW r \in Seq(Items), Fresh(h \o r)
  PROVE  Fresh(h)
<1> DEFINE more == h \o r
<1>1. /\ DOMAIN h \subseteq DOMAIN more /\ \A k \in DOMAIN h : more[k] = h[k]
  OBVIOUS
<1> HIDE DEF more
<1>2. Fresh(more)
  BY DEF more
<1> QED BY <1>1, <1>2 DEF Fresh

(* The results of a whole batch close the history again.                     *)
LEMMA EndBatchKeeps ==
  ASSUME LoopIInv, EndBatch
  PROVE  LoopIInv'
<1> DEFINE r == [k \in DOMAIN calls |-> [kind |-> "result", calls |-> <<calls[k]>>]]
           last == items[Len(items)]
<1>1. /\ place = "batch" /\ ~(Len(results) < Len(calls))
      /\ items' = items \o ResultItems
      /\ place' \in {"cancelled", "completed", "next"}
      /\ UNCHANGED <<toolTurns, acc, seen, shown, calls, results, printed>>
  BY DEF EndBatch, CallsWait, streamVars
<1>2. /\ items \in Seq(Items) /\ calls \in Seq(Calls) /\ toolTurns \in Nat
      /\ results \in Seq([id : CallIds \cup {NoId}, terminates : BOOLEAN])
      /\ Len(results) =< Len(calls)
  BY <1>1 DEF LoopIInv, LoopTypes, OutputsOnce
<1>3. DOMAIN results = DOMAIN calls
  <2>1. Len(results) = Len(calls)
    BY <1>1, <1>2
  <2> QED BY <1>2, <2>1
<1>4. items' = items \o r
  BY <1>1, <1>3 DEF ResultItems
<1>5. r \in Seq(Items)
  <2>1. ASSUME NEW k \in DOMAIN calls PROVE [kind |-> "result", calls |-> <<calls[k]>>] \in Items
    <3>1. calls[k] \in Calls
      BY <1>2
    <3>2. <<calls[k]>> \in Seq(Calls)
      BY <3>1
    <3> QED BY <3>2 DEF Items, ItemKinds
  <2>2. DOMAIN calls = 1..Len(calls) /\ Len(calls) \in Nat
    BY <1>2
  <2> QED BY <2>1, <2>2
<1>6. r = [k \in DOMAIN calls |-> [kind |-> "result", calls |-> <<calls[k]>>]]
  OBVIOUS
<1> HIDE DEF r
<1>7. items' \in Seq(Items)
  BY <1>2, <1>4, <1>5
<1>8. LoopTypes'
  <2>1. place' \in LoopPlaces
    BY <1>1 DEF LoopPlaces, Ended
  <2> QED BY <1>1, <1>7, <2>1 DEF LoopIInv, LoopTypes
<1>9. ArgumentsOnce'
  <2>1. \A p \in seen.counted : p.of = "args" => p.turn < toolTurns
    BY <1>1 DEF LoopIInv, ArgumentsOnce
  <2> QED BY <1>1, <2>1 DEF ArgumentsOnce
<1>10. OutputsOnce'
  BY <1>1 DEF LoopIInv, OutputsOnce
<1>11. BatchIsStreamed'
  BY <1>1 DEF BatchIsStreamed
<1>12. HistoryInOrder'
  <2> SUFFICES ASSUME Fresh(items') PROVE InOrder(items', {})
    BY <1>1 DEF HistoryInOrder
  <2>1. Fresh(items)
    BY <1>2, <1>4, <1>5, FreshStart
  <2>2. /\ items # <<>> /\ last = [kind |-> "assistant", calls |-> calls]
        /\ InOrder(items, IdsOf(last))
    BY <1>1, <2>1 DEF LoopIInv, HistoryInOrder
  <2> DEFINE k == Len(items)
  <2>3. k \in DOMAIN items /\ items[k].kind = "assistant" /\ items[k].calls = calls
    BY <1>2, <2>2
  <2>4. \A i, j \in DOMAIN calls : calls[i].id = calls[j].id => i = j
    <3> HIDE DEF k
    <3> QED BY <2>1, <2>3 DEF Fresh
  <2>5. IdsOf(last) = {calls[i].id : i \in DOMAIN calls}
    BY <2>2 DEF IdsOf
  <2>6. InOrder(items, {calls[i].id : i \in DOMAIN calls})
    BY <2>2, <2>5
  <2> QED BY <1>2, <1>4, <1>6, <2>4, <2>6, ResultsAnswer
<1>13. StoredText(acc') = shown'
  BY <1>1 DEF LoopIInv
<1> QED BY <1>8, <1>9, <1>10, <1>11, <1>12, <1>13 DEF LoopIInv

(* Every step of the loop keeps its invariant.                               *)
LEMMA LoopStepKeeps ==
  ASSUME LoopIInv, [LoopNext]_loopVars
  PROVE  LoopIInv'
<1>1. CASE StartProviderTurn
  BY <1>1, StartProviderTurnKeeps
<1>2. CASE ReasoningDelta
  BY <1>2, ReasoningDeltaKeeps
<1>3. CASE FinalTextReplaces \/ FinalArgumentsReplace \/ StreamFails
  <2>1. /\ place = "stream" /\ place' \in {"error", "cancelled"}
        /\ UNCHANGED <<items, toolTurns, acc, seen, shown, calls, results, printed>>
    BY <1>3 DEF FinalTextReplaces, FinalArgumentsReplace, StreamFails, Frame, FrameFails, streamVars
  <2> QED BY <2>1, StreamStopsKeeps
<1>4. ASSUME NEW i \in Indexes, TextDelta(i) PROVE LoopIInv'
  BY <1>4, TextDeltaKeeps
<1>5. ASSUME NEW i \in Indexes, NEW id \in CallIds \cup {NoId}, NEW named, NEW more \in BOOLEAN,
             CallDelta(i, id, named, more)
      PROVE  LoopIInv'
  BY <1>5, CallDeltaKeeps
<1>6. ASSUME NEW reason, FinishReason(reason) PROVE LoopIInv'
  BY <1>6, FinishReasonKeeps
<1>7. CASE FinishStream
  BY <1>7, FinishStreamKeeps
<1>8. CASE Cancel \/ UNCHANGED loopVars
  <2>1. UNCHANGED <<place, items, toolTurns, acc, seen, shown, calls, results, printed>>
    BY <1>8 DEF Cancel, loopVars, streamVars
  <2> QED BY <2>1, SameKeeps
<1>9. CASE ReturnWithoutRunning \/ RunTool \/ CommandPrints \/ TerminalUpdated
  BY <1>9, ReturnWithoutRunningKeeps, RunToolKeeps, CommandPrintsKeeps, TerminalUpdatedKeeps
<1>10. CASE CommandReturns \/ WriteReturns \/ EndBatch
  BY <1>10, CommandReturnsKeeps, WriteReturnsKeeps, EndBatchKeeps
<1> QED BY <1>1, <1>2, <1>3, <1>4, <1>5, <1>6, <1>7, <1>8, <1>9, <1>10 DEF LoopNext

(* The invariant says more than the property.                                *)
LEMMA LoopIsSoundThen == LoopIInv => LoopIsSound
<1> SUFFICES ASSUME LoopIInv PROVE LoopIsSound
  OBVIOUS
<1>1. HistoryCanBeContinued
  <2> SUFFICES ASSUME place \in Ended \cup {"next"}, NamesAreFresh PROVE Valid(items)
    BY DEF HistoryCanBeContinued
  <2>1. place \notin {"batch", "running"}
    BY DEF Ended
  <2>2. Fresh(items)
    BY FreshIs
  <2>3. InOrder(items, {})
    BY <2>1, <2>2 DEF LoopIInv, HistoryInOrder
  <2> QED BY <2>3 DEF InOrder, Valid
<1>2. CompletionIsWhatWasStreamed
  BY DEF LoopIInv, BatchIsStreamed, CompletionIsWhatWasStreamed
<1>3. NothingIsCountedTwice
  <2>1. seen.twice = FALSE /\ \A p \in seen.counted : p.of # "diff"
    BY DEF LoopIInv, LoopTypes, OutputsOnce, SeenOK
  <2> QED BY <2>1 DEF NothingIsCountedTwice
<1> QED BY <1>1, <1>2, <1>3 DEF LoopIsSound

(* LoopIsSound, of run_tool_loop and the provider under it: the history it   *)
(* leaves can be sent again while the names of calls are fresh, what is      *)
(* stored and run is what was streamed, and nothing is counted twice.  For   *)
(* any names, indexes, limits of turns, frames and output, and any window.   *)
THEOREM LoopStaysSound == LoopSpec => []LoopIsSound
<1>1. LoopInit => LoopIInv
  BY LoopStarts
<1>2. LoopIInv /\ [LoopNext]_loopVars => LoopIInv'
  BY LoopStepKeeps
<1>3. LoopIInv => LoopIsSound
  BY LoopIsSoundThen
<1> QED BY <1>1, <1>2, <1>3, PTL DEF LoopSpec
=============================================================================
