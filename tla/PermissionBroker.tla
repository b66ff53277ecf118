-------------------------- MODULE PermissionBroker --------------------------
(***************************************************************************)
(* The permission broker of a conversation: tool calls that must be        *)
(* approved wait here for the user's answer, and "always" answers become   *)
(* rules that decide later calls of the same approval context.             *)
(*                                                                         *)
(* Three kinds of threads share the broker.  A turn runs its tool calls    *)
(* one after the other on its worker thread, the UI thread delivers        *)
(* answers, and either of them may invalidate everything that is           *)
(* outstanding (cancel_all, clear_permission_context).  The worker of a    *)
(* turn that was cancelled runs on beside its successor's.  Each critical  *)
(* section of the code is one action, so the actions interleave exactly    *)
(* where the code lets go of its locks.                                    *)
(***************************************************************************)
EXTENDS Naturals

CONSTANTS
  Requests,       (* calls of request_permission; one stands for its unique request id *)
  Turns,          (* conversation turns, each with a cancellation token                *)
  Scopes,         (* what a rule can match: a directory, a command, arguments          *)
  NoScope,        (* the scope of a call that from_request refuses to remember         *)
  TurnOf,         (* the turn whose token a request is given                           *)
  ScopeOf,        (* the scope of the rule a request would leave                       *)
  Covers,         (* Covers[s]: the requests a rule of scope s matches                 *)
  MaxGeneration   (* bound on context_generation                                       *)

ASSUME ConstantsOK ==
  /\ NoScope \notin Scopes
  /\ TurnOf \in [Requests -> Turns]
  /\ ScopeOf \in [Requests -> Scopes \cup {NoScope}]
  /\ Covers \in [Scopes -> SUBSET Requests]
  /\ MaxGeneration \in Nat

VARIABLES
  generation,   (* context_generation                                          *)
  pending,      (* requests whose sender is in the pending map                 *)
  rules,        (* the ToolPermissionRuleSet                                   *)
  cancelled,    (* turns whose token is cancelled                              *)
  pc,           (* where each request_permission stands                        *)
  heldGen,      (* its local context_generation                                *)
  stored,       (* its local stored_behavior                                   *)
  slot,         (* its oneshot: Empty, or the option that was sent             *)
  outbox,       (* senders taken out of pending whose send is still to come    *)
  decision,     (* what it returned                                            *)
  clears,       (* history: number of clear_permission_context so far          *)
  epoch         (* history: value of clears when the request read generation   *)

brokerVars == <<generation, pending, rules>>
localVars  == <<heldGen, stored, epoch>>
vars == <<generation, pending, rules, cancelled, pc, heldGen, stored, slot,
          outbox, decision, clears, epoch>>

Behaviors == {"Allow", "Deny"}
None      == "None"      (* an answer without an option, or no stored rule *)
Empty     == "Empty"
Rule      == [scope : Scopes, behavior : Behaviors]
OptionKinds   == {"AllowOnce", "AllowAlways", "RejectOnce", "RejectAlways"}
Answers   == OptionKinds \cup {None}

Waiting == {"announce", "waiting"}
Over    == {"done", "dropped"}

(* The options shown to the user: nothing can be remembered without a scope. *)
RuntimeOptions(r) ==
  IF ScopeOf[r] = NoScope THEN {"AllowOnce", "RejectOnce"} ELSE OptionKinds

RuleOf(r, behavior) == [scope |-> ScopeOf[r], behavior |-> behavior]

(* Deny-first evaluation of the rule set. *)
Evaluate(r) ==
  LET hits == {rule \in rules : r \in Covers[rule.scope]}
  IN  IF \E rule \in hits : rule.behavior = "Deny" THEN "Deny"
      ELSE IF hits # {} THEN "Allow" ELSE None

IsCancelled(r) == TurnOf[r] \in cancelled
IsCurrent(r)   == heldGen[r] = generation

Goto(r, label) == pc' = [pc EXCEPT ![r] = label]
Return(r, verdict) ==
  /\ Goto(r, "done")
  /\ decision' = [decision EXCEPT ![r] = verdict]

-----------------------------------------------------------------------------
(* request_permission, one action per critical section *)

(* run_tool_loop executes the calls of a turn one at a time, and none after *)
(* its future was dropped.                                                  *)
IsNextCall(r) ==
  \A q \in Requests \ {r} : TurnOf[q] = TurnOf[r] => pc[q] \in {"idle", "done"}

Start(r) ==
  /\ pc[r] = "idle"
  /\ IsNextCall(r)
  /\ IF IsCancelled(r)
     THEN Return(r, "deny") /\ UNCHANGED <<heldGen, epoch>>
     ELSE /\ heldGen' = [heldGen EXCEPT ![r] = generation]
          /\ epoch'   = [epoch EXCEPT ![r] = clears]
          /\ Goto(r, "evaluate")
          /\ UNCHANGED decision
  /\ UNCHANGED <<brokerVars, cancelled, stored, slot, outbox, clears>>

EvaluateRules(r) ==
  /\ pc[r] = "evaluate"
  /\ stored' = [stored EXCEPT ![r] = Evaluate(r)]
  /\ Goto(r, "recheck")
  /\ UNCHANGED <<brokerVars, cancelled, heldGen, slot, outbox, decision, clears, epoch>>

(* Mutant: the stored behaviour is used without looking at the generation again. *)
RecheckWithoutGeneration(r) ==
  /\ pc[r] = "recheck"
  /\ \/ (IsCancelled(r) \/ stored[r] = "Deny") /\ Return(r, "deny")
     \/ ~IsCancelled(r) /\ stored[r] = "Allow" /\ Return(r, "allow")
     \/ ~IsCancelled(r) /\ stored[r] = None /\ Goto(r, "register") /\ UNCHANGED decision
  /\ UNCHANGED <<brokerVars, cancelled, localVars, slot, outbox, clears>>

Recheck(r) ==
  /\ pc[r] = "recheck"
  /\ \/ /\ IsCancelled(r) \/ ~IsCurrent(r) \/ stored[r] = "Deny"
        /\ Return(r, "deny")
     \/ /\ ~IsCancelled(r) /\ IsCurrent(r) /\ stored[r] = "Allow"
        /\ Return(r, "allow")
     \/ /\ ~IsCancelled(r) /\ IsCurrent(r) /\ stored[r] = None
        /\ Goto(r, "register")
        /\ UNCHANGED decision
  /\ UNCHANGED <<brokerVars, cancelled, localVars, slot, outbox, clears>>

Register(r) ==
  /\ pc[r] = "register"
  /\ IF IsCurrent(r)
     THEN /\ pending' = pending \cup {r}
          /\ Goto(r, "announce")
          /\ UNCHANGED decision
     ELSE Return(r, "deny") /\ UNCHANGED pending
  /\ UNCHANGED <<generation, rules, cancelled, localVars, slot, outbox, clears>>

(* Sending the PermissionRequested event; it fails once the UI has dropped  *)
(* the receiver of the turn.                                                *)
Announce(r) ==
  /\ pc[r] = "announce"
  /\ Goto(r, "waiting")
  /\ UNCHANGED <<brokerVars, cancelled, localVars, slot, outbox, decision, clears>>

AnnounceFails(r) ==
  /\ pc[r] = "announce"
  /\ pending' = pending \ {r}
  /\ Return(r, "deny")
  /\ UNCHANGED <<generation, rules, cancelled, localVars, slot, outbox, clears>>

(* The biased select!: cancellation wins over an answer that is also ready. *)
WakeCancelled(r) ==
  /\ pc[r] = "waiting"
  /\ IsCancelled(r)
  /\ pending' = pending \ {r}
  /\ Return(r, "deny")
  /\ UNCHANGED <<generation, rules, cancelled, localVars, slot, outbox, clears>>

WakeAnswered(r) ==
  /\ pc[r] = "waiting"
  /\ ~IsCancelled(r)
  /\ slot[r] # Empty
  /\ IF IsCurrent(r)
     THEN Goto(r, "apply") /\ UNCHANGED decision
     ELSE Return(r, "deny")
  /\ UNCHANGED <<brokerVars, cancelled, localVars, slot, outbox, clears>>

(* The kind of the chosen option: an id that was not offered selects nothing. *)
SelectedKind(r) == IF slot[r] \in RuntimeOptions(r) THEN slot[r] ELSE None

(* Mutant: the rule is inserted without a test under the lock. *)
InsertRuleUnchecked(r, behavior) == rules' = rules \cup {RuleOf(r, behavior)}

(* insert_rule_if_active, which runs under the rules lock. *)
InsertRuleIfActive(r, behavior) ==
  rules' = IF IsCancelled(r) \/ ~IsCurrent(r)
           THEN rules ELSE rules \cup {RuleOf(r, behavior)}

Apply(r) ==
  /\ pc[r] = "apply"
  /\ \/ /\ SelectedKind(r) = "AllowOnce"
        /\ Return(r, "allow")
        /\ UNCHANGED rules
     \/ /\ SelectedKind(r) = "AllowAlways"
        /\ InsertRuleIfActive(r, "Allow")
        /\ Return(r, IF IsCancelled(r) \/ ~IsCurrent(r) THEN "deny" ELSE "allow")
     \/ /\ SelectedKind(r) = "RejectAlways"
        /\ InsertRuleIfActive(r, "Deny")
        /\ Return(r, "deny")
     \/ /\ SelectedKind(r) \in {"RejectOnce", None}
        /\ Return(r, "deny")
        /\ UNCHANGED rules
  /\ UNCHANGED <<generation, pending, cancelled, localVars, slot, outbox, clears>>

-----------------------------------------------------------------------------
(* The other threads *)

(* respond_permission takes the sender out of the map under the lock and    *)
(* sends afterwards; an id that is no longer pending is an error.  Only a   *)
(* request that was announced can be answered, also one whose call has been *)
(* dropped.                                                                 *)
RespondPermission(r, option) ==
  /\ r \in pending
  /\ pc[r] \in {"waiting", "dropped"}
  /\ pending' = pending \ {r}
  /\ outbox'  = [outbox EXCEPT ![r] = option]
  /\ UNCHANGED <<generation, rules, cancelled, pc, localVars, slot, decision, clears>>

(* oneshot::Sender::send; the value is lost when the receiver is gone. *)
Send(r) ==
  /\ outbox[r] # Empty
  /\ outbox' = [outbox EXCEPT ![r] = Empty]
  /\ slot'   = IF pc[r] \in Over THEN slot ELSE [slot EXCEPT ![r] = outbox[r]]
  /\ UNCHANGED <<brokerVars, cancelled, pc, localVars, decision, clears>>

(* Mutants: cancel_all forgets the rules too; the dismissed are not told. *)
InvalidateForgetsRules(shouldClearRules) ==
  /\ generation < MaxGeneration
  /\ generation' = generation + 1
  /\ rules'   = {}
  /\ clears'  = IF shouldClearRules THEN clears + 1 ELSE clears
  /\ pending' = {}
  /\ outbox'  = [r \in Requests |-> IF r \in pending THEN None ELSE outbox[r]]
  /\ UNCHANGED <<cancelled, pc, localVars, slot, decision>>

InvalidateWithoutAnswer(shouldClearRules) ==
  /\ generation < MaxGeneration
  /\ generation' = generation + 1
  /\ rules'   = IF shouldClearRules THEN {} ELSE rules
  /\ clears'  = IF shouldClearRules THEN clears + 1 ELSE clears
  /\ UNCHANGED <<pending, outbox, cancelled, pc, localVars, slot, decision>>

(* invalidate_pending: rules and pending are locked together, so advancing  *)
(* the generation, clearing and taking the map are one step; the None       *)
(* answers are sent after both locks are released.                          *)
InvalidatePending(shouldClearRules) ==
  /\ generation < MaxGeneration
  /\ generation' = generation + 1
  /\ rules'   = IF shouldClearRules THEN {} ELSE rules
  /\ clears'  = IF shouldClearRules THEN clears + 1 ELSE clears
  /\ pending' = {}
  /\ outbox'  = [r \in Requests |-> IF r \in pending THEN None ELSE outbox[r]]
  /\ UNCHANGED <<cancelled, pc, localVars, slot, decision>>

CancelAll == InvalidatePending(FALSE)
ClearPermissionContext == InvalidatePending(TRUE)

(* A turn's token is cancelled by an interrupt, a reset or a failed persist. *)
CancelTurn(t) ==
  /\ t \notin cancelled
  /\ cancelled' = cancelled \cup {t}
  /\ UNCHANGED <<brokerVars, pc, localVars, slot, outbox, decision, clears>>

(* The repair grace has passed: the turn's future is dropped, with the      *)
(* request_permission it awaits.  The entry of the pending map stays behind *)
(* until the next invalidation.                                             *)
DropTurn(t) ==
  /\ t \in cancelled
  /\ \E r \in Requests :
       /\ TurnOf[r] = t
       /\ pc[r] = "waiting"
       /\ Goto(r, "dropped")
  /\ UNCHANGED <<brokerVars, cancelled, localVars, slot, outbox, decision, clears>>

-----------------------------------------------------------------------------
Init ==
  /\ generation = 0
  /\ pending = {}
  /\ rules = {}
  /\ cancelled = {}
  /\ pc       = [r \in Requests |-> "idle"]
  /\ heldGen  = [r \in Requests |-> 0]
  /\ stored   = [r \in Requests |-> None]
  /\ slot     = [r \in Requests |-> Empty]
  /\ outbox   = [r \in Requests |-> Empty]
  /\ decision = [r \in Requests |-> None]
  /\ clears = 0
  /\ epoch    = [r \in Requests |-> 0]

HandlerStep(r) ==
  \/ Start(r) \/ EvaluateRules(r) \/ Recheck(r) \/ Register(r)
  \/ Announce(r) \/ AnnounceFails(r)
  \/ WakeCancelled(r) \/ WakeAnswered(r) \/ Apply(r)

Next ==
  \/ \E r \in Requests : HandlerStep(r)
  \/ \E r \in Requests : Send(r)
  \/ \E r \in Requests, option \in Answers : RespondPermission(r, option)
  \/ CancelAll
  \/ ClearPermissionContext
  \/ \E t \in Turns : CancelTurn(t)
  \/ \E t \in Turns : DropTurn(t)

Spec == Init /\ [][Next]_vars

-----------------------------------------------------------------------------
TypeOK ==
  /\ generation \in 0..MaxGeneration
  /\ pending \in SUBSET Requests
  /\ rules \in SUBSET Rule
  /\ cancelled \in SUBSET Turns
  /\ pc \in [Requests -> {"idle", "evaluate", "recheck", "register",
                          "apply"} \cup Waiting \cup Over]
  /\ heldGen \in [Requests -> Nat]
  /\ stored \in [Requests -> Behaviors \cup {None}]
  /\ slot \in [Requests -> Answers \cup {Empty}]
  /\ outbox \in [Requests -> Answers \cup {Empty}]
  /\ decision \in [Requests -> {"allow", "deny", None}]
  /\ clears \in Nat
  /\ epoch \in [Requests -> Nat]

(* The answer r was given makes its rule one of this approval context. *)
Granted(r, rule) ==
  /\ pc[r] = "done"
  /\ ScopeOf[r] = rule.scope
  /\ slot[r] = IF rule.behavior = "Allow" THEN "AllowAlways" ELSE "RejectAlways"

(* No rule outlives its approval context: each stored rule was granted by   *)
(* an "always" answer to a request that started after the last              *)
(* clear_permission_context, however late that answer was processed         *)
(* (insert_rule_if_active against invalidate_pending).                      *)
RulesAreOfThisContext ==
  \A rule \in rules : \E r \in Requests : Granted(r, rule) /\ epoch[r] = clears

(* The pending map only holds requests of the current generation: after an  *)
(* invalidation no old request can slip in behind it and be answered        *)
(* (register against invalidate_pending).                                   *)
PendingIsCurrent ==
  \A r \in pending : IsCurrent(r) /\ epoch[r] = clears

(* A call is only let through because the user allowed this very call, or   *)
(* because of an "always" answer given in the same approval context to a    *)
(* request whose rule covers it (request_permission as a whole).            *)
AllowNeedsConsent ==
  \A r \in Requests : decision[r] = "allow" =>
    \/ slot[r] \in {"AllowOnce", "AllowAlways"}
    \/ \E q \in Requests :
         /\ ScopeOf[q] # NoScope /\ r \in Covers[ScopeOf[q]]
         /\ Granted(q, RuleOf(q, "Allow"))
         /\ epoch[q] = epoch[r]

(* cancel_all ends the outstanding requests but keeps the rules: an         *)
(* "always" answer that was honoured stays in force until the context is    *)
(* cleared.                                                                 *)
HonouredRulesStay ==
  \A r \in Requests :
    (decision[r] = "allow" /\ slot[r] = "AllowAlways" /\ epoch[r] = clears)
      => RuleOf(r, "Allow") \in rules

(* Nobody waits for an answer that cannot come: a call that waits although  *)
(* its generation was invalidated has its dismissal in its channel, or a    *)
(* thread that took its sender out of the map is about to send it           *)
(* (invalidate_pending sends after both locks are released).                *)
DismissalIsComing ==
  \A r \in Requests :
    (pc[r] \in Waiting /\ ~IsCurrent(r)) => (slot[r] # Empty \/ outbox[r] # Empty)
=============================================================================
