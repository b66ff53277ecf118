-------------------------- MODULE MCStoreAndContext --------------------------
(* What the store and the context projection promise their callers, for TLC. *)
(* They share no state, so a behaviour runs one of them and the other stays  *)
(* where it starts, once the UI thread has made the first drain, which is    *)
(* due at once.                                                              *)
EXTENDS MCSessionStore, ContextBudget

VARIABLE part

MCInit == part \in {"store", "context"} /\ StoreInit /\ Init

Drained == ui = "idle" /\ ~woken

MCNext ==
  /\ UNCHANGED part
  /\ \/ part = "store" /\ Drained /\ StoreNext /\ UNCHANGED vars
     \/ part = "store" /\ ~Drained /\ (Drain \/ DrainStep) /\ UNCHANGED storeVars
     \/ part = "context" /\ Next /\ UNCHANGED storeVars

MCSpec == MCInit /\ [][MCNext]_<<part, storeVars, vars>> /\ StoreFairness /\ Fairness
=============================================================================
