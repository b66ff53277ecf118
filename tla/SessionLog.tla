----------------------------- MODULE SessionLog -----------------------------
(***************************************************************************)
(* What the session store promises about one session, whatever handles,    *)
(* retries, evictions and restarts lie behind it: a log that only grows,   *)
(* in which every entry comes after its parent, and from which nothing     *)
(* that was promised ever disappears.                                      *)
(***************************************************************************)
EXTENDS Naturals, SequencesExt

CONSTANT Entry   (* records with the fields id and parent, 0 for no parent *)

VARIABLES
  log,        (* the entries a reload would give *)
  promised    (* the entries some caller was told are stored *)

vars == <<log, promised>>

Grounded(entries) ==
  \A i \in DOMAIN entries :
    \/ entries[i].parent = 0
    \/ \E j \in 1..(i - 1) : entries[j].id = entries[i].parent

Init == log = <<>> /\ promised = {}

(* A batch, or the part of it that reached the file. *)
Store ==
  /\ log' # log
  /\ IsPrefix(log, log')
  /\ Grounded(log')
  /\ UNCHANGED promised

Promise ==
  /\ promised' # promised
  /\ promised \subseteq promised' /\ promised' \subseteq ToSet(log)
  /\ UNCHANGED log

Next == Store \/ Promise

Spec == Init /\ [][Next]_vars
=============================================================================
