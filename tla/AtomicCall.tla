----------------------------- MODULE AtomicCall -----------------------------
(***************************************************************************)
(* What a transaction and a cross-contract call promise to the author of   *)
(* the contract the transaction enters: every sub-call is one step, a      *)
(* sub-call reported as failed changed nothing, an entry declared view     *)
(* never changes anything, and the chain sees all of a transaction or none *)
(* of it.                                                                  *)
(***************************************************************************)
CONSTANT World          \* the states of the chain

VARIABLES
  committed,            \* the chain as the last finished transaction left it
  working,              \* the chain as the entered contract sees it
  active,               \* a transaction is running
  readonly,             \* it entered a view function
  outcome               \* what the last sub-call reported

vars == <<committed, working, active, readonly, outcome>>

Outcome == {"none", "ok", "failed", "unreadable"}

Init ==
  /\ committed \in World
  /\ working = committed
  /\ active = FALSE
  /\ readonly = FALSE
  /\ outcome = "none"

Begin ==
  /\ ~ active
  /\ active' = TRUE
  /\ readonly' \in BOOLEAN
  /\ outcome' = "none"
  /\ UNCHANGED <<committed, working>>

\* The contract writes its own storage, or forgets the last call's result.
Act ==
  /\ active
  /\ working' \in World
  /\ readonly => working' = working
  /\ outcome' = "none"
  /\ UNCHANGED <<committed, active, readonly>>

\* A sub-call ran; "unreadable" is a callee that finished but whose return
\* data the caller's wrapper could not hand over.
CallDone ==
  /\ active
  /\ working' \in World
  /\ readonly => working' = working
  /\ outcome' \in {"ok", "unreadable"}
  /\ UNCHANGED <<committed, active, readonly>>

CallFailed ==
  /\ active
  /\ outcome' = "failed"
  /\ UNCHANGED <<committed, working, active, readonly>>

Commit ==
  /\ active
  /\ active' = FALSE
  /\ committed' = working
  /\ readonly' = FALSE
  /\ outcome' = "none"
  /\ UNCHANGED working

Abort ==
  /\ active
  /\ active' = FALSE
  /\ working' = committed
  /\ readonly' = FALSE
  /\ outcome' = "none"
  /\ UNCHANGED committed

Next == Begin \/ Act \/ CallDone \/ CallFailed \/ Commit \/ Abort

Spec == Init /\ [][Next]_vars
=============================================================================
