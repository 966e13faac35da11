------------------------------ MODULE TypedMap ------------------------------
(***************************************************************************)
(* What typed storage promises: every entry of every field is a variable   *)
(* of its own, a read returns the value last written to it or the type's   *)
(* default, and a frame that fails changes none of them.                   *)
(***************************************************************************)
CONSTANTS
  Entry,                \* fields and, for a map, keys
  Value,                \* of any type
  Default               \* of each entry's type

VARIABLES
  val,                  \* every entry's value
  kept,                 \* the values a failure goes back to
  active,               \* a frame runs
  last                  \* the last operation, as its caller sees it

vars == <<val, kept, active, last>>

Nothing   == [op |-> "none"]
Did(op, e, v) == [op |-> op, entry |-> e, value |-> v]

Init ==
  /\ val = Default /\ kept = Default
  /\ active = FALSE
  /\ last = Nothing

Begin ==
  /\ ~ active
  /\ active' = TRUE /\ kept' = val /\ last' = Nothing
  /\ UNCHANGED val

Write(e, v) ==
  /\ active /\ last' = Did("write", e, v)
  /\ val' = [val EXCEPT ![e] = v]
  /\ UNCHANGED <<kept, active>>

Delete(e) ==
  /\ active /\ last' = Did("delete", e, Default[e])
  /\ val' = [val EXCEPT ![e] = Default[e]]
  /\ UNCHANGED <<kept, active>>

Read(e) ==
  /\ active /\ last' = Did("read", e, val[e])
  /\ UNCHANGED <<val, kept, active>>

Commit ==
  /\ active
  /\ active' = FALSE /\ kept' = val /\ last' = Nothing
  /\ UNCHANGED val

Fail ==
  /\ active
  /\ active' = FALSE /\ last' = Nothing /\ val' = kept
  /\ UNCHANGED kept

Next ==
  \/ Begin \/ Commit \/ Fail
  \/ \E e \in Entry : Delete(e) \/ Read(e) \/ \E v \in Value : Write(e, v)

Spec == Init /\ [][Next]_vars
=============================================================================
