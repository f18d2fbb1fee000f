---------------------------- MODULE DurableValue ----------------------------
(***************************************************************************)
(* What every store of this firmware promises: it keeps one value through  *)
(* a loss of power.  A call stores a value or removes the one there is,    *)
(* and is answered.  Whatever happens in between, what the next boot reads *)
(* is the value of before or the one of the call, whole, and a call that   *)
(* was answered with success has been kept.  A removal that fails, or is   *)
(* cut short, promises nothing.  A leaky store may miss some parts of a    *)
(* value without noticing, and then keeps what remains of that value,      *)
(* never parts of two.                                                     *)
(***************************************************************************)
EXTENDS StoredValues

VARIABLES
    leaky,      \* the store does not look at all its writes
    durable,    \* what a boot would read now
    busy,       \* a call is in progress ...
    pending,    \* ... with this value, or NoValue to remove
    answer      \* how the last call ended

vars == <<leaky, durable, busy, pending, answer>>

Values == Value \union Remains \union {NoValue}

Keeps(v) == {v} \union (IF leaky /\ v \in Value THEN {Incomplete(v)} ELSE {})

Init ==
    /\ leaky \in BOOLEAN /\ durable \in Values
    /\ busy = FALSE /\ pending = NoValue /\ answer = "none"

Call(v) ==
    /\ ~busy
    /\ busy' = TRUE /\ pending' = v /\ answer' = "none"
    /\ UNCHANGED <<leaky, durable>>

Commit ==
    /\ busy
    /\ durable' \in Keeps(pending)
    /\ UNCHANGED <<leaky, busy, pending, answer>>

End(how) == busy' = FALSE /\ pending' = NoValue /\ answer' = how /\ UNCHANGED leaky

Succeed == busy /\ durable' \in Keeps(pending) /\ End("stored")

\* An error or a loss of power: the value may have been kept before, or not.
Fail == busy /\ UNCHANGED durable /\ End("failed")

RemovalUndone ==
    /\ busy /\ pending = NoValue
    /\ durable' \in Value \union {NoValue}
    /\ UNCHANGED <<leaky, busy, pending, answer>>

Next == (\E v \in Values : Call(v)) \/ Commit \/ Succeed \/ Fail \/ RemovalUndone

Spec == Init /\ [][Next]_vars
=============================================================================
