------------------------------ MODULE TokenAuth ------------------------------
(***************************************************************************)
(* What the token manager promises the rest of the store: a check of a     *)
(* right is answered from knowledge at most Delay seconds old.             *)
(*                                                                         *)
(*   - A right is granted only if the token held it at some moment of the  *)
(*     last Delay seconds: a revoked, edited or expired token goes on      *)
(*     working for Delay seconds and no longer.                            *)
(*   - A right is refused only if the token does not hold it now: a new or *)
(*     promoted token works at once.                                       *)
(*                                                                         *)
(* A token holds a right if a search of the table for the two finds a row. *)
(* The promise is worth no more than that: the empty token string, by      *)
(* which a search does not filter at all, holds whatever any row holds.    *)
(*                                                                         *)
(* TokenManager.tla is the code's implementation; Store.tla is written     *)
(* against this promise.                                                   *)
(***************************************************************************)
EXTENDS Integers

CONSTANTS Tokens,   \* the token strings
          Perms,    \* the rights a token may hold
          Delay,    \* how stale a granted right may be
          NoDecision

VARIABLES now,       \* the clock, in seconds
          held,      \* the (token, right) pairs the database holds now
          lastHeld,  \* when each pair was last held, before this moment
          decision   \* the answer to the check in progress

vars == <<now, held, lastHeld, decision>>

Rights == Tokens \X Perms

\* A time so long before the start that nothing held then counts as recent.
Never == -(Delay + 1)

\* The last moment, the present included, at which the pair r was held.
LastHeld(r) == IF r \in held THEN now ELSE lastHeld[r]

Remember == lastHeld' = [r \in Rights |-> LastHeld(r)]

MayGrant(r) == now - LastHeld(r) <= Delay
MayRefuse(r) == r \notin held

Init == /\ now = 0
        /\ held \in SUBSET Rights
        /\ lastHeld = [r \in Rights |-> Never]
        /\ decision = NoDecision

\* Time passes, rows are created, edited, deleted or expire, and a check that
\* was answered ends.
Advance == /\ now' \in {n \in Int : n >= now}
           /\ held' \in SUBSET Rights
           /\ decision' \in {decision, NoDecision}
           /\ Remember

Decide(r, answer) ==
    /\ decision = NoDecision
    /\ \/ answer = "grant" /\ MayGrant(r)
       \/ answer = "refuse" /\ MayRefuse(r)
    /\ decision' = [right |-> r, answer |-> answer]
    /\ Remember
    /\ UNCHANGED <<now, held>>

Next == \/ Advance
        \/ \E r \in Rights, answer \in {"grant", "refuse"} : Decide(r, answer)

Spec == Init /\ [][Next]_vars
=============================================================================
