----------------------------- MODULE AgreedRetention -----------------------------
(***************************************************************************)
(* What checkSharedRetention promises the Instances that share an          *)
(* ObjectStore, as if it compared, decided and wrote in one step: Barman   *)
(* applies the policy that everybody who was accepted asked for, until one *)
(* of them asks for something else or the ObjectStore is collected, and    *)
(* only who asks for another policy than the stored one is refused.        *)
(***************************************************************************)

CONSTANTS
    Instances,    \* those who share it
    Retentions,   \* the policies there are
    Nothing       \* the policy of no ObjectStore, and of who asks for no valid one

VARIABLES
    asked,     \* what each Instance asks for
    answer,    \* what it was told: nothing yet, accepted or refused
    stored     \* the policy Barman applies to all of them

vars == <<asked, answer, stored>>

Accepted(i) == answer[i] = "accepted"

\* Nobody else who was accepted asked for anything else.
Agrees(i, retention) ==
    \A j \in Instances \ {i} : Accepted(j) => asked[j] = retention

Init ==
    /\ asked \in [Instances -> Retentions \cup {Nothing}]
    /\ answer = [i \in Instances |-> "none"]
    /\ stored = Nothing

\* Created, edited or deleted; perhaps without asking for anything new.
Ask(i) ==
    /\ \E retention \in Retentions \cup {Nothing} : asked' = [asked EXCEPT ![i] = retention]
    /\ answer' = [answer EXCEPT ![i] = "none"]
    /\ UNCHANGED stored

Accept(i) ==
    /\ asked[i] # Nothing /\ Agrees(i, asked[i])
    /\ answer' = [answer EXCEPT ![i] = "accepted"]
    /\ stored' = asked[i]
    /\ UNCHANGED asked

\* Who has asked for something else meanwhile may still get what it asked before.
AcceptLate(i) ==
    /\ ~Accepted(i)
    /\ stored' \in {retention \in Retentions : Agrees(i, retention)}
    /\ UNCHANGED <<asked, answer>>

Refuse(i) ==
    /\ stored # asked[i]
    /\ answer' = [answer EXCEPT ![i] = "refused"]
    /\ UNCHANGED <<asked, stored>>

Collect ==
    /\ stored' = Nothing
    /\ UNCHANGED <<asked, answer>>

Next ==
    \/ \E i \in Instances : Ask(i) \/ Accept(i) \/ AcceptLate(i) \/ Refuse(i)
    \/ Collect

Spec == Init /\ [][Next]_vars
=============================================================================
