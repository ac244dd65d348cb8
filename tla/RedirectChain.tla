---------------------------- MODULE RedirectChain ----------------------------
(***************************************************************************)
(* What one of the agent's nat chains promises the packets that jump to   *)
(* it: the chain is present or not, and a present chain is the list of    *)
(* redirect rules a packet traverses before it returns to the calling     *)
(* chain.  The list changes only by a rule added at its end, the first    *)
(* occurrence of a rule removed, the chain emptied, or the chain deleted; *)
(* failed calls, crashes and reloads leave it as it is.                   *)
(***************************************************************************)
EXTENDS Sequences, SequencesExt

CONSTANT Rules  \* redirect rules

VARIABLES
    present,    \* the chain is in the nat table
    redirects   \* the rules a packet traverses, in order

Init == present = FALSE /\ redirects = <<>>

\* A new chain, traversed by no rule.
CreateEmpty ==
    /\ ~present
    /\ present' = TRUE /\ redirects' = <<>>

\* A redirect rule takes effect after every one before it.
AddLast(r) ==
    /\ present
    /\ redirects' = Append(redirects, r)
    /\ UNCHANGED present

\* The first occurrence of a rule stops taking effect.
RemoveOne(r) ==
    /\ present /\ r \in ToSet(redirects)
    /\ redirects' = RemoveFirst(redirects, r)
    /\ UNCHANGED present

\* The chain stays, with no rule taking effect.
Empty ==
    /\ present
    /\ redirects' = <<>>
    /\ UNCHANGED present

\* The chain is gone.
Delete ==
    /\ present
    /\ present' = FALSE /\ redirects' = <<>>

Next ==
    CreateEmpty \/ Empty \/ Delete \/ \E r \in Rules : AddLast(r) \/ RemoveOne(r)

Spec == Init /\ [][Next]_<<present, redirects>>

=============================================================================
