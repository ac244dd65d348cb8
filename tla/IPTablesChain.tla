---------------------------- MODULE IPTablesChain ----------------------------
(***************************************************************************)
(* The agent's handle on one of its nat-table chains (IPTableChain in     *)
(* agent/iptables/src/chain.rs) over the iptables driver (IPTablesWrapper *)
(* in agent/iptables/src/lib.rs).                                          *)
(*                                                                         *)
(* The chain's rules are a sequence ending, once created, in the RETURN   *)
(* rule; redirect rules are model values.  The handle counts the chain's  *)
(* rules in an AtomicI32 and inserts every new rule at the index the      *)
(* counter held, i.e. just before RETURN.  add_rule is two steps          *)
(* (fetch_add, then the insert that may fail and roll back) and           *)
(* remove_rule is two steps (the delete, then fetch_sub): the handle is   *)
(* shared by &self, so callers can interleave between them.  Every        *)
(* iptables invocation may fail when Fallible holds.  The agent may be     *)
(* killed at any point and a new agent then creates or loads the chain.   *)
(***************************************************************************)
EXTENDS Integers, SequencesExt

CONSTANTS
    Callers,    \* threads calling add_rule / remove_rule on the handle
    Rules,      \* redirect rules (model values)
    Fallible,   \* whether an iptables invocation may fail
    MaxSize     \* bound on the counter, so that adds stop

ASSUME Fallible \in BOOLEAN /\ MaxSize \in Nat

\* The chain's terminal rule, appended by create_chain.
Return == "RETURN"

VARIABLES
    exists,   \* the chain is in the nat table
    rules,    \* its rules, in iptables order
    handle,   \* "none" (no handle yet), "live", "gone" (dropped or failed), "crashed"
    size,     \* the handle's chain_size counter
    pc,       \* per caller: "idle", "inserting" (after fetch_add), "removed" (before fetch_sub)
    idx       \* per caller: the index fetch_add returned

vars == <<exists, rules, handle, size, pc, idx>>

AllIdle == \A c \in Callers : pc[c] = "idle"

Init ==
    /\ exists = FALSE
    /\ rules = <<>>
    /\ handle = "none"
    /\ size = 0
    /\ pc = [c \in Callers |-> "idle"]
    /\ idx = [c \in Callers |-> 0]

(***************************************************************************)
(* IPTablesWrapper::create_chain: `-N` (which fails on an existing chain), *)
(* then `-A chain -j RETURN`; `?` stops at the first error.  ok is        *)
(* whether both succeeded.                                                 *)
(***************************************************************************)
CreateChain(ok) ==
    \/ /\ exists \/ Fallible
       /\ ~ok /\ UNCHANGED <<exists, rules>>
    \/ /\ ~exists /\ Fallible
       /\ ~ok /\ exists' = TRUE /\ rules' = <<>>
    \/ /\ ~exists
       /\ ok /\ exists' = TRUE /\ rules' = <<Return>>

(***************************************************************************)
(* IPTableChain::create: on error no handle is made, so nothing removes   *)
(* what the first command did; otherwise the counter starts at 1.         *)
(***************************************************************************)
Create ==
    /\ handle = "none"
    /\ \E ok \in BOOLEAN :
          /\ CreateChain(ok)
          /\ IF ok THEN handle' = "live" /\ size' = 1
                   ELSE handle' = "gone" /\ UNCHANGED size
    /\ UNCHANGED <<pc, idx>>

(***************************************************************************)
(* IPTableChain::load: list_rules (`-S chain`) fails on a missing chain;  *)
(* its output is the `-N` line and one line per rule, so the counter      *)
(* starts at the number of rules (the zero case cannot arise).            *)
(***************************************************************************)
\* IPTablesWrapper::list_rules: the lines of `-S chain`, the `-N chain`
\* line and one `-A` line per rule.
ListRulesLen == Len(rules) + 1

Load ==
    /\ handle = "none"
    /\ \/ /\ ~exists \/ Fallible
          /\ handle' = "gone"
          /\ UNCHANGED size
       \/ /\ exists
          /\ handle' = "live"
          /\ size' = ListRulesLen - 1
    /\ UNCHANGED <<exists, rules, pc, idx>>

\* add_rule, first step: chain_size.fetch_add(1) returns the old value.
AddRule(c) ==
    /\ handle = "live" /\ pc[c] = "idle"
    /\ size < MaxSize
    /\ idx' = [idx EXCEPT ![c] = size]
    /\ size' = size + 1
    /\ pc' = [pc EXCEPT ![c] = "inserting"]
    /\ UNCHANGED <<exists, rules, handle>>

\* iptables `-I chain n rule` accepts 1 <= n <= Len(rules) + 1.
InsertOk(n) == exists /\ 1 <= n /\ n <= Len(rules) + 1

\* Mutant: an insert that fails does not roll the counter back.
InsertRuleNoRollback(c) ==
    /\ pc[c] = "inserting"
    /\ \E r \in Rules :
          \/ /\ InsertOk(idx[c])
             /\ rules' = InsertAt(rules, idx[c], r)
          \/ /\ ~InsertOk(idx[c]) \/ Fallible
             /\ UNCHANGED rules
    /\ pc' = [pc EXCEPT ![c] = "idle"]
    /\ UNCHANGED <<exists, handle, size, idx>>

\* Mutant: the rule goes to the index after the one fetch_add returned.
InsertRuleAfter(c) ==
    /\ pc[c] = "inserting"
    /\ \E r \in Rules :
          \/ /\ InsertOk(idx[c] + 1)
             /\ rules' = InsertAt(rules, idx[c] + 1, r)
             /\ UNCHANGED size
          \/ /\ ~InsertOk(idx[c] + 1) \/ Fallible
             /\ size' = size - 1
             /\ UNCHANGED rules
    /\ pc' = [pc EXCEPT ![c] = "idle"]
    /\ UNCHANGED <<exists, handle, idx>>

\* Mutant: the rule is inserted without its index, so `-I` puts it first.
InsertRuleAtTop(c) ==
    /\ pc[c] = "inserting"
    /\ \E r \in Rules :
          \/ /\ InsertOk(1)
             /\ rules' = InsertAt(rules, 1, r)
             /\ UNCHANGED size
          \/ /\ ~InsertOk(1) \/ Fallible
             /\ size' = size - 1
             /\ UNCHANGED rules
    /\ pc' = [pc EXCEPT ![c] = "idle"]
    /\ UNCHANGED <<exists, handle, idx>>

(***************************************************************************)
(* add_rule, second step: insert_rule at the fetched index; on error      *)
(* inspect_err rolls the counter back with fetch_sub(1).                  *)
(***************************************************************************)
InsertRule(c) ==
    /\ pc[c] = "inserting"
    /\ \E r \in Rules :
          \/ /\ InsertOk(idx[c])
             /\ rules' = InsertAt(rules, idx[c], r)
             /\ UNCHANGED size
          \/ /\ ~InsertOk(idx[c]) \/ Fallible
             /\ size' = size - 1
             /\ UNCHANGED rules
    /\ pc' = [pc EXCEPT ![c] = "idle"]
    /\ UNCHANGED <<exists, handle, idx>>

\* IPTablesWrapper::remove_rule: `-D chain rule` removes the first rule
\* equal to r; it fails when the chain has none.
DeleteRuleOk(r) == exists /\ r \in ToSet(rules)

DeleteRule(r) == RemoveFirst(rules, r)

\* Mutant: the delete's error is ignored and fetch_sub runs anyway.
RemoveRuleIgnoreError(c) ==
    /\ handle = "live" /\ pc[c] = "idle"
    /\ \E r \in Rules :
          \/ /\ DeleteRuleOk(r)
             /\ rules' = DeleteRule(r)
          \/ /\ ~DeleteRuleOk(r) \/ Fallible
             /\ UNCHANGED rules
    /\ pc' = [pc EXCEPT ![c] = "removed"]
    /\ UNCHANGED <<exists, handle, size, idx>>

(***************************************************************************)
(* remove_rule, first step: `-D chain rule` deletes the first matching    *)
(* rule; it fails when none matches, and `?` returns before fetch_sub.    *)
(***************************************************************************)
RemoveRule(c) ==
    /\ handle = "live" /\ pc[c] = "idle"
    /\ \E r \in Rules :
          \/ /\ DeleteRuleOk(r)
             /\ rules' = DeleteRule(r)
             /\ pc' = [pc EXCEPT ![c] = "removed"]
          \/ /\ ~DeleteRuleOk(r) \/ Fallible
             /\ UNCHANGED <<rules, pc>>
    /\ UNCHANGED <<exists, handle, size, idx>>

\* remove_rule, second step: chain_size.fetch_sub(1).
RemoveRuleCount(c) ==
    /\ pc[c] = "removed"
    /\ size' = size - 1
    /\ pc' = [pc EXCEPT ![c] = "idle"]
    /\ UNCHANGED <<exists, rules, handle, idx>>

\* IPTablesWrapper::remove_chain: `-F` flushes the chain, then `-X`
\* deletes it; `?` stops at the first error.
RemoveChain ==
    \/ /\ exists
       /\ exists' = FALSE /\ rules' = <<>>
    \/ /\ ~exists \/ Fallible
       /\ UNCHANGED <<exists, rules>>
    \/ /\ exists /\ Fallible
       /\ rules' = <<>>
       /\ UNCHANGED exists

\* Drop: remove_chain, its result discarded.  A handle is only dropped
\* when no call borrows it.
Drop ==
    /\ handle = "live" /\ AllIdle
    /\ RemoveChain
    /\ handle' = "gone"
    /\ UNCHANGED <<size, pc, idx>>

\* The agent process is killed: no drop runs, the chain stays as it is.
Crash ==
    /\ handle = "live"
    /\ handle' = "crashed"
    /\ pc' = [c \in Callers |-> "idle"]
    /\ UNCHANGED <<exists, rules, size, idx>>

\* A new agent starts with no handle.
Restart ==
    /\ handle \in {"gone", "crashed"}
    /\ handle' = "none"
    /\ size' = 0
    /\ idx' = [c \in Callers |-> 0]
    /\ UNCHANGED <<exists, rules, pc>>

Next ==
    \/ Create \/ Load \/ Drop \/ Crash \/ Restart
    \/ \E c \in Callers :
          AddRule(c) \/ InsertRule(c) \/ RemoveRule(c) \/ RemoveRuleCount(c)

Spec == Init /\ [][Next]_vars

-----------------------------------------------------------------------------
(* Properties *)

TypeOK ==
    /\ exists \in BOOLEAN
    /\ rules \in Seq(Rules \cup {Return})
    /\ handle \in {"none", "live", "gone", "crashed"}
    /\ size \in 0..MaxSize
    /\ pc \in [Callers -> {"idle", "inserting", "removed"}]
    /\ idx \in [Callers -> 0..MaxSize]

(***************************************************************************)
(* Whenever no add_rule or remove_rule is in flight, a live handle's      *)
(* chain_size equals the number of rules in its chain: the rollback in    *)
(* add_rule and the skipped fetch_sub of a failed remove_rule keep it     *)
(* exact through failures, and load re-derives it after a crash.          *)
(***************************************************************************)
CounterMatchesChain ==
    (handle = "live" /\ AllIdle) => size = Len(rules)

(***************************************************************************)
(* RETURN stays the chain's last rule: every redirect rule add_rule       *)
(* inserts sits before it and is reached by packets.                      *)
(***************************************************************************)
RulesBeforeReturn ==
    \A i \in 1..Len(rules) : rules[i] = Return => i = Len(rules)

(***************************************************************************)
(* spec.md section 3: every chain the system creates has a live handle,   *)
(* and dropping the handle flushes and deletes the chain even on failure  *)
(* paths.  So once create has failed or the handle has been dropped       *)
(* ("gone"), the chain is no longer in the nat table.  IPTableChain::     *)
(* create returns `?` after a `-N` whose RETURN append failed, and Drop   *)
(* discards remove_chain's error, so either leaves an ownerless chain.    *)
(***************************************************************************)
ChainHasOwner == handle = "gone" => ~exists

\* The rules a packet jumping to the chain traverses: those before the
\* first RETURN, or all of them when the chain has none (the end of a
\* user-defined chain returns to its caller as RETURN does).
Traversed ==
    LET k == SelectInSeq(rules, LAMBDA x : x = Return)
    IN  IF k = 0 THEN rules ELSE SubSeq(rules, 1, k - 1)

Chain == INSTANCE RedirectChain WITH present <- exists, redirects <- Traversed

(***************************************************************************)
(* The handle implements RedirectChain: through create, load, add_rule,   *)
(* remove_rule and drop, with failing iptables calls, crashes and reloads,*)
(* what packets traverse changes only as a list of redirects does: a      *)
(* successful add_rule appends its rule after the ones already there and  *)
(* remove_rule removes the first matching one.                            *)
(***************************************************************************)
ImplementsRedirectChain == Chain!Spec

=============================================================================
