----------------------------- MODULE PublishGate -----------------------------
(***************************************************************************)
(* What the approval gate promises, with no request handler in sight: a    *)
(* tree of Meta entities is opened only under a grant (a human approval of *)
(* one exact plan) that has been spent, carries the granted plan, is built *)
(* completely before any part of it is activated, and can be halted at the *)
(* root.  With SingleUse a grant opens at most one tree.                   *)
(***************************************************************************)
EXTENDS Naturals

CONSTANTS
  Grants,     \* identities of approvals
  Trees,      \* identities of trees of Meta entities
  Plans,      \* the plans a human can be shown
  Size,       \* entities in a tree: the campaign (1), its ad sets, their ads
  SingleUse,  \* whether one grant opens at most one tree
  None

VARIABLES
  granted,    \* granted[g]: the plan the human approved, or None
  spent,      \* the grants that have been consumed
  tree        \* tree[t]: the state of a tree of Meta entities

vars == <<granted, spent, tree>>

Unopened == [approval |-> None, plan |-> None, built |-> 0, active |-> {}]

Init ==
  /\ granted = [g \in Grants |-> None]
  /\ spent = {}
  /\ tree = [t \in Trees |-> Unopened]

Grant(g, p) ==
  /\ granted[g] = None
  /\ granted' = [granted EXCEPT ![g] = p]
  /\ UNCHANGED <<spent, tree>>

Spend(g) ==
  /\ granted[g] # None
  /\ spent' = spent \cup {g}
  /\ UNCHANGED <<granted, tree>>

Open(t, g) ==
  /\ g \in spent
  /\ tree[t] = Unopened
  /\ SingleUse => \A u \in Trees : tree[u].approval # g
  /\ tree' = [tree EXCEPT ![t] =
                [approval |-> g, plan |-> granted[g], built |-> 1, active |-> {}]]
  /\ UNCHANGED <<granted, spent>>

Build(t) ==
  /\ tree[t].built \in 1 .. (Size - 1)
  /\ tree' = [tree EXCEPT ![t].built = @ + 1]
  /\ UNCHANGED <<granted, spent>>

Activate(t, e) ==
  /\ tree[t].built = Size
  /\ tree' = [tree EXCEPT ![t].active = @ \cup {e}]
  /\ UNCHANGED <<granted, spent>>

Halt(t) ==
  /\ tree' = [tree EXCEPT ![t].active = @ \ {1}]
  /\ UNCHANGED <<granted, spent>>

Next ==
  \/ \E g \in Grants, p \in Plans : Grant(g, p)
  \/ \E g \in Grants : Spend(g)
  \/ \E t \in Trees, g \in Grants : Open(t, g)
  \/ \E t \in Trees : Build(t) \/ Halt(t)
  \/ \E t \in Trees, e \in 1 .. Size : Activate(t, e)

Spec == Init /\ [][Next]_vars
=============================================================================
