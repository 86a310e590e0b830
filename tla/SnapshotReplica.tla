-------------------------- MODULE SnapshotReplica ---------------------------
(***************************************************************************)
(* What a client may rely on about its copy of an account, whatever the    *)
(* notifications and patches that keep it up to date.  As long as the      *)
(* server keeps the account, the copy is the account as some handler of    *)
(* the server left it, never a mixture of two such states, and it never    *)
(* goes back to an older one.                                              *)
(***************************************************************************)
EXTENDS Integers

CONSTANT Nothing   \* the copy of a client that knows nothing of the account

VARIABLES
    snapshots,   \* every state the account has been in, with its revision
    copy,        \* the state the client has
    gone         \* whether the server has erased the account

vars == <<snapshots, copy, gone>>

Init == snapshots = {} /\ copy = Nothing /\ gone = FALSE

Publish ==
    /\ ~gone
    /\ \E s \in snapshots' :
          /\ snapshots' = snapshots \cup {s}
          /\ \A t \in snapshots : t.revision < s.revision
    /\ UNCHANGED <<copy, gone>>

Refresh ==
    /\ \E s \in snapshots :
          /\ copy # Nothing => s.revision > copy.revision
          /\ copy' = s
    /\ UNCHANGED <<snapshots, gone>>

Vanish ==
    /\ snapshots # {} /\ gone' = TRUE
    /\ UNCHANGED <<snapshots, copy>>

\* Nothing is promised about the copy of an account that is gone.
Decay ==
    /\ gone
    /\ UNCHANGED <<snapshots, gone>>

Next == Publish \/ Refresh \/ Vanish \/ Decay

Spec == Init /\ [][Next]_vars
=============================================================================
