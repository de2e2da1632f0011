----------------------------- MODULE VnodeTable -----------------------------
(***************************************************************************)
(* What sysfsnode_find() promises its callers, without the table, the      *)
(* mutex, the allocations or the retries: at any time an identity has at   *)
(* most one vnode, a lookup returns the vnode the identity has at that     *)
(* moment (creating it if there is none), and an identity keeps its vnode  *)
(* for as long as somebody holds it.                                       *)
(***************************************************************************)
CONSTANTS Threads, Keys, Vnodes, NULL

VARIABLES binding,   \* the vnode of each identity, or NULL
          holds      \* the vnode each thread holds an iocount on, or NULL

tableState == <<binding, holds>>

Init ==
    /\ binding = [k \in Keys |-> NULL]
    /\ holds = [t \in Threads |-> NULL]

\* A lookup of an identity that has no vnode gives it one nobody else uses.
Create(t, k, v) ==
    /\ holds[t] = NULL
    /\ binding[k] = NULL
    /\ \A j \in Keys : binding[j] # v
    /\ binding' = [binding EXCEPT ![k] = v]
    /\ holds' = [holds EXCEPT ![t] = v]

\* A lookup of an identity that has one.
Get(t, k) ==
    /\ holds[t] = NULL
    /\ binding[k] # NULL
    /\ holds' = [holds EXCEPT ![t] = binding[k]]
    /\ UNCHANGED binding

Put(t) ==
    /\ holds[t] # NULL
    /\ holds' = [holds EXCEPT ![t] = NULL]
    /\ UNCHANGED binding

\* The vnode is recycled.
Evict(k) ==
    /\ binding[k] # NULL
    /\ \A t \in Threads : holds[t] # binding[k]
    /\ binding' = [binding EXCEPT ![k] = NULL]
    /\ UNCHANGED holds

Next ==
    \/ \E t \in Threads, k \in Keys :
          Get(t, k) \/ \E v \in Vnodes : Create(t, k, v)
    \/ \E t \in Threads : Put(t)
    \/ \E k \in Keys : Evict(k)

Spec == Init /\ [][Next]_tableState
=============================================================================
