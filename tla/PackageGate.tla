----------------------------- MODULE PackageGate -----------------------------
(***************************************************************************)
(* What installing promises (package/mod.rs, package/trust.rs), without    *)
(* handlers or files: a package document is an offer and nothing more; a   *)
(* package is let in only if its publisher really made it, it asks for     *)
(* nothing it may not have, and the operator has accepted its publisher's  *)
(* key; and whatever this node mounts was let in, one version of a name.   *)
(***************************************************************************)
CONSTANT Sound   \* the manifests that are what their publishers made, and fit to install

VARIABLES
    accepted,    \* keys the operator has said yes to
    admitted,    \* manifests let in
    mounted      \* manifests whose editors and permissions are live

Init == accepted = {} /\ admitted = {} /\ mounted = {}

Accept(key) ==
    /\ accepted' = accepted \union {key}
    /\ UNCHANGED <<admitted, mounted>>

Admit(m) ==
    /\ m \in Sound
    /\ m.publisher_key \in accepted
    /\ admitted' = admitted \union {m}
    /\ UNCHANGED <<accepted, mounted>>

OneOfAName(ms) == \A a, b \in ms : a.name = b.name => a = b

Mount(ms) ==
    /\ ms \subseteq admitted
    /\ OneOfAName(ms)
    /\ mounted' = ms
    /\ UNCHANGED <<accepted, admitted>>

Next ==
    \/ \E key \in accepted' : Accept(key)
    \/ \E m \in Sound : Admit(m)
    \/ \E ms \in {mounted'} : Mount(ms)

Spec == Init /\ [][Next]_<<accepted, admitted, mounted>>
=============================================================================
