---------------------------- MODULE TargetWiring ----------------------------
(***************************************************************************)
(* What a conversion config promises its target, without caches, statuses  *)
(* or API calls.  A reconcile earns a permit for one server: for the first *)
(* wiring, for the server the target already names, or for a move through  *)
(* an open handover gate.  The target is pointed only where a permit says, *)
(* and the config answers for it from that moment on; it is let go of only *)
(* without a webhook.  ConfigController is shown to keep this promise.     *)
(***************************************************************************)
CONSTANTS
    Servers,
    NoServer

VARIABLES
    wire,      \* the server the target's spec.conversion names, or NoServer
    account,   \* the server the config answers for, or NoServer
    permit,    \* the server the reconcile in progress may wire, or NoServer
    held,      \* the config holds its finalizer
    open       \* the servers whose handover gate is open

wiringVars == <<wire, account, permit, held, open>>

Init ==
    /\ wire = NoServer
    /\ account = NoServer
    /\ permit = NoServer
    /\ held = FALSE
    /\ open \subseteq Servers

\* A target that is wired elsewhere may only be moved through the gate.
Permit(s) ==
    /\ permit = NoServer
    /\ wire \in {NoServer, s} \/ s \in open
    /\ permit' = s
    /\ held' = TRUE
    /\ UNCHANGED <<wire, account, open>>

Point ==
    /\ permit # NoServer
    /\ wire' = permit
    /\ account' = permit
    /\ permit' = NoServer
    /\ UNCHANGED <<held, open>>

Abandon ==
    /\ permit # NoServer
    /\ permit' = NoServer
    /\ UNCHANGED <<wire, account, held, open>>

\* A finalizer is added by a reconcile that stops short of a permit.
Hold ==
    /\ held' = TRUE
    /\ UNCHANGED <<wire, account, permit, open>>

\* The webhook goes: stripped by somebody else, or reverted, in which case
\* the config may stop answering for it.
Unwire ==
    /\ wire' = NoServer
    /\ account' \in {account, NoServer}
    /\ UNCHANGED <<permit, held, open>>

Release ==
    /\ held
    /\ wire = NoServer
    /\ permit = NoServer
    /\ held' = FALSE
    /\ account' = NoServer
    /\ UNCHANGED <<wire, permit, open>>

GateMoves ==
    /\ open' \subseteq Servers
    /\ UNCHANGED <<wire, account, permit, held>>

Next ==
    \/ \E s \in Servers : Permit(s)
    \/ Point
    \/ Abandon
    \/ Hold
    \/ Unwire
    \/ Release
    \/ GateMoves

Spec == Init /\ [][Next]_wiringVars

\* The config answers for every webhook it put on a target and holds on to
\* its finalizer while there is one.
Accounted ==
    /\ wire \in {NoServer, account}
    /\ wire # NoServer \/ permit # NoServer => held
=============================================================================
