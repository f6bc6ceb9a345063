---------------------------- MODULE ScopeManager ----------------------------
(***************************************************************************)
(* internal/scope: the manager that binds a cgroup to one registration and  *)
(* keeps the kernel's scope map in step with its own table.                 *)
(*                                                                         *)
(* A registration is named by the registration attempt r that made it; what *)
(* the map stores is that attempt's scope cookie CookieOf[r], the only      *)
(* thing the code compares.  One Core process is modelled, so instance_id   *)
(* is one value and the identity {instance_id, scope_cookie} is the cookie. *)
(***************************************************************************)
EXTENDS Integers, FiniteSets

CONSTANTS Runs,        \* registration attempts: a random run ID and its cookie
          NoRun,
          Cookies,
          CookieOf,    \* the scope cookie each attempt draws
          Cgroups,
          Encloses,    \* pairs <<a, d>>: path a is a strict ancestor of path d
          Core         \* the cgroup Core itself runs in

ASSUME ScopeAssumption ==
    /\ NoRun \notin Runs
    /\ CookieOf \in [Runs -> Cookies]
    /\ Encloses \subseteq Cgroups \X Cgroups
    /\ Core \in Cgroups

VARIABLES scopeMap,    \* the BPF scope_map, read by the hooks without a lock
          active       \* Manager.active, guarded by Manager.mu

scopeVars == <<scopeMap, active>>

pathIsEqualOrAncestor(candidate, descendant) ==
    candidate = descendant \/ <<candidate, descendant>> \in Encloses

pathsOverlap(first, second) ==
    \/ pathIsEqualOrAncestor(first, second)
    \/ pathIsEqualOrAncestor(second, first)

NewManager ==
    /\ scopeMap = [c \in Cgroups |-> NoRun]
    /\ active = [c \in Cgroups |-> NoRun]

-----------------------------------------------------------------------------
\* What Register refuses before it writes anything: Core's own subtree, an
\* active cgroup, and a path above or below an active one.
Registrable(c) ==
    /\ ~pathIsEqualOrAncestor(c, Core)
    /\ active[c] = NoRun
    /\ \A d \in Cgroups : active[d] # NoRun => ~pathsOverlap(d, c)

\* Manager.Register once the leaf is resolved and probed.  Resolver, probe and
\* map-write errors leave both tables alone, as every refusal does: those are
\* the caller's failure branch.
ScopeRegister(c, r) ==
    /\ Registrable(c)
    /\ scopeMap' = [scopeMap EXCEPT ![c] = r]
    /\ active' = [active EXCEPT ![c] = r]

\* Manager.Unregister when scopes.Delete succeeds.  It is keyed by the cgroup
\* alone: whichever registration is there goes.
ScopeUnregister(c) ==
    /\ active[c] # NoRun
    /\ scopeMap' = [scopeMap EXCEPT ![c] = NoRun]
    /\ active' = [active EXCEPT ![c] = NoRun]

\* Manager.Unregister when the scope is not active or scopes.Delete fails: the
\* error is returned and the registration is kept.
ScopeUnregisterFails(c) == UNCHANGED scopeVars

MutantWithActiveIdentity(c, k) == active[c] # NoRun

\* Manager.WithActiveIdentity: the authorisation under which a caller may act
\* on cgroup c for identity k.
WithActiveIdentity(c, k) == active[c] # NoRun /\ CookieOf[active[c]] = k

ActiveIDs == {c \in Cgroups : active[c] # NoRun}

-----------------------------------------------------------------------------
ScopeTypeOK ==
    /\ scopeMap \in [Cgroups -> Runs \cup {NoRun}]
    /\ active \in [Cgroups -> Runs \cup {NoRun}]
=============================================================================
