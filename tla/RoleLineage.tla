---------------------------- MODULE RoleLineage -----------------------------
(***************************************************************************)
(* Which branch of the engine's role repository a role is compared with    *)
(* (role-upstream-diff.ts), as the engine's branches advance with its      *)
(* releases, the workspace's clone fetches them when it is told to, and    *)
(* roles are edited and forked from one another.  A commit is a number,    *)
(* and `parent` its parent: no verb of the server merges.  Commit 1 is the *)
(* base layer; a ref of the clone is the base or a shipped role's default. *)
(***************************************************************************)
EXTENDS Naturals, Sequences, FiniteSets

CONSTANTS
    LineNames,     \* names of roles
    EngineRoles,   \* those the engine ships, in the order of the boot's map
    BaseRef,       \* upstream/base
    MaxLine        \* bound: commits

VARIABLES
    parent,   \* of each commit; the base layer's is 0
    tips,     \* the engine's repository: the tip of each <name>-default
    fetched,  \* the clone: upstream/<name>-default as of the last fetch
    pins,     \* the commit a role is pinned to; 0: no such role
    origin    \* the shipped role each role was forked from, directly or through others

lineVars == <<parent, tips, fetched, pins, origin>>

ShippedNames == {EngineRoles[k] : k \in DOMAIN EngineRoles}

\* A default's branch has a suffix that the base's has not.
ASSUME EnginesAssumption == EngineRoles \in Seq(LineNames) /\ BaseRef \notin ShippedNames

NumberOf(s) == CHOOSE k \in DOMAIN EngineRoles : EngineRoles[k] = s

\* The base layer, one default per shipped role, and a workspace seeded with them.
LineInit ==
    /\ parent = [c \in 1 .. Len(EngineRoles) + 1 |-> IF c = 1 THEN 0 ELSE 1]
    /\ tips = [s \in ShippedNames |-> NumberOf(s) + 1]
    /\ fetched = tips
    /\ pins = [n \in LineNames |-> IF n \in ShippedNames THEN tips[n] ELSE 0]
    /\ origin = [n \in LineNames |-> n]

Commits(p) == Len(parent) < MaxLine /\ parent' = Append(parent, p)

\* A boot whose shipped bundle drifted advances the default branch.
Release(s) ==
    /\ Commits(tips[s])
    /\ tips' = [tips EXCEPT ![s] = Len(parent')]
    /\ UNCHANGED <<fetched, pins, origin>>

LineFetched == fetched' = tips /\ UNCHANGED <<parent, tips, pins, origin>>

LineEdited(n) ==
    /\ pins[n] # 0
    /\ Commits(pins[n])
    /\ pins' = [pins EXCEPT ![n] = Len(parent')]
    /\ UNCHANGED <<tips, fetched, origin>>

LineForked(n, new) ==
    /\ pins[n] # 0
    /\ pins[new] = 0
    /\ Commits(pins[n])
    /\ pins' = [pins EXCEPT ![new] = Len(parent')]
    /\ origin' = [origin EXCEPT ![new] = origin[n]]
    /\ UNCHANGED <<tips, fetched>>

LineDeleted(n) ==
    /\ pins[n] # 0
    /\ pins' = [pins EXCEPT ![n] = 0]
    /\ UNCHANGED <<parent, tips, fetched, origin>>

LineNext == \/ \E s \in ShippedNames : Release(s)
            \/ LineFetched
            \/ \E n \in LineNames : \/ LineEdited(n) \/ LineDeleted(n)
                                    \/ \E new \in LineNames : LineForked(n, new)

LineSpec == LineInit /\ [][LineNext]_lineVars

-----------------------------------------------------------------------------
(* git's answers.                                                          *)

\* The commits reachable from c, itself among them.
Reach(c) == LET up[d \in 0 .. Len(parent)] == IF d = 0 THEN {} ELSE {d} \cup up[parent[d]]
            IN  up[c]

isAncestor(a, b) == a \in Reach(b)

computeMergeBase(a, b) ==
    CHOOSE c \in Reach(a) \cap Reach(b) : \A d \in Reach(a) \cap Reach(b) : isAncestor(d, c)

shaOf(ref) == IF ref = BaseRef THEN 1 ELSE fetched[ref]

-----------------------------------------------------------------------------
(* resolveUpstreamRef: a role named as a shipped one is compared with that *)
(* default; for the others the refs are tried in turn, base first, and one *)
(* replaces the best so far when its merge base descends from the best's.  *)

\* Variant: the older of two merge bases is taken for the deeper.
betterShallow(sha, ref, best) ==
    LET mb == computeMergeBase(sha, shaOf(ref))
        bestMergeBase == computeMergeBase(sha, shaOf(best))
    IN  mb # bestMergeBase /\ isAncestor(mb, bestMergeBase)

better(sha, ref, best) ==
    LET mb == computeMergeBase(sha, shaOf(ref))
        bestMergeBase == computeMergeBase(sha, shaOf(best))
    IN  mb # bestMergeBase /\ isAncestor(bestMergeBase, mb)

resolveUpstreamRef(n) ==
    LET best[k \in 0 .. Len(EngineRoles)] ==
          IF k = 0 THEN BaseRef
          ELSE IF better(pins[n], EngineRoles[k], best[k - 1]) THEN EngineRoles[k] ELSE best[k - 1]
    IN  IF n \in ShippedNames THEN n ELSE best[Len(EngineRoles)]

-----------------------------------------------------------------------------
\* A role the workspace invented is compared with the shipped role it was forked from,
\* through however many forks, of roles deleted since too, and whatever was released,
\* fetched and edited in between: no other default, and not the base layer.
ComparedWithOrigin ==
    \A n \in LineNames \ ShippedNames : pins[n] # 0 => resolveUpstreamRef(n) = origin[n]
=============================================================================
