--------------------------- MODULE PromptModules ---------------------------
(***************************************************************************)
(* The prompt modules of one workspace and the roles that refer to them.   *)
(* The catalog is what the engine ships, overlaid by the files that the    *)
(* catalog's routes write and delete, and, for names in neither, the files *)
(* of an older layout that nothing writes any more.  A role lists modules  *)
(* by name in its content, which git keeps by commit; what the server      *)
(* knows of a role's list without git is the row that its cache holds for  *)
(* the commit the role is pinned to.  A spawn composes the modules of the  *)
(* role and throws on a name that is not in the catalog.                   *)
(*                                                                         *)
(* No handler awaits, so a crash is the only thing that comes in between   *)
(* the writes of one.  Commits forced over another checkout are left out.  *)
(***************************************************************************)
EXTENDS Naturals, Sequences

CONSTANTS PmNames,    \* module names
          PmRoles,    \* roles of the workspace
          PmStanding, \* the persistent ones, with an agent whose triggers a boot loads
          PmShipped,  \* the modules that each release ships
          PmLegacy,   \* names the older layout may have
          MaxShas     \* bound: commits

ASSUME PmSets == /\ PmStanding \subseteq PmRoles
                 /\ PmShipped \in Seq(SUBSET PmNames) /\ PmShipped # <<>>

VARIABLES release,   \* the engine that runs: its contract version
          seeds,     \* modules of the older layout
          moduleDir, \* modules that have a file in the workspace
          trees,     \* the references of every commit: how a name is listed
          pinnedAt,  \* the commit a role is pinned to (0: no such role)
          cacheRow,  \* the contract version of the cache's row for a commit (0: none)
          loose      \* history: references that were made, or left, without a module

pmVars == <<release, seeds, moduleDir, trees, pinnedAt, cacheRow, loose>>

enumerateDefaultPromptModules == PmShipped[release]

\* a name resolves to the file, else to what is shipped, else to the older file
resolvePromptModuleCatalog == moduleDir \cup enumerateDefaultPromptModules \cup seeds

stands(r) == pinnedAt[r] # 0
seedRefs(r) == trees[pinnedAt[r]]
lists(r, n) == stands(r) /\ seedRefs(r)[n] # "absent"

\* a row that an older engine wrote is a miss
getRow(sha) == cacheRow[sha] >= release
getOrLoad(sha) == IF getRow(sha) THEN cacheRow ELSE [cacheRow EXCEPT ![sha] = release]

\* Variant: the guard asks the cache the way a spawn does.
rolesOnCurrentRows(n) == {r \in PmRoles : lists(r, n) /\ getRow(pinnedAt[r])}

\* Variant: a reference that is switched off does not count.
rolesEnabling(n) == {r \in PmRoles : stands(r) /\ seedRefs(r)[n] = "on" /\ cacheRow[pinnedAt[r]] # 0}

\* the roles known to list a module: any row for the pin will do
rolesReferencingModule(n) == {r \in PmRoles : lists(r, n) /\ cacheRow[pinnedAt[r]] # 0}

-----------------------------------------------------------------------------
(* The catalog's routes.                                                   *)

\* the names that a spawn of the role throws on as long as they are switched on
unknown(r) == {n \in PmNames : lists(r, n)} \ resolvePromptModuleCatalog
Unresolved == {p \in PmRoles \X PmNames : p[2] \in unknown(p[1])}

CreateModule(n) ==
  /\ n \notin moduleDir
  /\ moduleDir' = moduleDir \cup {n}
  /\ UNCHANGED <<release, seeds, trees, pinnedAt, cacheRow>>
  /\ loose' = loose \cap Unresolved'

\* an edit of a shipped module is a file that shadows it
EditModule(n) ==
  /\ n \in moduleDir \cup enumerateDefaultPromptModules
  /\ moduleDir' = moduleDir \cup {n}
  /\ UNCHANGED <<release, seeds, trees, pinnedAt, cacheRow, loose>>

AgentEditsModule(n) == EditModule(n)

\* the file of a shipped module may go: the name still resolves
DeleteModule(n, force) ==
  /\ n \in moduleDir
  /\ n \notin enumerateDefaultPromptModules => rolesReferencingModule(n) = {} \/ force
  /\ moduleDir' = moduleDir \ {n}
  /\ UNCHANGED <<release, seeds, trees, pinnedAt, cacheRow>>
  /\ loose' = loose \cup {p \in Unresolved' : force \/ cacheRow[pinnedAt[p[1]]] = 0}

-----------------------------------------------------------------------------
(* The roles.  `reach` is how far a crash lets a handler go; the boot that *)
(* follows loads the content of the roles whose agents have triggers.      *)

Loaded(rows, pins, engine) ==
  [s \in DOMAIN rows |-> IF \E r \in PmStanding : pins[r] = s /\ rows[s] < engine
                         THEN engine ELSE rows[s]]

\* the commit, the pin, and the row that warms the cache
CommitRefs(r, to, rows, reach) ==
  LET sha == Len(trees) + 1 IN
  /\ sha <= MaxShas
  /\ trees' = Append(trees, to)
  /\ pinnedAt' = IF reach = "committed" THEN pinnedAt ELSE [pinnedAt EXCEPT ![r] = sha]
  /\ cacheRow' = IF reach = "answered" THEN [rows EXCEPT ![sha] = release]
                 ELSE Loaded(rows, pinnedAt', release)
  /\ UNCHANGED <<release, seeds, moduleDir>>

PmReaches == {"committed", "pinned", "answered"}

\* a reference is to a name, whether or not the catalog has it
AddRef(r, n, on, reach) ==
  /\ stands(r) /\ ~lists(r, n)
  /\ CommitRefs(r, [seedRefs(r) EXCEPT ![n] = on], getOrLoad(pinnedAt[r]), reach)
  /\ loose' = (loose \cup {<<r, n>>}) \cap Unresolved'

ToggleRef(r, n, on, reach) ==
  /\ lists(r, n)
  /\ CommitRefs(r, [seedRefs(r) EXCEPT ![n] = on], getOrLoad(pinnedAt[r]), reach)
  /\ UNCHANGED loose

\* `roles edit` replaces the list, here one name at a time, and so does a checkout's commit
EditRefs(r, n, to, reach) ==
  /\ stands(r)
  /\ CommitRefs(r, [seedRefs(r) EXCEPT ![n] = to], cacheRow, reach)
  /\ loose' = (IF lists(r, n) THEN loose ELSE loose \cup {<<r, n>>}) \cap Unresolved'

Fork(src, new, reach) ==
  /\ stands(src) /\ ~stands(new)
  /\ CommitRefs(new, seedRefs(src), cacheRow, reach)
  /\ loose' = (loose \cup {<<new, n>> : n \in {m \in PmNames : <<src, m>> \in loose}}) \cap Unresolved'

DeletesRole(r) ==
  /\ stands(r)
  /\ pinnedAt' = [pinnedAt EXCEPT ![r] = 0]
  /\ UNCHANGED <<release, seeds, moduleDir, trees, cacheRow>>
  /\ loose' = loose \cap Unresolved'

\* whatever asks for a role's content: a spawn, a command's gate, a view
ReadsContent(r) ==
  /\ stands(r)
  /\ cacheRow' = getOrLoad(pinnedAt[r])
  /\ UNCHANGED <<release, seeds, moduleDir, trees, pinnedAt, loose>>

Boots(next) ==
  /\ next \in {release, release + 1} \cap DOMAIN PmShipped
  /\ release' = next
  /\ cacheRow' = Loaded(cacheRow, pinnedAt, next)
  /\ UNCHANGED <<seeds, moduleDir, trees, pinnedAt>>
  /\ loose' = {p \in Unresolved' : p \in loose \/ p[2] \in PmShipped[release] \ PmShipped[next]}

\* a workspace as it is seeded, by this release or the one before
PmInit ==
  /\ release = 1 /\ moduleDir = {}
  /\ seeds \in SUBSET PmLegacy
  /\ trees = <<[n \in PmNames |-> IF n \in PmShipped[1] THEN "on" ELSE "absent"]>>
  /\ \E r \in PmRoles : pinnedAt = [s \in PmRoles |-> IF s = r THEN 1 ELSE 0]
  /\ cacheRow = Loaded([s \in 1..MaxShas |-> 0], pinnedAt, 1)
  /\ loose = {}

PmNext ==
  \/ \E n \in PmNames :
       \/ CreateModule(n) \/ EditModule(n) \/ AgentEditsModule(n)
       \/ \E force \in BOOLEAN : DeleteModule(n, force)
       \/ \E r \in PmRoles, reach \in PmReaches :
            \/ \E on \in {"on", "off"} : AddRef(r, n, on, reach) \/ ToggleRef(r, n, on, reach)
            \/ \E to \in {"on", "off", "absent"} : EditRefs(r, n, to, reach)
  \/ \E r, s \in PmRoles, reach \in PmReaches : Fork(r, s, reach)
  \/ \E r \in PmRoles : ReadsContent(r) \/ DeletesRole(r)
  \/ \E next \in DOMAIN PmShipped : Boots(next)

PmSpec == PmInit /\ [][PmNext]_pmVars

-----------------------------------------------------------------------------
(* A module that a role lists, switched on or off, stays in the catalog,   *)
(* so that no spawn of the role throws on it, over deletions, edits, forks,*)
(* releases and crashes: the guard of a deletion sees every role through   *)
(* the cache.  The exceptions are a reference made to a name the catalog   *)
(* does not have, a forced deletion, a deletion while the cache has no row *)
(* for the pin (a crash came between the pin and the row, or nothing has   *)
(* read a seeded role yet), and a release that ships the module no longer. *)
RefsResolve == Unresolved \subseteq loose
=============================================================================
